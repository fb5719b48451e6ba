--------------------------- MODULE MCClientSession ---------------------------
(***************************************************************************)
(* Small browsers and servers for ClientSession.  Every counter is bounded *)
(* by the calls and sessions there are: a call causes at most one refresh, *)
(* a call of a booting page two.                                           *)
(***************************************************************************)
EXTENDS ClientSession, TLC

CONSTANTS ann, bob, s1, s2

(* Each session belongs to its own user ...                                *)
OneEach == (s1 :> ann) @@ (s2 :> bob)
(* ... or the one session there is to the one user.                        *)
AnnOnly == s1 :> ann

Symmetry == Permutations(Calls) \cup Permutations(Flights)
=============================================================================
