------------------------------ MODULE MCServices ------------------------------
(***************************************************************************)
(* Services that share no state, checked in one run: the scene is chosen   *)
(* at the start and only its component moves, so that the states of the    *)
(* components add up instead of multiplying.  The handlers of all scenes   *)
(* are the same model values, and so are pages, panels and points.         *)
(***************************************************************************)
EXTENDS Credentials, StoredFiles, Geocoder, MCOrgChart, MCReports

VARIABLE scene

AllLoginOps == {"signIn", "refresh", "change", "reset", "recover", "signOutAll", "request",
                "enroll", "confirm", "disable"}

SceneSymmetry == Permutations(Logins) \cup Permutations(Panels)

Init ==
  /\ scene \in {"credentials", "files", "org", "reports", "geocoding"}
  /\ CredentialsInit /\ (scene = "credentials" \/ mfa.secret = 0)
  /\ StoredFilesInit
  /\ OrgChartInit /\ (scene = "org" \/ \A s \in Scopes : chart[s] = NoChart)
  /\ ReportsInit /\ (scene # "reports" => org.chart = NoLine /\ manager[mid] = head)
  /\ GeocoderInit /\ (scene = "geocoding" \/ lookups)

Others(s) ==
  /\ s # "credentials" => UNCHANGED credentialVars
  /\ s # "files" => UNCHANGED fileVars
  /\ s # "org" => UNCHANGED chartVars
  /\ s # "reports" => UNCHANGED reportVars
  /\ s # "geocoding" => UNCHANGED geoVars

Next ==
  /\ \/ scene = "credentials" /\ CredentialsNext
     \/ scene = "files" /\ StoredFilesNext
     \/ scene = "org" /\ OrgChartNext
     \/ scene = "reports" /\ ReportsNext
     \/ scene = "geocoding" /\ GeocoderNext
  /\ Others(scene) /\ UNCHANGED scene

Spec ==
  Init /\ [][Next]_<<scene, credentialVars, fileVars, chartVars, reportVars, geoVars>>

(* The type invariants of the components.                                  *)
TypeOK ==
  /\ CredentialsTypeOK /\ StoredFilesTypeOK
  /\ OrgChartTypeOK /\ ReportsTypeOK /\ GeocoderTypeOK
=============================================================================
