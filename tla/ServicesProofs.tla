---------------------------- MODULE ServicesProofs ----------------------------
(***************************************************************************)
(* Proofs about the services that keep files, addresses and hierarchy      *)
(* charts, about the reports that read the charts, and about the types of  *)
(* all the services together, for any number of handlers and any bounds.   *)
(***************************************************************************)
EXTENDS CredentialsProofs, MCServices, FiniteSetTheorems,
        SequenceTheorems, TLAPS

(* StoredFiles.  What a call has in hand, by the operation it is for.      *)
Doc == [kind : {"attachment", "slip"}, key : Nat, live : BOOLEAN]
FileOps == {"none", "attachment", "slip", "delete", "logo", "unlogo", "brand"}
FilePlaces ==
  {"idle", "save", "create", "audit", "publish", "strike", "unlink", "setting",
   "store", "answer"}
FileJob ==
  [op : FileOps, pc : FilePlaces, key : Nat, doc : Nat, at : SUBSET Panels]
PanelState == [seen : Nat, shown : Nat, draft : BOOLEAN, named : BOOLEAN]

FilesType ==
  /\ lastKey \in 0 .. MaxFiles /\ disk \subseteq 1 .. lastKey
  /\ broken \subseteq 1 .. lastKey
  /\ docs \in Seq(Doc)
  /\ announced \subseteq {d \in DOMAIN docs : docs[d].kind = "slip"}
  /\ logo \in Nat
  /\ panel \in [Panels -> PanelState]
  /\ fileCalls \in 0 .. MaxFileCalls

JobFits(j) ==
  /\ j.key <= lastKey /\ (j.doc # 0 => j.doc \in DOMAIN docs)
  /\ j.pc = "save" => j.op \in {"attachment", "slip", "logo"} /\ j.key = 0
  /\ j.pc = "create" => j.op \in {"attachment", "slip"} /\ j.key \in disk
  /\ j.pc = "audit" => j.op # "none"
  /\ j.pc = "publish" => j.op = "slip"
  /\ j.pc = "strike" => j.op = "delete" /\ j.key = 0
  /\ j.pc = "unlink" => j.op \in {"delete", "unlogo"} /\ j.key # 0
  /\ j.pc = "setting" => j.op = "unlogo"
  /\ j.pc = "store" => j.op = "brand"
  /\ j.pc = "answer" => j.op \in {"logo", "unlogo", "brand"}
  /\ j.op \in {"logo", "unlogo", "brand"} => \E p \in Panels : j.at = {p}
  /\ j.op \in {"attachment", "slip"} /\ j.pc \in {"audit", "publish"} =>
       j.doc \in DOMAIN docs /\ docs[j.doc].key = j.key /\ docs[j.doc].kind = j.op
  /\ j.op = "delete" =>
       j.doc \in DOMAIN docs /\ docs[j.doc].kind = "attachment"
  /\ j.op = "delete" /\ j.pc # "strike" =>
       docs[j.doc].key = j.key /\ ~docs[j.doc].live

(* The keys of the branding setting, its panels and the calls about it.    *)
LogoKeys ==
  {logo} \cup {panel[p].seen : p \in Panels} \cup {panel[p].shown : p \in Panels}
    \cup {fileCall[c].key : c \in
            {o \in FileCalls : fileCall[o].op \in {"logo", "unlogo", "brand"}}}

(* A key names one file, of one record, and no logo is a record's.         *)
KeysApart ==
  /\ \A k \in LogoKeys : k <= lastKey
  /\ \A d \in DOMAIN docs :
       docs[d].key \in 1 .. lastKey /\ docs[d].key \notin LogoKeys
  /\ \A d, e \in DOMAIN docs : docs[d].key = docs[e].key => d = e
  /\ \A c \in FileCalls :
       fileCall[c].op \in {"attachment", "slip"} /\ fileCall[c].key # 0 =>
         fileCall[c].key \notin LogoKeys
  /\ \A c \in FileCalls : fileCall[c].pc = "create" =>
       /\ \A d \in DOMAIN docs : docs[d].key # fileCall[c].key
       /\ \A o \in FileCalls :
            fileCall[o].pc = "create" /\ fileCall[o].key = fileCall[c].key => o = c

(* Document d has what it needs, or a call that is to see to it.           *)
DocSeenTo(d) ==
  /\ docs[d].live => docs[d].key \in disk
  /\ docs[d].kind = "slip" =>
       /\ docs[d].live
       /\ \/ d \in announced \/ docs[d].key \in broken
          \/ \E c \in FileCalls : /\ fileCall[c].op = "slip" /\ fileCall[c].doc = d
                                  /\ fileCall[c].pc \in {"audit", "publish"}
  /\ docs[d].live \/ docs[d].key \notin disk \/ docs[d].key \in broken
     \/ \E c \in FileCalls : /\ fileCall[c].op = "delete" /\ fileCall[c].doc = d
                             /\ fileCall[c].pc = "unlink"

FilesInv ==
  /\ FilesType /\ KeysApart
  /\ fileCall \in [FileCalls -> FileJob]
  /\ \A c \in FileCalls : JobFits(fileCall[c])
  /\ \A d \in DOMAIN docs : DocSeenTo(d)

LEMMA DocElement ==
  ASSUME FilesInv, NEW d \in DOMAIN docs
  PROVE  docs[d] \in Doc /\ d \in 1 .. Len(docs)
<1>1. d \in 1 .. Len(docs)
  BY LenProperties DEF FilesInv, FilesType
<1> QED
  BY <1>1, ElementOfSeq DEF FilesInv, FilesType

LEMMA NoFileCallType ==
  /\ NoFileCall \in FileJob
  /\ NoFileCall.op = "none" /\ NoFileCall.pc = "idle" /\ NoFileCall.key = 0
  /\ NoFileCall.doc = 0 /\ NoFileCall.at = {}
BY DEF NoFileCall, FileJob, FileOps, FilePlaces

(* Handler c is left with j, which is about the same keys or none.         *)
FileMoves(c, j) ==
  /\ j \in FileJob /\ fileCall' = [fileCall EXCEPT ![c] = j]
  /\ docs' = docs /\ disk' = disk /\ lastKey' = lastKey
  /\ JobFits(j) /\ j.pc # "create"
  /\ j.op \in {"attachment", "slip"} /\ j.key # 0 => j.key \notin LogoKeys
  /\ j.op \in {"logo", "unlogo", "brand"} => j.key \in LogoKeys \cup {0}
  /\ fileCall[c].op = "slip" /\ fileCall[c].pc \in {"audit", "publish"} =>
       \/ j.op = "slip" /\ j.doc = fileCall[c].doc /\ j.pc \in {"audit", "publish"}
       \/ fileCall[c].doc \in announced' \/ fileCall[c].key \in broken'
  /\ fileCall[c].op = "delete" /\ fileCall[c].pc = "unlink" =>
       fileCall[c].key \in broken'

(* The setting and the panels show keys that were logos before.            *)
LogosKept ==
  /\ logo' \in LogoKeys \cup {0}
  /\ \A p \in Panels : panel'[p].seen \in LogoKeys \cup {0}
                       /\ panel'[p].shown \in LogoKeys \cup {0}

LEMMA FileMovesKeep ==
  ASSUME FilesInv, NEW c \in FileCalls, NEW j, FileMoves(c, j), FilesType',
         LogosKept, announced \subseteq announced', broken \subseteq broken'
  PROVE  FilesInv'
<1>1. \A o \in FileCalls : fileCall'[o] = IF o = c THEN j ELSE fileCall[o]
  BY DEF FileMoves, FilesInv
<1>2. /\ fileCall' \in [FileCalls -> FileJob]
      /\ docs' = docs /\ disk' = disk /\ lastKey' = lastKey
  BY DEF FileMoves, FilesInv
<1>3. \A o \in FileCalls : JobFits(fileCall[o])'
  <2>1. \A o \in FileCalls : JobFits(fileCall'[o])
    BY <1>1 DEF FileMoves, FilesInv
  <2> QED
    BY <1>2, <2>1 DEF JobFits
<1>4. LogoKeys' \subseteq LogoKeys \cup {0}
  <2>1. \A o \in FileCalls : fileCall'[o].op \in {"logo", "unlogo", "brand"} =>
          fileCall'[o].key \in LogoKeys \cup {0}
    BY <1>1 DEF FileMoves, LogoKeys
  <2> QED
    BY <2>1 DEF LogosKept, LogoKeys
<1>5. KeysApart'
  <2>1. \A k \in LogoKeys' : k <= lastKey'
    BY <1>2, <1>4 DEF FilesInv, KeysApart, FilesType
  <2>2. \A d \in DOMAIN docs' :
          docs'[d].key \in 1 .. lastKey' /\ docs'[d].key \notin LogoKeys'
    BY <1>2, <1>4 DEF FilesInv, KeysApart, FilesType
  <2>3. \A o \in FileCalls :
          fileCall'[o].op \in {"attachment", "slip"} /\ fileCall'[o].key # 0 =>
            fileCall'[o].key \notin LogoKeys'
    BY <1>1, <1>4 DEF FilesInv, KeysApart, FileMoves
  <2>4. \A o \in FileCalls : fileCall'[o].pc = "create" =>
          fileCall'[o] = fileCall[o]
    BY <1>1 DEF FileMoves
  <2> QED
    BY <1>2, <2>1, <2>2, <2>3, <2>4 DEF FilesInv, KeysApart
<1>6. ASSUME NEW d \in DOMAIN docs PROVE DocSeenTo(d)'
  <2>1. DocSeenTo(d) /\ JobFits(fileCall[c])
    BY DEF FilesInv
  <2>2. ASSUME NEW o \in FileCalls, fileCall[o].op = "slip", fileCall[o].doc = d,
               fileCall[o].pc \in {"audit", "publish"}
        PROVE  \/ d \in announced' \/ docs[d].key \in broken'
               \/ \E q \in FileCalls :
                    /\ fileCall'[q].op = "slip" /\ fileCall'[q].doc = d
                    /\ fileCall'[q].pc \in {"audit", "publish"}
    <3>1. CASE o = c
      BY <1>1, <2>1, <2>2, <3>1 DEF FileMoves, JobFits
    <3>2. CASE o # c
      BY <1>1, <2>2, <3>2
    <3> QED
      BY <3>1, <3>2
  <2>3. ASSUME NEW o \in FileCalls, fileCall[o].op = "delete",
               fileCall[o].doc = d, fileCall[o].pc = "unlink"
        PROVE  \/ docs[d].key \in broken'
               \/ \E q \in FileCalls :
                    /\ fileCall'[q].op = "delete" /\ fileCall'[q].doc = d
                    /\ fileCall'[q].pc = "unlink"
    <3>1. CASE o = c
      BY <1>1, <2>1, <2>3, <3>1 DEF FileMoves, JobFits
    <3>2. CASE o # c
      BY <1>1, <2>3, <3>2
    <3> QED
      BY <3>1, <3>2
  <2> QED
    BY <1>2, <2>1, <2>2, <2>3 DEF DocSeenTo
<1> QED
  BY <1>2, <1>3, <1>5, <1>6 DEF FilesInv

LEMMA FileCallIs ==
  ASSUME FilesInv, NEW c \in FileCalls
  PROVE  fileCall[c] \in FileJob /\ JobFits(fileCall[c])
BY DEF FilesInv

FileTypeKept ==
  /\ announced \subseteq announced'
  /\ announced' \subseteq {d \in DOMAIN docs : docs[d].kind = "slip"}
  /\ broken \subseteq broken' /\ broken' \subseteq 1 .. lastKey
  /\ logo' \in Nat /\ panel' \in [Panels -> PanelState]
  /\ fileCalls' \in 0 .. MaxFileCalls

LEMMA FileTypeSame ==
  ASSUME FilesInv, announced' = announced, broken' = broken, logo' = logo,
         panel' = panel, fileCalls' \in 0 .. MaxFileCalls
  PROVE  FileTypeKept /\ LogosKept
BY DEF FilesInv, FilesType, FileTypeKept, LogosKept, LogoKeys

LEMMA MovesInv ==
  ASSUME FilesInv, NEW c \in FileCalls, NEW j, FileMoves(c, j), FileTypeKept,
         LogosKept
  PROVE  FilesInv'
<1>1. FilesType'
  BY DEF FilesInv, FilesType, FileTypeKept, FileMoves
<1> QED
  BY <1>1, FileMovesKeep DEF FileTypeKept

(* A call that begins.                                                     *)
NewFileCall(op, pc, doc, at) ==
  [NoFileCall EXCEPT !.op = op, !.pc = pc, !.doc = doc, !.at = at]

LEMMA FreshCallIs ==
  ASSUME NEW op \in FileOps, NEW pc \in FilePlaces, NEW doc \in Nat,
         NEW at \in SUBSET Panels
  PROVE  /\ NewFileCall(op, pc, doc, at) \in FileJob
         /\ NewFileCall(op, pc, doc, at).op = op /\ NewFileCall(op, pc, doc, at).pc = pc
         /\ NewFileCall(op, pc, doc, at).doc = doc /\ NewFileCall(op, pc, doc, at).at = at
         /\ NewFileCall(op, pc, doc, at).key = 0
BY DEF NewFileCall, NoFileCall, FileJob

LEMMA FileStartsMoves ==
  ASSUME FilesInv, NEW c \in FileCalls, NEW op \in FileOps, NEW pc \in FilePlaces,
         NEW doc \in Nat, NEW at \in SUBSET Panels, FileStarts(c, op, pc, doc, at),
         JobFits(NewFileCall(op, pc, doc, at)), pc # "create",
         UNCHANGED <<disk, lastKey, docs, announced, logo, panel, broken>>
  PROVE  FilesInv'
<1>1. PICK j : j = NewFileCall(op, pc, doc, at)
  OBVIOUS
<1>2. j \in FileJob /\ j.op = op /\ j.pc = pc /\ j.key = 0 /\ JobFits(j)
  BY <1>1, FreshCallIs
<1>3. /\ fileCall[c] = NoFileCall /\ fileCall' = [fileCall EXCEPT ![c] = j]
      /\ fileCalls' \in 0 .. MaxFileCalls
  <2>1. fileCalls' \in 0 .. MaxFileCalls
    BY StoredFilesAssumption DEF FileStarts, FilesInv, FilesType
  <2> QED
    BY <1>1, <2>1 DEF FileStarts, NewFileCall
<1>4. FileTypeKept /\ LogosKept
  BY <1>3, FileTypeSame
<1>5. FileMoves(c, j)
  BY <1>2, <1>3, NoFileCallType DEF FileMoves
<1> QED
  BY <1>4, <1>5, MovesInv

LEMMA UploadCallKeeps ==
  ASSUME FilesInv, NEW c \in FileCalls, NEW kind, UploadCall(c, kind)
  PROVE  FilesInv'
<1>1. kind \in FileOps /\ kind \in {"attachment", "slip"} /\ "save" \in FilePlaces
  BY DEF UploadCall, FileOps, FilePlaces
<1>2. JobFits(NewFileCall(kind, "save", 0, {}))
  BY <1>1, FreshCallIs DEF JobFits, FilesInv, FilesType
<1> QED
  BY <1>1, <1>2, FileStartsMoves DEF UploadCall

LEMMA DeleteCallKeeps ==
  ASSUME FilesInv, NEW c \in FileCalls, NEW d \in DOMAIN docs, DeleteCall(c, d)
  PROVE  FilesInv'
<1>1. d \in Nat /\ "delete" \in FileOps /\ "strike" \in FilePlaces
  BY DocElement DEF FileOps, FilePlaces
<1>2. JobFits(NewFileCall("delete", "strike", d, {}))
  BY <1>1, FreshCallIs DEF DeleteCall, JobFits, FilesInv, FilesType
<1> QED
  BY <1>1, <1>2, FileStartsMoves DEF DeleteCall

LEMMA LogoCallKeeps ==
  ASSUME FilesInv, NEW c \in FileCalls, NEW p \in Panels,
         UploadLogo(c, p) \/ RemoveLogo(c, p)
  PROVE  FilesInv'
<1>1. /\ "logo" \in FileOps /\ "unlogo" \in FileOps
      /\ "save" \in FilePlaces /\ "setting" \in FilePlaces
  BY DEF FileOps, FilePlaces
<1>2. CASE UploadLogo(c, p)
  <2>1. JobFits(NewFileCall("logo", "save", 0, {p}))
    BY <1>1, FreshCallIs DEF JobFits, FilesInv, FilesType
  <2> QED
    BY <1>1, <1>2, <2>1, FileStartsMoves DEF UploadLogo
<1>3. CASE RemoveLogo(c, p)
  <2>1. JobFits(NewFileCall("unlogo", "setting", 0, {p}))
    BY <1>1, FreshCallIs DEF JobFits, FilesInv, FilesType
  <2> QED
    BY <1>1, <1>3, <2>1, FileStartsMoves DEF RemoveLogo
<1> QED
  BY <1>2, <1>3

LEMMA SaveBrandingKeeps ==
  ASSUME FilesInv, NEW c \in FileCalls, NEW p \in Panels, SaveBranding(c, p)
  PROVE  FilesInv'
<1>1. PICK j : j = [op |-> "brand", pc |-> "store", key |-> panel[p].shown,
                    doc |-> 0, at |-> {p}]
  OBVIOUS
<1>2. panel[p].shown \in LogoKeys /\ panel[p].shown \in Nat
  BY DEF LogoKeys, FilesInv, FilesType, PanelState
<1>3. j \in FileJob /\ JobFits(j)
  BY <1>1, <1>2 DEF FileJob, FileOps, FilePlaces, JobFits, FilesInv, KeysApart
<1>4. FileMoves(c, j)
  BY <1>1, <1>2, <1>3, NoFileCallType DEF FileMoves, SaveBranding
<1>5. FileTypeKept /\ LogosKept
  BY FileTypeSame, StoredFilesAssumption DEF SaveBranding, FilesInv, FilesType
<1> QED
  BY <1>4, <1>5, MovesInv

(* A call that ends, having left nothing to be seen to.                    *)
LEMMA FileEndsMoves ==
  ASSUME FilesInv, NEW c \in FileCalls, FileEnds(c),
         docs' = docs, disk' = disk, lastKey' = lastKey,
         fileCall[c].op = "slip" /\ fileCall[c].pc \in {"audit", "publish"} =>
           fileCall[c].doc \in announced' \/ fileCall[c].key \in broken',
         fileCall[c].op = "delete" /\ fileCall[c].pc = "unlink" =>
           fileCall[c].key \in broken'
  PROVE  FileMoves(c, NoFileCall)
<1>1. JobFits(NoFileCall)
  BY NoFileCallType DEF JobFits, FilesInv, FilesType
<1> QED
  BY <1>1, NoFileCallType DEF FileMoves, FileEnds

LEMMA FileAuditKeeps ==
  ASSUME FilesInv, NEW c \in FileCalls, FileAudit(c)
  PROVE  FilesInv'
<1>1. FileTypeKept /\ LogosKept
  BY FileTypeSame DEF FileAudit, FilesInv, FilesType
<1>2. fileCall[c] \in FileJob /\ JobFits(fileCall[c]) /\ fileCall[c].pc = "audit"
  BY FileCallIs DEF FileAudit
<1>3. CASE fileCall[c].op \in {"slip", "logo", "unlogo", "brand"}
  <2>1. PICK pc \in {"publish", "answer"} :
           FileTo(c, pc) /\ (pc = "publish" <=> fileCall[c].op = "slip")
    BY <1>3 DEF FileAudit
  <2>2. PICK j : j = [fileCall[c] EXCEPT !.pc = pc]
    OBVIOUS
  <2>3. /\ j \in FileJob /\ j.pc = pc /\ j.op = fileCall[c].op
        /\ j.key = fileCall[c].key /\ j.doc = fileCall[c].doc
        /\ j.at = fileCall[c].at
    BY <1>2, <2>2 DEF FileJob, FileOps, FilePlaces
  <2>4. JobFits(j)
    BY <1>2, <1>3, <2>1, <2>3 DEF JobFits
  <2>5. fileCall' = [fileCall EXCEPT ![c] = j]
    BY <2>1, <2>2 DEF FileTo, FilesInv
  <2>6. /\ j.op = "slip" /\ j.key # 0 => j.key \notin LogoKeys
        /\ j.op \in {"logo", "unlogo", "brand"} => j.key \in LogoKeys
    BY <2>3 DEF FilesInv, KeysApart, LogoKeys
  <2> QED
    BY <1>1, <1>3, <2>1, <2>3, <2>4, <2>5, <2>6, MovesInv DEF FileMoves, FileAudit
<1>4. CASE fileCall[c].op \notin {"slip", "logo", "unlogo", "brand"}
  BY <1>1, <1>2, <1>4, FileEndsMoves, MovesInv DEF FileAudit
<1> QED
  BY <1>3, <1>4

LEMMA PublishSlipKeeps ==
  ASSUME FilesInv, NEW c \in FileCalls, PublishSlip(c)
  PROVE  FilesInv'
<1>1. JobFits(fileCall[c]) /\ fileCall[c].op = "slip" /\ fileCall[c].pc = "publish"
  BY FileCallIs DEF PublishSlip, JobFits
<1>2. fileCall[c].doc \in DOMAIN docs /\ docs[fileCall[c].doc].kind = "slip"
  BY <1>1 DEF JobFits
<1>3. FileTypeKept /\ LogosKept
  BY <1>2 DEF PublishSlip, FilesInv, FilesType, FileTypeKept, LogosKept, LogoKeys
<1> QED
  BY <1>1, <1>3, FileEndsMoves, MovesInv DEF PublishSlip

LEMMA FileCallFailsKeeps ==
  ASSUME FilesInv, NEW c \in FileCalls, FileCallFails(c)
  PROVE  FilesInv'
<1>1. fileCall[c] \in FileJob /\ JobFits(fileCall[c])
  BY FileCallIs
<1>2. fileCall[c].key # 0 => fileCall[c].key \in broken' /\ fileCall[c].key \in 1 .. lastKey
  BY <1>1 DEF FileCallFails, JobFits, FileJob, FileOps, FilePlaces, FilesInv, FilesType
<1>3. broken' = broken \cup ({fileCall[c].key} \ {0})
  BY DEF FileCallFails
<1>4. FileTypeKept /\ LogosKept
  BY <1>2, <1>3
  DEF FileCallFails, FilesInv, FilesType, FileTypeKept, LogosKept, LogoKeys
<1>5. \A d \in DOMAIN docs : docs[d].key # 0
  BY DEF FilesInv, KeysApart, FilesType
<1> QED
  BY <1>1, <1>2, <1>4, <1>5, FileEndsMoves, MovesInv DEF FileCallFails, JobFits

LEMMA ReadLogoKeeps ==
  ASSUME FilesInv, NEW c \in FileCalls, ReadLogo(c)
  PROVE  FilesInv'
<1>1. fileCall[c] \in FileJob /\ JobFits(fileCall[c]) /\ fileCall[c].op = "unlogo"
      /\ fileCall[c].pc = "setting"
  BY FileCallIs DEF ReadLogo, JobFits
<1>2. PICK j : j = [fileCall[c] EXCEPT !.key = logo,
                      !.pc = IF logo = 0 THEN "audit" ELSE "unlink"]
  OBVIOUS
<1>3. logo \in Nat /\ logo \in LogoKeys /\ logo <= lastKey
  BY DEF LogoKeys, FilesInv, FilesType, KeysApart
<1>4. /\ j \in FileJob /\ j.op = "unlogo" /\ j.key = logo
      /\ j.pc = (IF logo = 0 THEN "audit" ELSE "unlink") /\ j.at = fileCall[c].at
      /\ j.doc = fileCall[c].doc
  BY <1>1, <1>2, <1>3 DEF FileJob, FileOps, FilePlaces
<1>5. JobFits(j)
  BY <1>1, <1>3, <1>4 DEF JobFits
<1>6. FileMoves(c, j)
  <2>1. fileCall' = [fileCall EXCEPT ![c] = j]
    BY <1>2 DEF ReadLogo, FilesInv
  <2> QED
    BY <1>1, <1>3, <1>4, <1>5, <2>1 DEF FileMoves, ReadLogo
<1>7. FileTypeKept /\ LogosKept
  BY FileTypeSame DEF ReadLogo, FilesInv, FilesType
<1> QED
  BY <1>6, <1>7, MovesInv

LEMMA StoreBrandingKeeps ==
  ASSUME FilesInv, NEW c \in FileCalls, StoreBranding(c)
  PROVE  FilesInv'
<1>1. fileCall[c] \in FileJob /\ JobFits(fileCall[c]) /\ fileCall[c].op = "brand"
  BY FileCallIs DEF StoreBranding, JobFits
<1>2. PICK j : j = [fileCall[c] EXCEPT !.pc = "audit"]
  OBVIOUS
<1>3. /\ j \in FileJob /\ j.op = "brand" /\ j.key = fileCall[c].key
      /\ j.pc = "audit" /\ j.at = fileCall[c].at /\ j.doc = fileCall[c].doc
  BY <1>1, <1>2 DEF FileJob, FileOps, FilePlaces
<1>4. JobFits(j)
  BY <1>1, <1>3 DEF JobFits
<1>5. j.key \in LogoKeys
  BY <1>1, <1>3 DEF LogoKeys
<1>6. FileMoves(c, j)
  BY <1>1, <1>2, <1>3, <1>4, <1>5 DEF FileMoves, StoreBranding, FileTo, FilesInv
<1>7. FileTypeKept /\ LogosKept
  BY <1>1, <1>3, <1>5
  DEF StoreBranding, FilesInv, FilesType, FileTypeKept, LogosKept, LogoKeys, FileJob, FileOps, FilePlaces
<1> QED
  BY <1>6, <1>7, MovesInv

LEMMA PanelAnswerKeeps ==
  ASSUME FilesInv, NEW c \in FileCalls, PanelAnswer(c)
  PROVE  FilesInv'
<1>1. /\ fileCall[c] \in FileJob /\ JobFits(fileCall[c]) /\ fileCall[c].pc = "answer"
      /\ fileCall[c].op \in {"logo", "unlogo", "brand"}
  BY FileCallIs DEF PanelAnswer, JobFits
<1>2. PICK key, p :
        /\ key \in LogoKeys \cup {0}
        /\ \/ panel' = Drafted(p, key)
           \/ panel' = [panel EXCEPT ![p] = [seen |-> key, shown |-> key,
                                            draft |-> FALSE, named |-> FALSE]]
  <2>1. fileCall[c].key \in LogoKeys /\ logo \in LogoKeys
    BY <1>1 DEF LogoKeys
  <2> QED
    BY <1>1, <2>1 DEF PanelAnswer
<1>3. key \in Nat
  BY <1>2 DEF FilesInv, FilesType, LogoKeys, PanelState, FileJob, FileOps, FilePlaces
<1>4. /\ panel' \in [Panels -> PanelState]
      /\ \A q \in Panels : panel'[q].seen \in {panel[q].seen, key}
                           /\ panel'[q].shown \in {panel[q].shown, key}
  <2>1. panel \in [Panels -> PanelState]
    BY DEF FilesInv, FilesType
  <2>2. CASE panel' = Drafted(p, key)
    BY <1>3, <2>1, <2>2 DEF Drafted, PanelState
  <2>3. CASE panel' = [panel EXCEPT ![p] = [seen |-> key, shown |-> key,
                                            draft |-> FALSE, named |-> FALSE]]
    BY <1>3, <2>1, <2>3 DEF PanelState
  <2> QED
    BY <1>2, <2>2, <2>3
<1>5. LogosKept /\ FileTypeKept
  BY <1>2, <1>4
  DEF PanelAnswer, FilesInv, FilesType, FileTypeKept, LogosKept, LogoKeys
<1> QED
  BY <1>1, <1>5, FileEndsMoves, MovesInv DEF PanelAnswer

(* The panel's own steps, and none at all.                                 *)
LEMMA PanelKeeps ==
  ASSUME FilesInv,
         \/ \E p \in Panels : LoadPanel(p) \/ EditName(p) \/ DiscardDraft(p)
         \/ UNCHANGED fileVars
  PROVE  FilesInv'
<1>1. /\ docs' = docs /\ disk' = disk /\ lastKey' = lastKey /\ logo' = logo
      /\ fileCall' = fileCall /\ announced' = announced /\ broken' = broken
      /\ fileCalls' = fileCalls
  BY DEF LoadPanel, EditName, DiscardDraft, fileVars
<1>2. panel' \in [Panels -> PanelState] /\ LogosKept
  <2>1. CASE UNCHANGED fileVars
    BY <2>1 DEF fileVars, LogosKept, LogoKeys, FilesInv, FilesType
  <2>2. ASSUME NEW p \in Panels, LoadPanel(p)
        PROVE  panel' \in [Panels -> PanelState] /\ LogosKept
    BY <2>2, ZenonT(60) DEF LoadPanel, LogosKept, LogoKeys, FilesInv, FilesType, PanelState
  <2>3. ASSUME NEW p \in Panels, EditName(p)
        PROVE  panel' \in [Panels -> PanelState] /\ LogosKept
    BY <2>3, ZenonT(60) DEF EditName, Drafted, LogosKept, LogoKeys, FilesInv, FilesType, PanelState
  <2>4. ASSUME NEW p \in Panels, DiscardDraft(p)
        PROVE  panel' \in [Panels -> PanelState] /\ LogosKept
    BY <2>4, ZenonT(60) DEF DiscardDraft, LogosKept, LogoKeys, FilesInv, FilesType, PanelState
  <2> QED
    BY <2>1, <2>2, <2>3, <2>4
<1>3. LogoKeys' \subseteq LogoKeys \cup {0}
  BY <1>1, <1>2 DEF LogosKept, LogoKeys
<1>4. FilesType'
  BY <1>1, <1>2 DEF FilesInv, FilesType
<1>5. KeysApart'
  BY <1>1, <1>3 DEF FilesInv, FilesType, KeysApart
<1> QED
  BY <1>1, <1>4, <1>5 DEF FilesInv, JobFits, DocSeenTo

(* The actions that write a file or a record.  The key is one that nothing *)
(* else has.                                                               *)
LEMMA SaveFileKeeps ==
  ASSUME FilesInv, NEW c \in FileCalls, SaveFile(c)
  PROVE  FilesInv'
<1>1. PICK k : k = lastKey + 1
  OBVIOUS
<1>2. /\ fileCall[c] \in FileJob /\ JobFits(fileCall[c]) /\ fileCall[c].pc = "save"
      /\ fileCall[c].op \in {"attachment", "slip", "logo"}
  BY FileCallIs DEF SaveFile, JobFits
<1>3. PICK j : j = [fileCall[c] EXCEPT !.key = k,
                      !.pc = IF fileCall[c].op = "logo" THEN "audit" ELSE "create"]
  OBVIOUS
<1>4. lastKey \in Nat /\ k \in Nat /\ lastKey < k
  BY <1>1 DEF FilesInv, FilesType
<1>5. /\ j \in FileJob /\ j.key = k /\ j.op = fileCall[c].op
      /\ j.pc = (IF fileCall[c].op = "logo" THEN "audit" ELSE "create")
      /\ j.at = fileCall[c].at /\ j.doc = fileCall[c].doc
  BY <1>2, <1>3, <1>4 DEF FileJob, FileOps, FilePlaces
<1>6. /\ fileCall' = [fileCall EXCEPT ![c] = j]
      /\ fileCall' \in [FileCalls -> FileJob]
      /\ \A o \in FileCalls : fileCall'[o] = IF o = c THEN j ELSE fileCall[o]
      /\ lastKey' = k /\ disk' = disk \cup {k} /\ docs' = docs
      /\ announced' = announced /\ logo' = logo /\ panel' = panel
      /\ fileCalls' = fileCalls /\ broken' = broken
  BY <1>1, <1>3, <1>5 DEF SaveFile, FilesInv
<1>7. \A o \in FileCalls : JobFits(fileCall[o])'
  <2>1. ASSUME NEW o \in FileCalls, o # c PROVE JobFits(fileCall[o])'
    <3>1. JobFits(fileCall[o]) /\ fileCall'[o] = fileCall[o] /\ fileCall[o].key \in Nat
      BY <1>6, <2>1, FileCallIs DEF FileJob
    <3> QED
      BY <1>4, <1>6, <3>1 DEF JobFits
  <2>2. fileCall'[c] = j
    BY <1>6
  <2>3. JobFits(fileCall[c])'
    BY <1>2, <1>4, <1>5, <1>6, <2>2 DEF JobFits
  <2> QED
    BY <2>1, <2>3
<1>8. /\ LogoKeys' \subseteq LogoKeys \cup {k}
      /\ j.op # "logo" => LogoKeys' \subseteq LogoKeys
  BY <1>2, <1>5, <1>6 DEF LogoKeys
<1>9. /\ \A x \in LogoKeys : x <= lastKey
      /\ \A d \in DOMAIN docs : docs[d].key \in 1 .. lastKey
      /\ \A o \in FileCalls : fileCall[o].key \in Nat /\ fileCall[o].key <= lastKey
      /\ \A x \in LogoKeys : x \in Nat
  <2>1. \A o \in FileCalls : fileCall[o].key \in Nat /\ fileCall[o].key <= lastKey
    BY FileCallIs DEF JobFits, FileJob
  <2>2. \A x \in LogoKeys : x \in Nat
    BY <2>1 DEF FilesInv, FilesType, LogoKeys, PanelState
  <2> QED
    BY <2>1, <2>2 DEF FilesInv, KeysApart
<1>10. KeysApart'
  <2>1. \A x \in LogoKeys' : x <= lastKey'
    BY <1>4, <1>6, <1>8, <1>9
  <2>2. \A d \in DOMAIN docs' :
          docs'[d].key \in 1 .. lastKey' /\ docs'[d].key \notin LogoKeys'
    BY <1>4, <1>6, <1>8, <1>9 DEF FilesInv, KeysApart
  <2>3. \A o \in FileCalls :
          fileCall'[o].op \in {"attachment", "slip"} /\ fileCall'[o].key # 0 =>
            fileCall'[o].key \notin LogoKeys'
    BY <1>4, <1>5, <1>6, <1>8, <1>9 DEF FilesInv, KeysApart
  <2>4. \A o \in FileCalls : fileCall'[o].pc = "create" =>
          /\ \A d \in DOMAIN docs' : docs'[d].key # fileCall'[o].key
          /\ \A q \in FileCalls : fileCall'[q].pc = "create"
               /\ fileCall'[q].key = fileCall'[o].key => q = o
    BY <1>4, <1>5, <1>6, <1>9 DEF FilesInv, KeysApart
  <2> QED
    BY <1>6, <2>1, <2>2, <2>3, <2>4 DEF FilesInv, KeysApart
<1>11. ASSUME NEW d \in DOMAIN docs PROVE DocSeenTo(d)'
  <2>1. DocSeenTo(d) /\ docs[d].key # k
    BY <1>4, <1>9 DEF FilesInv
  <2>2. \A o \in FileCalls : fileCall[o].pc \in {"audit", "publish", "unlink"} =>
          fileCall'[o] = fileCall[o]
    BY <1>2, <1>6
  <2> QED
    BY <1>6, <2>1, <2>2 DEF DocSeenTo
<1>12. FilesType'
  <2>1. k \in 0 .. MaxFiles
    BY <1>1, <1>4, StoredFilesAssumption DEF SaveFile
  <2>2. disk' \subseteq 1 .. k /\ broken' \subseteq 1 .. k
    BY <1>4, <1>6 DEF FilesInv, FilesType
  <2> QED
    BY <1>6, <2>1, <2>2 DEF FilesInv, FilesType
<1> QED
  BY <1>6, <1>7, <1>10, <1>11, <1>12 DEF FilesInv

LEMMA UnlinkKeeps ==
  ASSUME FilesInv, NEW c \in FileCalls, Unlink(c)
  PROVE  FilesInv'
<1>1. PICK j : j = [fileCall[c] EXCEPT !.pc = "audit"]
  OBVIOUS
<1>2. /\ fileCall[c] \in FileJob /\ JobFits(fileCall[c]) /\ fileCall[c].pc = "unlink"
      /\ fileCall[c].op \in {"delete", "unlogo"}
  BY FileCallIs DEF Unlink, JobFits
<1>3. /\ j \in FileJob /\ j.op = fileCall[c].op /\ j.key = fileCall[c].key
      /\ j.pc = "audit" /\ j.at = fileCall[c].at /\ j.doc = fileCall[c].doc
  BY <1>1, <1>2 DEF FileJob, FilePlaces
<1>4. PICK k : k = fileCall[c].key
  OBVIOUS
<1>5. /\ fileCall' \in [FileCalls -> FileJob]
      /\ \A o \in FileCalls : fileCall'[o] = IF o = c THEN j ELSE fileCall[o]
      /\ disk' = disk \ {k} /\ lastKey' = lastKey /\ docs' = docs
      /\ announced' = announced /\ logo' = logo /\ panel' = panel
      /\ fileCalls' = fileCalls /\ broken' = broken
  BY <1>1, <1>3, <1>4 DEF Unlink, FileTo, FilesInv
<1>6. \A d \in DOMAIN docs : docs[d].live => docs[d].key # k
  <2>1. CASE fileCall[c].op = "unlogo"
    <3>1. k \in LogoKeys
      BY <1>4, <2>1 DEF LogoKeys
    <3> QED
      BY <3>1 DEF FilesInv, KeysApart
  <2>2. CASE fileCall[c].op = "delete"
    BY <1>2, <1>4, <2>2 DEF JobFits, FilesInv, KeysApart
  <2> QED
    BY <1>2, <2>1, <2>2
<1>7. \A o \in FileCalls : fileCall[o].pc = "create" => fileCall[o].key # k
  <2>1. CASE fileCall[c].op = "unlogo"
    <3>1. k \in LogoKeys /\ k # 0
      BY <1>2, <1>4, <2>1 DEF LogoKeys, JobFits
    <3> QED
      BY <3>1 DEF FilesInv, KeysApart, JobFits
  <2>2. CASE fileCall[c].op = "delete"
    BY <1>2, <1>4, <2>2 DEF JobFits, FilesInv, KeysApart
  <2> QED
    BY <1>2, <2>1, <2>2
<1>8. \A o \in FileCalls : JobFits(fileCall[o])'
  <2>1. ASSUME NEW o \in FileCalls, o # c PROVE JobFits(fileCall[o])'
    <3>1. JobFits(fileCall[o]) /\ fileCall'[o] = fileCall[o]
      BY <1>5, <2>1, FileCallIs
    <3> QED
      BY <1>5, <1>7, <3>1 DEF JobFits
  <2>2. fileCall'[c] = j
    BY <1>5
  <2>3. JobFits(fileCall[c])'
    BY <1>2, <1>3, <1>5, <2>2 DEF JobFits
  <2> QED
    BY <2>1, <2>3
<1>9. LogoKeys' = LogoKeys
  BY <1>3, <1>5 DEF LogoKeys
<1>10. KeysApart'
  BY <1>3, <1>5, <1>9 DEF FilesInv, KeysApart
<1>11. ASSUME NEW d \in DOMAIN docs PROVE DocSeenTo(d)'
  <2>1. DocSeenTo(d)
    BY DEF FilesInv
  <2>2. \A o \in FileCalls : fileCall[o].op = "slip" => fileCall'[o] = fileCall[o]
    BY <1>2, <1>5
  <2>3. ASSUME NEW o \in FileCalls, fileCall[o].op = "delete", fileCall[o].doc = d,
               fileCall[o].pc = "unlink"
        PROVE  docs[d].key = k \/ fileCall'[o] = fileCall[o]
    BY <1>2, <1>4, <1>5, <2>3 DEF JobFits
  <2> QED
    BY <1>5, <1>6, <2>1, <2>2, <2>3 DEF DocSeenTo
<1>12. FilesType'
  BY <1>5 DEF FilesInv, FilesType
<1> QED
  BY <1>5, <1>8, <1>10, <1>11, <1>12 DEF FilesInv

LEMMA CreateDocKeeps ==
  ASSUME FilesInv, NEW c \in FileCalls, CreateDoc(c)
  PROVE  FilesInv'
<1>1. /\ fileCall[c] \in FileJob /\ JobFits(fileCall[c]) /\ fileCall[c].pc = "create"
      /\ fileCall[c].op \in {"attachment", "slip"} /\ fileCall[c].key \in disk
  BY FileCallIs DEF CreateDoc, JobFits
<1>2. PICK n, x : /\ n = Len(docs) + 1
                  /\ x = [kind |-> fileCall[c].op, key |-> fileCall[c].key,
                          live |-> TRUE]
  OBVIOUS
<1>3. /\ x \in Doc /\ x.kind = fileCall[c].op /\ x.key = fileCall[c].key /\ x.live
      /\ docs \in Seq(Doc) /\ docs' = Append(docs, x)
  BY <1>1, <1>2 DEF CreateDoc, Doc, FileJob, FilesInv, FilesType
<1>4. /\ docs' \in Seq(Doc) /\ Len(docs') = n /\ docs'[n] = x
      /\ \A d \in 1 .. Len(docs) : docs'[d] = docs[d]
  BY <1>2, <1>3, AppendProperties
<1>5. DOMAIN docs = 1 .. Len(docs) /\ DOMAIN docs' = 1 .. n /\ Len(docs) \in Nat
  BY <1>3, <1>4, LenProperties
<1>6. /\ DOMAIN docs' = DOMAIN docs \cup {n} /\ n \notin DOMAIN docs /\ n \in Nat
      /\ n # 0
  BY <1>2, <1>5
<1>7. PICK j : j = [fileCall[c] EXCEPT !.pc = "audit", !.doc = n]
  OBVIOUS
<1>8. /\ j \in FileJob /\ j.op = fileCall[c].op /\ j.key = fileCall[c].key
      /\ j.pc = "audit" /\ j.at = fileCall[c].at /\ j.doc = n
  BY <1>1, <1>6, <1>7 DEF FileJob, FilePlaces
<1>9. /\ fileCall' = [fileCall EXCEPT ![c] = j]
      /\ fileCall' \in [FileCalls -> FileJob]
      /\ \A o \in FileCalls : fileCall'[o] = IF o = c THEN j ELSE fileCall[o]
      /\ lastKey' = lastKey /\ disk' = disk /\ announced' = announced
      /\ logo' = logo /\ panel' = panel /\ fileCalls' = fileCalls
      /\ broken' = broken
  BY <1>2, <1>7, <1>8 DEF CreateDoc, FilesInv
<1>10. \A d \in DOMAIN docs : docs'[d] = docs[d]
  BY <1>4, <1>5
<1>11. \A o \in FileCalls : JobFits(fileCall[o])'
  <2>1. ASSUME NEW o \in FileCalls, o # c PROVE JobFits(fileCall[o])'
    <3>1. JobFits(fileCall[o]) /\ fileCall'[o] = fileCall[o]
      BY <1>9, <2>1, FileCallIs
    <3> QED
      BY <1>6, <1>9, <1>10, <3>1 DEF JobFits
  <2>2. fileCall'[c] = j
    BY <1>9
  <2>3. JobFits(fileCall[c])'
    BY <1>1, <1>3, <1>4, <1>6, <1>8, <1>9, <2>2 DEF JobFits
  <2> QED
    BY <2>1, <2>3
<1>12. LogoKeys' = LogoKeys
  BY <1>8, <1>9 DEF LogoKeys
<1>13. /\ x.key \in 1 .. lastKey /\ x.key \notin LogoKeys
       /\ \A d \in DOMAIN docs : docs[d].key # x.key
  <2>1. x.key \in 1 .. lastKey
    BY <1>1, <1>3 DEF FilesInv, FilesType
  <2>2. x.key # 0
    BY <2>1 DEF FilesInv, FilesType
  <2> QED
    BY <1>1, <1>3, <2>1, <2>2 DEF FilesInv, KeysApart
<1>14. KeysApart'
  <2>1. \A d \in DOMAIN docs' :
          docs'[d].key \in 1 .. lastKey' /\ docs'[d].key \notin LogoKeys'
    BY <1>4, <1>6, <1>9, <1>10, <1>12, <1>13 DEF FilesInv, KeysApart
  <2>2. \A d, e \in DOMAIN docs' : docs'[d].key = docs'[e].key => d = e
    BY <1>4, <1>6, <1>10, <1>13 DEF FilesInv, KeysApart
  <2>3. \A o \in FileCalls :
          fileCall'[o].op \in {"attachment", "slip"} /\ fileCall'[o].key # 0 =>
            fileCall'[o].key \notin LogoKeys'
    BY <1>8, <1>9, <1>12 DEF FilesInv, KeysApart
  <2>4. ASSUME NEW o \in FileCalls, fileCall'[o].pc = "create"
        PROVE  /\ \A d \in DOMAIN docs' : docs'[d].key # fileCall'[o].key
               /\ \A q \in FileCalls : fileCall'[q].pc = "create"
                    /\ fileCall'[q].key = fileCall'[o].key => q = o
    <3>1. o # c /\ fileCall'[o] = fileCall[o]
      BY <1>8, <1>9, <2>4
    <3>2. fileCall[o].key # x.key
      BY <1>1, <1>3, <2>4, <3>1 DEF FilesInv, KeysApart
    <3> QED
      BY <1>4, <1>6, <1>8, <1>9, <1>10, <2>4, <3>1, <3>2 DEF FilesInv, KeysApart
  <2> QED
    BY <1>9, <1>12, <2>1, <2>2, <2>3, <2>4 DEF FilesInv, KeysApart
<1>15. ASSUME NEW d \in DOMAIN docs PROVE DocSeenTo(d)'
  <2>1. DocSeenTo(d)
    BY DEF FilesInv
  <2>2. \A o \in FileCalls : fileCall[o].pc \in {"audit", "publish", "unlink"} =>
          fileCall'[o] = fileCall[o]
    BY <1>1, <1>9
  <2> QED
    BY <1>9, <1>10, <2>1, <2>2 DEF DocSeenTo
<1>16. DocSeenTo(n)'
  <2>1. docs'[n].live /\ docs'[n].key \in disk'
    BY <1>1, <1>3, <1>4, <1>9
  <2>2. docs'[n].kind = fileCall'[c].op /\ fileCall'[c].doc = n
        /\ fileCall'[c].pc = "audit"
    BY <1>3, <1>4, <1>8, <1>9
  <2> QED
    BY <2>1, <2>2 DEF DocSeenTo
<1>17. FilesType'
  BY <1>4, <1>6, <1>9, <1>10 DEF FilesInv, FilesType
<1> QED
  BY <1>6, <1>9, <1>11, <1>14, <1>15, <1>16, <1>17 DEF FilesInv

LEMMA SoftDeleteKeeps ==
  ASSUME FilesInv, NEW c \in FileCalls, SoftDelete(c)
  PROVE  FilesInv'
<1>1. /\ fileCall[c] \in FileJob /\ JobFits(fileCall[c]) /\ fileCall[c].pc = "strike"
      /\ fileCall[c].op = "delete"
  BY FileCallIs DEF SoftDelete, JobFits
<1>2. PICK n : n = fileCall[c].doc
  OBVIOUS
<1>3. n \in DOMAIN docs /\ docs[n].kind = "attachment"
  BY <1>1, <1>2 DEF JobFits
<1>4. CASE ~docs[n].live
  <2>1. FileEnds(c) /\ UNCHANGED <<disk, lastKey, docs, announced, logo, panel,
                                    fileCalls, broken>>
    BY <1>2, <1>4 DEF SoftDelete
  <2>2. FileTypeKept /\ LogosKept
    BY <2>1, FileTypeSame DEF FilesInv, FilesType
  <2> QED
    BY <1>1, <2>1, <2>2, FileEndsMoves, MovesInv
<1>5. CASE docs[n].live
  <2>1. PICK j : j = [fileCall[c] EXCEPT !.pc = "unlink", !.key = docs[n].key]
    OBVIOUS
  <2>2. docs[n] \in Doc /\ docs[n].key \in 1 .. lastKey /\ docs[n].key # 0
    BY <1>3, DocElement DEF FilesInv, FilesType, KeysApart
  <2>3. /\ j \in FileJob /\ j.op = "delete" /\ j.key = docs[n].key
        /\ j.pc = "unlink" /\ j.doc = n
    BY <1>1, <1>2, <2>1, <2>2 DEF FileJob, FilePlaces, Doc
  <2>4. docs' = [docs EXCEPT ![n].live = FALSE]
        /\ fileCall' = [fileCall EXCEPT ![c].pc = "unlink", ![c].key = docs[n].key]
    BY <1>2, <1>5 DEF SoftDelete
  <2>5. /\ fileCall' \in [FileCalls -> FileJob]
        /\ \A o \in FileCalls : fileCall'[o] = IF o = c THEN j ELSE fileCall[o]
    BY <2>1, <2>3, <2>4 DEF FilesInv
  <2>6. /\ lastKey' = lastKey /\ disk' = disk /\ announced' = announced
        /\ logo' = logo /\ panel' = panel /\ fileCalls' = fileCalls
        /\ broken' = broken
    BY DEF SoftDelete
  <2>7. /\ DOMAIN docs' = DOMAIN docs
        /\ \A d \in DOMAIN docs :
             /\ docs'[d] \in Doc /\ docs'[d].key = docs[d].key
             /\ docs'[d].kind = docs[d].kind
             /\ docs'[d].live = IF d = n THEN FALSE ELSE docs[d].live
    BY <2>4, DocElement DEF Doc
  <2>8. docs' \in Seq(Doc)
    <3>1. docs \in Seq(Doc) /\ DOMAIN docs = 1 .. Len(docs) /\ Len(docs) \in Nat
      BY LenProperties DEF FilesInv, FilesType
    <3>2. docs' \in [1 .. Len(docs) -> Doc]
      BY <2>4, <2>7, <3>1
    <3> QED
      BY <3>1, <3>2
  <2>9. \A o \in FileCalls : JobFits(fileCall[o])'
    <3>1. ASSUME NEW o \in FileCalls, o # c PROVE JobFits(fileCall[o])'
      <4>1. JobFits(fileCall[o]) /\ fileCall'[o] = fileCall[o]
        BY <2>5, <3>1, FileCallIs
      <4> QED
        BY <2>6, <2>7, <4>1 DEF JobFits
    <3>2. fileCall'[c] = j
      BY <2>5
    <3>3. docs'[n].key = j.key /\ ~docs'[n].live /\ docs'[n].kind = "attachment"
          /\ n \in DOMAIN docs' /\ j.key <= lastKey
      <4>1. docs'[n].live = FALSE
        BY <1>3, <2>7
      <4>2. docs'[n].key = j.key /\ docs'[n].kind = "attachment" /\ n \in DOMAIN docs'
        BY <1>3, <2>3, <2>7
      <4>3. j.key <= lastKey
        BY <2>2, <2>3
      <4> QED
        BY <4>1, <4>2, <4>3
    <3>4. JobFits(fileCall[c])'
      BY <2>2, <2>3, <2>6, <3>2, <3>3 DEF JobFits
    <3> QED
      BY <3>1, <3>4
  <2>10. LogoKeys' = LogoKeys
    BY <1>1, <2>3, <2>5, <2>6 DEF LogoKeys
  <2>11. KeysApart'
    <3>1. \A o \in FileCalls : o # c => fileCall'[o] = fileCall[o]
      BY <2>5
    <3>2. fileCall'[c].op = "delete" /\ fileCall'[c].pc = "unlink"
      BY <2>3, <2>5
    <3>3. \A d \in DOMAIN docs : docs'[d].key = docs[d].key
      BY <2>7
    <3>4. DOMAIN docs' = DOMAIN docs
      BY <2>7
    <3> QED
      BY <2>6, <2>10, <3>1, <3>2, <3>3, <3>4 DEF FilesInv, KeysApart
  <2>12. ASSUME NEW d \in DOMAIN docs PROVE DocSeenTo(d)'
    <3>1. DocSeenTo(d)
      BY DEF FilesInv
    <3>2. \A o \in FileCalls : fileCall[o].pc \in {"audit", "publish", "unlink"} =>
            fileCall'[o] = fileCall[o]
      BY <1>1, <2>5
    <3>3. CASE d = n
      BY <1>3, <2>3, <2>5, <2>7, <3>3 DEF DocSeenTo
    <3>4. CASE d # n
      BY <2>6, <2>7, <3>1, <3>2, <3>4 DEF DocSeenTo
    <3> QED
      BY <3>3, <3>4
  <2>13. FilesType'
    BY <2>6, <2>7, <2>8 DEF FilesInv, FilesType
  <2> QED
    BY <2>5, <2>7, <2>9, <2>11, <2>12, <2>13 DEF FilesInv
<1> QED
  BY <1>4, <1>5

LEMMA FilesNext ==
  ASSUME FilesInv, [StoredFilesNext]_fileVars
  PROVE  FilesInv'
<1>1. ASSUME NEW c \in FileCalls,
             \/ \E kind \in {"attachment", "slip"} : UploadCall(c, kind)
             \/ \E d \in DOMAIN docs : DeleteCall(c, d)
             \/ \E p \in Panels : UploadLogo(c, p) \/ RemoveLogo(c, p) \/ SaveBranding(c, p)
      PROVE  FilesInv'
  BY <1>1, UploadCallKeeps, DeleteCallKeeps, LogoCallKeeps, SaveBrandingKeeps
<1>2. ASSUME NEW c \in FileCalls,
             \/ SaveFile(c) \/ CreateDoc(c) \/ FileAudit(c) \/ PublishSlip(c)
             \/ SoftDelete(c) \/ Unlink(c)
      PROVE  FilesInv'
  BY <1>2, SaveFileKeeps, CreateDocKeeps, FileAuditKeeps, PublishSlipKeeps,
     SoftDeleteKeeps, UnlinkKeeps
<1>3. ASSUME NEW c \in FileCalls,
             ReadLogo(c) \/ StoreBranding(c) \/ PanelAnswer(c) \/ FileCallFails(c)
      PROVE  FilesInv'
  BY <1>3, ReadLogoKeeps, StoreBrandingKeeps, PanelAnswerKeeps, FileCallFailsKeeps
<1> QED
  BY <1>1, <1>2, <1>3, PanelKeeps DEF StoredFilesNext

LEMMA FilesInit == ASSUME StoredFilesInit PROVE FilesInv
<1>1. /\ disk = {} /\ lastKey = 0 /\ docs = <<>> /\ announced = {} /\ logo = 0
      /\ fileCall = [c \in FileCalls |-> NoFileCall]
      /\ fileCalls = 0 /\ broken = {}
  BY DEF StoredFilesInit
<1>2. panel \in [Panels -> PanelState]
      /\ \A p \in Panels : panel[p].seen = 0 /\ panel[p].shown = 0
  BY DEF StoredFilesInit, PanelState
<1>3. docs \in Seq(Doc) /\ DOMAIN docs = {}
  BY <1>1, EmptySeq
<1>4. \A c \in FileCalls : fileCall[c] = NoFileCall
  BY <1>1
<1>5. LogoKeys = {0}
  BY <1>1, <1>2, <1>4, NoFileCallType DEF LogoKeys
<1>6. FilesType
  BY <1>1, <1>2, <1>3, StoredFilesAssumption DEF FilesType
<1>7. \A c \in FileCalls : JobFits(fileCall[c])
  BY <1>1, <1>4, NoFileCallType DEF JobFits
<1>8. KeysApart
  BY <1>1, <1>3, <1>4, <1>5, NoFileCallType DEF KeysApart
<1> QED
  BY <1>1, <1>3, <1>6, <1>7, <1>8, NoFileCallType DEF FilesInv

(* The inductive invariant of the files: a key belongs to one record or to *)
(* the branding, and every record has what it needs or a call sees to it.  *)
THEOREM FilesInvariant == StoredFilesSpec => []FilesInv
<1>1. StoredFilesInit => FilesInv
  BY FilesInit
<1>2. FilesInv /\ [StoredFilesNext]_fileVars => FilesInv'
  BY FilesNext
<1> QED
  BY <1>1, <1>2, PTL DEF StoredFilesSpec

LEMMA FilesTyped ==
  ASSUME FilesInv
  PROVE  StoredFilesTypeOK
<1>1. \A d \in DOMAIN docs :
        docs[d] \in [kind : {"attachment", "slip"}, key : 1 .. lastKey, live : BOOLEAN]
  BY DocElement DEF Doc, FilesInv, KeysApart
<1>2. docs \in Seq([kind : {"attachment", "slip"}, key : 1 .. lastKey, live : BOOLEAN])
  <2> DEFINE D == [kind : {"attachment", "slip"}, key : 1 .. lastKey, live : BOOLEAN]
  <2>1. docs \in Seq(Doc) /\ DOMAIN docs = 1 .. Len(docs) /\ Len(docs) \in Nat
    BY LenProperties DEF FilesInv, FilesType
  <2>2. docs \in [1 .. Len(docs) -> D]
    BY <1>1, <2>1, LenProperties
  <2> HIDE DEF D
  <2>3. docs \in Seq(D)
    BY <2>1, <2>2
  <2> QED
    BY <2>3 DEF D
<1>3. logo \in 0 .. lastKey
  BY DEF FilesInv, FilesType, KeysApart, LogoKeys
<1>4. panel \in [Panels -> [seen : 0 .. lastKey, shown : 0 .. lastKey,
                            draft : BOOLEAN, named : BOOLEAN]]
  BY DEF FilesInv, FilesType, KeysApart, LogoKeys, PanelState
<1>5. ASSUME NEW c \in FileCalls
      PROVE  LET j == fileCall[c] IN
             /\ j.key \in 0 .. lastKey /\ j.doc \in 0 .. Len(docs) /\ j.at \subseteq Panels
             /\ j.pc \in {"strike", "publish"} => j.doc # 0
             /\ j.pc \in {"create", "unlink"} => j.key # 0
             /\ j.pc = "answer" => Cardinality(j.at) = 1
  <2>1. fileCall[c] \in FileJob /\ JobFits(fileCall[c])
    BY FileCallIs
  <2>2. fileCall[c].pc = "answer" => Cardinality(fileCall[c].at) = 1
    <3> HAVE fileCall[c].pc = "answer"
    <3>1. PICK p \in Panels : fileCall[c].at = {p}
      BY <2>1 DEF JobFits
    <3> QED
      BY <3>1, FS_Singleton
  <2> QED
    BY <2>1, <2>2, LenProperties
    DEF JobFits, FileJob, FilesInv, FilesType
<1> QED
  BY <1>2, <1>3, <1>4, <1>5 DEF StoredFilesTypeOK, FilesInv, FilesType

(* The state keeps its type, of every call what it has in hand included    *)
(* (attachment.service.js, salary-slip.service.js, branding.service.js).   *)
THEOREM FilesTypeCorrect == StoredFilesSpec => []StoredFilesTypeOK
<1>1. FilesInv => StoredFilesTypeOK
  BY FilesTyped
<1> QED
  BY <1>1, FilesInvariant, PTL

(* A record that can be found has its file (attachment.service.js,         *)
(* salary-slip.service.js).                                                *)
THEOREM RecordsHaveFiles == StoredFilesSpec => []FileOfRecord
<1>1. FilesInv => FileOfRecord
  BY DEF FilesInv, DocSeenTo, FileOfRecord
<1> QED
  BY <1>1, FilesInvariant, PTL

(* No call that ran to its end leaves a half behind.                       *)
THEOREM NothingLeftBehind == StoredFilesSpec => []NothingLeft
<1>1. FilesInv => NothingLeft
  BY DocElement DEF FilesInv, DocSeenTo, NothingLeft, Doc
<1> QED
  BY <1>1, FilesInvariant, PTL

----------------------------------------------------------------------------
(* Geocoder.  Calls run one at a time, in the order of the queue.          *)
GeoPlaces == {"idle", "queued", "loop", "wait", "asked", "store", "done"}
GeoCall ==
  [pc : GeoPlaces, wanted : SUBSET Points, deadline : Nat, missing : SUBSET Points,
   at : SUBSET Points, due : Nat, found : SUBSET Points, none : SUBSET Points,
   blind : BOOLEAN]
Runs(call) == call.pc \in {"loop", "wait", "asked", "store"}

GeoType ==
  /\ clock \in 0 .. MaxClock /\ lookups \in BOOLEAN
  /\ geo \in [GeoCalls -> GeoCall] /\ queue \in Seq(GeoCalls)
  /\ cached \subseteq Points /\ resolved \subseteq Points
  /\ geoCalls \in 0 .. MaxGeoCalls

(* The provider was last asked at the time the rate limit goes by, and was *)
(* never asked twice within the interval.                                  *)
Spaced ==
  /\ askedAt \in Seq(0 .. MaxClock)
  /\ lastAt = IF askedAt = <<>> THEN {} ELSE {askedAt[Len(askedAt)]}
  /\ \A i \in DOMAIN askedAt : i > 1 => askedAt[i] >= askedAt[i - 1] + MinInterval

(* What the calls have in hand.                                            *)
LookupFits(call) ==
  /\ call.at \subseteq call.missing /\ call.missing \subseteq call.wanted
  /\ call.found \subseteq resolved
  /\ call.pc \in {"idle", "queued"} => call.missing = {}
  /\ call.pc \in {"loop", "wait", "asked", "store", "done"} =>
       call.found \cup call.none \cup call.missing = call.wanted
  /\ call.pc = "done" => call.missing = {}
  /\ call.pc = "loop" => call.at = {}
  /\ call.pc = "store" => call.at \subseteq call.found
  /\ Runs(call) /\ ~call.blind => call.missing \cap cached = {}
  /\ call.pc = "wait" => \A t \in lastAt : call.due >= t + MinInterval

GeoInv ==
  /\ GeoType /\ Spaced /\ cached \subseteq resolved
  /\ \A g \in GeoCalls : LookupFits(geo[g])
  /\ \A g \in GeoCalls : Runs(geo[g]) => Running(g)

(* Call g moves on; the others are as they were, and while it runs none of *)
(* them does.                                                              *)
LEMMA GeoMovesKeep ==
  ASSUME GeoInv, NEW g \in GeoCalls, NEW call \in GeoCall, Resume(g, call),
         GeoType', Spaced', cached' \subseteq resolved', resolved \subseteq resolved',
         LookupFits(geo[g])', Runs(call) => Running(g)',
         \/ Running(g)
         \/ /\ cached' = cached /\ lastAt' = lastAt
            /\ \A o \in GeoCalls : Running(o) => Running(o)'
  PROVE  GeoInv'
<1>1. \A o \in GeoCalls : geo'[o] = IF o = g THEN call ELSE geo[o]
  BY DEF Resume, GeoInv, GeoType
<1>2. ASSUME NEW o \in GeoCalls, o # g
      PROVE  LookupFits(geo[o])' /\ (Runs(geo[o])' => Running(o)')
  <2>1. /\ geo'[o] = geo[o] /\ LookupFits(geo[o])
        /\ Runs(geo[o]) => Running(o)
    BY <1>1, <1>2 DEF GeoInv
  <2>2. CASE Running(g)
    <3>1. ~Runs(geo[o])
      BY <1>2, <2>1, <2>2 DEF Running
    <3> QED
      BY <2>1, <3>1 DEF LookupFits, Runs
  <2>3. CASE ~Running(g)
    BY <2>1, <2>3 DEF LookupFits, Runs
  <2> QED
    BY <2>2, <2>3
<1>3. Runs(geo[g])' => Running(g)'
  BY <1>1 DEF Runs
<1> QED
  BY <1>1, <1>2, <1>3 DEF GeoInv

LEMMA GeoCallIs ==
  ASSUME GeoInv, NEW g \in GeoCalls
  PROVE  geo[g] \in GeoCall /\ LookupFits(geo[g])
BY DEF GeoInv, GeoType

(* A step that asks the provider for nothing and takes nobody's turn.      *)
LEMMA GeoQuietKeep ==
  ASSUME GeoInv, NEW g \in GeoCalls, NEW call \in GeoCall, Resume(g, call),
         Running(g), LookupFits(call), UNCHANGED <<clock, lookups, queue, lastAt,
         cached, geoCalls, askedAt, resolved>>
  PROVE  GeoInv'
<1>1. geo'[g] = call
  BY DEF Resume, GeoInv, GeoType
<1>2. LookupFits(geo[g])'
  BY <1>1 DEF LookupFits, Runs
<1>3. GeoType' /\ Spaced' /\ Running(g)'
  BY DEF GeoInv, GeoType, Spaced, Resume, Running
<1>4. cached' \subseteq resolved'
  BY DEF GeoInv
<1> QED
  BY <1>2, <1>3, <1>4, GeoMovesKeep

LEMMA GiveUpKeeps ==
  ASSUME GeoInv, NEW g \in GeoCalls, Running(g), Runs(geo[g]),
         NEW p \in geo[g].missing, GiveUp(g, p),
         UNCHANGED <<clock, lookups, queue, lastAt, cached, geoCalls, askedAt, resolved>>
  PROVE  GeoInv'
<1>1. geo[g] \in GeoCall /\ LookupFits(geo[g])
  BY GeoCallIs
<1>2. PICK call : call = [geo[g] EXCEPT !.pc = "loop", !.missing = @ \ {p}, !.at = {},
                                        !.none = @ \cup {p}]
  OBVIOUS
<1>3. /\ call \in GeoCall /\ call.pc = "loop" /\ call.missing = geo[g].missing \ {p}
      /\ call.at = {} /\ call.none = geo[g].none \cup {p}
      /\ call.found = geo[g].found /\ call.wanted = geo[g].wanted
      /\ call.blind = geo[g].blind
  BY <1>1, <1>2 DEF GeoCall, GeoPlaces
<1>4. LookupFits(call)
  BY <1>1, <1>3 DEF LookupFits, Runs
<1> QED
  BY <1>2, <1>3, <1>4, GeoQuietKeep DEF GiveUp

(* The provider is asked, a full interval after the last time.             *)
LEMMA RequestKeeps ==
  ASSUME GeoInv, NEW g \in GeoCalls, Running(g), Runs(geo[g]),
         NEW p \in geo[g].missing, Request(g, p), clock < geo[g].deadline,
         \A t \in lastAt : clock >= t + MinInterval,
         UNCHANGED <<clock, lookups, queue, cached, geoCalls, resolved>>
  PROVE  GeoInv'
<1>1. geo[g] \in GeoCall /\ LookupFits(geo[g]) /\ clock \in 0 .. MaxClock
      /\ MaxClock \in Nat
  BY GeoCallIs, GeocoderAssumption DEF GeoInv, GeoType
<1>2. PICK due : due = clock + EarlierOf(Timeout, geo[g].deadline - clock)
  OBVIOUS
<1>3. due \in Nat
  <2>1. clock \in Nat /\ geo[g].deadline \in Nat /\ Timeout \in Nat
    BY <1>1, GeocoderAssumption DEF GeoCall
  <2> QED
    BY <1>2, <2>1 DEF EarlierOf
<1>4. PICK call : call = [geo[g] EXCEPT !.pc = "asked", !.at = {p}, !.due = due]
  OBVIOUS
<1>5. /\ call \in GeoCall /\ call.pc = "asked" /\ call.missing = geo[g].missing
      /\ call.at = {p} /\ call.none = geo[g].none
      /\ call.found = geo[g].found /\ call.wanted = geo[g].wanted
      /\ call.blind = geo[g].blind
  BY <1>1, <1>3, <1>4 DEF GeoCall, GeoPlaces
<1>6. Resume(g, call) /\ lastAt' = {clock} /\ askedAt' = Append(askedAt, clock)
  BY <1>2, <1>4 DEF Request
<1>7. geo'[g] = call
  BY <1>6 DEF Resume, GeoInv, GeoType
<1>8. LookupFits(geo[g])'
  BY <1>1, <1>5, <1>7 DEF LookupFits, Runs
<1>9. GeoType' /\ Running(g)' /\ cached' \subseteq resolved'
  BY <1>5, <1>6 DEF GeoInv, GeoType, Resume, Running
<1>10. Spaced'
  <2>1. askedAt \in Seq(0 .. MaxClock)
    BY DEF GeoInv, Spaced
  <2>2. /\ askedAt' \in Seq(0 .. MaxClock) /\ Len(askedAt') = Len(askedAt) + 1
        /\ \A i \in 1 .. Len(askedAt) : askedAt'[i] = askedAt[i]
        /\ askedAt'[Len(askedAt) + 1] = clock
    BY <1>1, <1>6, <2>1, AppendProperties
  <2>3. /\ DOMAIN askedAt' = 1 .. (Len(askedAt) + 1)
        /\ DOMAIN askedAt = 1 .. Len(askedAt) /\ Len(askedAt) \in Nat
    BY <2>1, <2>2, LenProperties
  <2>4. lastAt' = IF askedAt' = <<>> THEN {} ELSE {askedAt'[Len(askedAt')]}
    <3>1. askedAt' # <<>>
      BY <2>2, <2>3
    <3> QED
      BY <1>6, <2>2, <3>1
  <2>5. ASSUME NEW i \in DOMAIN askedAt', i > 1
        PROVE  askedAt'[i] >= askedAt'[i - 1] + MinInterval
    <3>1. CASE i \in 1 .. Len(askedAt)
      BY <2>2, <2>3, <2>5, <3>1 DEF GeoInv, Spaced
    <3>2. CASE i = Len(askedAt) + 1
      <4>1. askedAt # <<>> /\ i - 1 = Len(askedAt) /\ i - 1 \in 1 .. Len(askedAt)
        BY <2>1, <2>3, <2>5, <3>2, EmptySeq
      <4>2. askedAt[Len(askedAt)] \in lastAt
        BY <4>1 DEF GeoInv, Spaced
      <4> QED
        BY <2>2, <3>2, <4>1, <4>2
    <3> QED
      BY <2>3, <3>1, <3>2
  <2> QED
    BY <2>2, <2>4, <2>5 DEF Spaced
<1> QED
  BY <1>5, <1>6, <1>8, <1>9, <1>10, GeoMovesKeep

LEMMA LastAtTimes ==
  ASSUME GeoInv
  PROVE  lastAt \subseteq Nat /\ \E t \in Nat : lastAt \subseteq {t}
<1>1. CASE askedAt = <<>>
  BY <1>1 DEF GeoInv, Spaced
<1>2. CASE askedAt # <<>>
  <2>1. askedAt \in Seq(0 .. MaxClock) /\ lastAt = {askedAt[Len(askedAt)]}
    BY <1>2 DEF GeoInv, Spaced
  <2>2. askedAt[Len(askedAt)] \in 0 .. MaxClock
    <3>1. Len(askedAt) \in 1 .. Len(askedAt)
      BY <1>2, <2>1, EmptySeq, LenProperties
    <3> QED
      BY <2>1, <3>1, ElementOfSeq
  <2> QED
    BY <2>1, <2>2
<1> QED
  BY <1>1, <1>2

(* NextSlot is a full interval after the last request, and not past.       *)
LEMMA NextSlotIs ==
  ASSUME GeoInv
  PROVE  /\ NextSlot \in Nat /\ NextSlot >= clock
         /\ \A t \in lastAt : NextSlot >= t + MinInterval
         /\ NextSlot > clock => lastAt # {}
<1>1. clock \in Nat /\ MinInterval \in Nat
  BY GeocoderAssumption DEF GeoInv, GeoType
<1>2. CASE lastAt = {}
  BY <1>1, <1>2 DEF NextSlot
<1>3. CASE lastAt # {}
  <2>4. PICK t \in Nat : lastAt = {t}
    BY <1>3, LastAtTimes
  <2>5. NextSlot = IF t + MinInterval > clock THEN t + MinInterval ELSE clock
    BY <1>3, <2>4 DEF NextSlot
  <2> QED
    BY <1>1, <1>3, <2>4, <2>5
<1> QED
  BY <1>2, <1>3

LEMMA TakePointKeeps ==
  ASSUME GeoInv, NEW g \in GeoCalls, TakePoint(g)
  PROVE  GeoInv'
<1>1. geo[g] \in GeoCall /\ LookupFits(geo[g]) /\ Runs(geo[g]) /\ Running(g)
  BY GeoCallIs DEF TakePoint, Runs
<1>2. /\ NextSlot \in Nat /\ NextSlot >= clock
      /\ \A t \in lastAt : NextSlot >= t + MinInterval
  BY NextSlotIs
<1>3. PICK p \in geo[g].missing :
       \/ /\ NextSlot >= geo[g].deadline
          /\ GiveUp(g, p) /\ UNCHANGED <<lastAt, askedAt>>
       \/ /\ NextSlot < geo[g].deadline /\ NextSlot = clock
          /\ Request(g, p)
       \/ /\ NextSlot < geo[g].deadline /\ NextSlot > clock
          /\ Resume(g, [geo[g] EXCEPT !.pc = "wait", !.at = {p}, !.due = NextSlot])
          /\ UNCHANGED <<lastAt, askedAt>>
  BY DEF TakePoint
<1>4. UNCHANGED <<clock, lookups, queue, cached, geoCalls, resolved>>
  BY DEF TakePoint
<1>5. CASE GiveUp(g, p) /\ UNCHANGED <<lastAt, askedAt>>
  BY <1>1, <1>4, <1>5, GiveUpKeeps
<1>6. CASE NextSlot < geo[g].deadline /\ NextSlot = clock /\ Request(g, p)
  BY <1>1, <1>2, <1>4, <1>6, RequestKeeps
<1>7. CASE /\ Resume(g, [geo[g] EXCEPT !.pc = "wait", !.at = {p}, !.due = NextSlot])
           /\ UNCHANGED <<lastAt, askedAt>>
  <2>1. PICK slot \in Nat : slot = NextSlot
    BY <1>2
  <2>2. PICK call : call = [geo[g] EXCEPT !.pc = "wait", !.at = {p}, !.due = slot]
    OBVIOUS
  <2>3. /\ call \in GeoCall /\ call.pc = "wait" /\ call.missing = geo[g].missing
        /\ call.at = {p} /\ call.none = geo[g].none /\ call.due = slot
        /\ call.found = geo[g].found /\ call.wanted = geo[g].wanted
        /\ call.blind = geo[g].blind
    BY <1>1, <2>2 DEF GeoCall, GeoPlaces
  <2>4. LookupFits(call)
    BY <1>1, <1>2, <2>1, <2>3 DEF LookupFits, Runs
  <2>5. Resume(g, call)
    BY <1>7, <2>1, <2>2
  <2> QED
    BY <1>1, <1>4, <1>7, <2>3, <2>4, <2>5, GeoQuietKeep
<1> QED
  BY <1>3, <1>5, <1>6, <1>7

LEMMA EndWaitKeeps ==
  ASSUME GeoInv, NEW g \in GeoCalls, EndWait(g)
  PROVE  GeoInv'
<1>1. geo[g] \in GeoCall /\ LookupFits(geo[g]) /\ Runs(geo[g]) /\ Running(g)
  BY GeoCallIs DEF EndWait, Runs
<1>2. geo[g].at \subseteq geo[g].missing /\ \A t \in lastAt : geo[g].due >= t + MinInterval
  BY <1>1 DEF EndWait, LookupFits
<1>3. PICK p \in geo[g].at :
        IF clock >= geo[g].deadline THEN GiveUp(g, p) /\ UNCHANGED <<lastAt, askedAt>>
        ELSE Request(g, p)
  BY DEF EndWait
<1>4. UNCHANGED <<clock, lookups, queue, cached, geoCalls, resolved>> /\ clock >= geo[g].due
  BY DEF EndWait
<1>5. CASE clock >= geo[g].deadline
  BY <1>1, <1>2, <1>3, <1>4, <1>5, GiveUpKeeps
<1>6. CASE ~(clock >= geo[g].deadline)
  <2>1. clock \in Nat /\ geo[g].deadline \in Nat /\ geo[g].due \in Nat /\ MinInterval \in Nat
    BY <1>1, GeocoderAssumption DEF GeoInv, GeoType, GeoCall
  <2>2. \A t \in lastAt : t \in Nat
    BY LastAtTimes
  <2>3. \A t \in lastAt : clock >= t + MinInterval
    BY <1>2, <1>4, <2>1, <2>2
  <2>4. clock < geo[g].deadline
    BY <1>6, <2>1
  <2> QED
    BY <1>1, <1>2, <1>3, <1>4, <1>6, <2>3, <2>4, RequestKeeps
<1> QED
  BY <1>5, <1>6

LEMMA ReadCacheKeeps ==
  ASSUME GeoInv, NEW g \in GeoCalls, ReadCache(g)
  PROVE  GeoInv'
<1>1. geo[g] \in GeoCall /\ LookupFits(geo[g]) /\ Running(g) /\ geo[g].pc = "queued"
  BY GeoCallIs DEF ReadCache
<1>2. PICK entries \in {cached} \cup (IF CacheMayFail THEN {{}} ELSE {}) :
       LET missing == geo[g].wanted \ entries IN
       Resume(g, [geo[g] EXCEPT !.pc = "loop", !.found = geo[g].wanted \cap entries,
                    !.missing = IF lookups THEN missing ELSE {},
                    !.none = IF lookups THEN {} ELSE missing,
                    !.blind = entries # cached])
  BY DEF ReadCache
<1>3. entries \subseteq cached /\ cached \subseteq resolved /\ cached \subseteq Points
  BY <1>2 DEF GeoInv, GeoType
<1>4. PICK call :
        call = [geo[g] EXCEPT !.pc = "loop", !.found = geo[g].wanted \cap entries,
                    !.missing = IF lookups THEN geo[g].wanted \ entries ELSE {},
                    !.none = IF lookups THEN {} ELSE geo[g].wanted \ entries,
                    !.blind = entries # cached]
  OBVIOUS
<1>5. /\ call \in GeoCall /\ call.pc = "loop" /\ call.found = geo[g].wanted \cap entries
      /\ call.missing = (IF lookups THEN geo[g].wanted \ entries ELSE {})
      /\ call.none = (IF lookups THEN {} ELSE geo[g].wanted \ entries)
      /\ call.wanted = geo[g].wanted /\ call.at = geo[g].at
      /\ call.blind = (entries # cached)
  BY <1>1, <1>3, <1>4 DEF GeoCall, GeoPlaces
<1>6. call.at = {}
  BY <1>1, <1>5 DEF LookupFits
<1>7. LookupFits(call)
  <2>1. ~call.blind => entries = cached
    BY <1>5
  <2>2. call.missing \cap entries = {}
    BY <1>5
  <2>3. call.found \cup call.none \cup call.missing = call.wanted
    BY <1>5
  <2>4. call.missing \subseteq call.wanted /\ call.found \subseteq resolved
    BY <1>3, <1>5
  <2> QED
    BY <1>5, <1>6, <2>1, <2>2, <2>3, <2>4 DEF LookupFits, Runs
<1>8. Resume(g, call)
  BY <1>2, <1>4
<1>9. UNCHANGED <<clock, lookups, queue, lastAt, cached, geoCalls, askedAt, resolved>>
  BY DEF ReadCache
<1> QED
  BY <1>1, <1>5, <1>7, <1>8, <1>9, GeoQuietKeep

LEMMA AnswerNothingKeeps ==
  ASSUME GeoInv, NEW g \in GeoCalls, AnswerNothing(g)
  PROVE  GeoInv'
<1>1. LookupFits(geo[g]) /\ Runs(geo[g]) /\ Running(g)
  BY GeoCallIs DEF AnswerNothing, Runs
<1>2. PICK p \in geo[g].at : GiveUp(g, p)
  BY DEF AnswerNothing
<1>3. p \in geo[g].missing
  BY <1>1, <1>2 DEF LookupFits
<1> QED
  BY <1>1, <1>2, <1>3, GiveUpKeeps DEF AnswerNothing

LEMMA AnswerAddressKeeps ==
  ASSUME GeoInv, NEW g \in GeoCalls, AnswerAddress(g)
  PROVE  GeoInv'
<1>1. geo[g] \in GeoCall /\ LookupFits(geo[g]) /\ Runs(geo[g]) /\ Running(g)
  BY GeoCallIs DEF AnswerAddress, Runs
<1>2. PICK call : call = [geo[g] EXCEPT !.pc = "store", !.found = @ \cup geo[g].at]
  OBVIOUS
<1>3. /\ call \in GeoCall /\ call.pc = "store" /\ call.missing = geo[g].missing
      /\ call.at = geo[g].at /\ call.none = geo[g].none
      /\ call.found = geo[g].found \cup geo[g].at /\ call.wanted = geo[g].wanted
      /\ call.blind = geo[g].blind
  BY <1>1, <1>2 DEF GeoCall, GeoPlaces
<1>4. Resume(g, call) /\ resolved' = resolved \cup geo[g].at /\ geo[g].pc = "asked"
  BY <1>2 DEF AnswerAddress
<1>5. geo'[g] = call
  BY <1>4 DEF Resume, GeoInv, GeoType
<1>6. UNCHANGED <<clock, lookups, queue, lastAt, cached, geoCalls, askedAt>>
  BY DEF AnswerAddress
<1>7. LookupFits(geo[g])'
  BY <1>1, <1>3, <1>4, <1>5, <1>6 DEF LookupFits, Runs
<1>8. resolved' \subseteq Points
  BY <1>1, <1>4 DEF GeoInv, GeoType, GeoCall
<1>9. GeoType' /\ Spaced' /\ Running(g)'
  BY <1>1, <1>3, <1>4, <1>6, <1>8 DEF GeoInv, GeoType, Spaced, Resume, Running
<1>10. cached' \subseteq resolved' /\ resolved \subseteq resolved'
  BY <1>4, <1>6 DEF GeoInv
<1> QED
  BY <1>1, <1>3, <1>4, <1>7, <1>9, <1>10, GeoMovesKeep

LEMMA StoreAddressKeeps ==
  ASSUME GeoInv, NEW g \in GeoCalls, StoreAddress(g)
  PROVE  GeoInv'
<1>1. geo[g] \in GeoCall /\ LookupFits(geo[g]) /\ Runs(geo[g]) /\ Running(g)
  BY GeoCallIs DEF StoreAddress, Runs
<1>2. PICK call : call = [geo[g] EXCEPT !.pc = "loop", !.missing = @ \ geo[g].at, !.at = {}]
  OBVIOUS
<1>3. /\ call \in GeoCall /\ call.pc = "loop" /\ call.missing = geo[g].missing \ geo[g].at
      /\ call.at = {} /\ call.none = geo[g].none
      /\ call.found = geo[g].found /\ call.wanted = geo[g].wanted
      /\ call.blind = geo[g].blind
  BY <1>1, <1>2 DEF GeoCall, GeoPlaces
<1>4. /\ Resume(g, call) /\ geo[g].pc = "store"
      /\ cached' \in {cached \cup geo[g].at, cached}
  BY <1>2 DEF StoreAddress
<1>5. geo'[g] = call
  BY <1>4 DEF Resume, GeoInv, GeoType
<1>6. UNCHANGED <<clock, lookups, queue, lastAt, geoCalls, askedAt, resolved>>
  BY DEF StoreAddress
<1>7. /\ geo[g].at \subseteq geo[g].found /\ geo[g].found \subseteq resolved
      /\ geo[g].at \subseteq geo[g].missing /\ geo[g].missing \subseteq geo[g].wanted
      /\ geo[g].found \cup geo[g].none \cup geo[g].missing = geo[g].wanted
      /\ ~geo[g].blind => geo[g].missing \cap cached = {}
  BY <1>1, <1>4 DEF LookupFits
<1>8. LookupFits(geo[g])'
  <2>1. ~call.blind => call.missing \cap cached' = {}
    BY <1>3, <1>4, <1>7
  <2>2. call.found \cup call.none \cup call.missing = call.wanted
    BY <1>3, <1>7
  <2> QED
    BY <1>3, <1>5, <1>6, <1>7, <2>1, <2>2 DEF LookupFits, Runs
<1>9. cached' \subseteq Points /\ cached' \subseteq resolved'
  BY <1>1, <1>4, <1>6, <1>7 DEF GeoInv, GeoType, GeoCall
<1>10. GeoType' /\ Spaced' /\ Running(g)'
  BY <1>1, <1>3, <1>4, <1>6, <1>9 DEF GeoInv, GeoType, Spaced, Resume, Running
<1> QED
  BY <1>1, <1>3, <1>4, <1>6, <1>8, <1>9, <1>10, GeoMovesKeep

(* The queue grows at its end: whoever runs goes on running.               *)
LEMMA AskAddressesKeeps ==
  ASSUME GeoInv, NEW g \in GeoCalls, NEW P \in SUBSET Points \ {{}}, NEW d \in Deadlines,
         AskAddresses(g, P, d)
  PROVE  GeoInv'
<1>1. d \in Nat /\ clock \in Nat /\ MaxGeoCalls \in Nat /\ queue \in Seq(GeoCalls)
  BY GeocoderAssumption DEF GeoInv, GeoType
<1>2. PICK call :
        call = [NoGeoCall EXCEPT !.pc = "queued", !.wanted = P, !.deadline = clock + d]
  OBVIOUS
<1>3. /\ call \in GeoCall /\ call.pc = "queued" /\ call.missing = {} /\ call.at = {}
      /\ call.found = {} /\ call.wanted = P
  <2>1. /\ NoGeoCall \in GeoCall /\ NoGeoCall.missing = {} /\ NoGeoCall.at = {}
        /\ NoGeoCall.found = {}
    BY DEF GeoCall, GeoPlaces, NoGeoCall
  <2>2. PICK until \in Nat : until = clock + d
    BY <1>1
  <2>3. PICK fresh \in GeoCall : fresh = NoGeoCall
    BY <2>1
  <2>4. call = [fresh EXCEPT !.pc = "queued", !.wanted = P, !.deadline = until]
    BY <1>2, <2>2, <2>3
  <2>5. fresh.missing = {} /\ fresh.at = {} /\ fresh.found = {}
    BY <2>1, <2>3
  <2> QED
    BY <2>4, <2>5 DEF GeoCall, GeoPlaces
<1>4. Resume(g, call) /\ queue' = Append(queue, g)
  BY <1>2 DEF AskAddresses
<1>5. geo'[g] = call
  BY <1>4 DEF Resume, GeoInv, GeoType
<1>6. LookupFits(geo[g])'
  BY <1>3, <1>5 DEF LookupFits, Runs
<1>7. UNCHANGED <<clock, lookups, lastAt, cached, askedAt, resolved>>
      /\ geoCalls < MaxGeoCalls /\ geoCalls' = geoCalls + 1
  BY DEF AskAddresses
<1>8. geoCalls' \in 0 .. MaxGeoCalls
  BY <1>1, <1>7 DEF GeoInv, GeoType
<1>9. /\ queue' \in Seq(GeoCalls) /\ Len(queue') = Len(queue) + 1
      /\ \A i \in 1 .. Len(queue) : queue'[i] = queue[i]
  BY <1>1, <1>4, AppendProperties
<1>10. geo' \in [GeoCalls -> GeoCall]
  BY <1>3, <1>4 DEF GeoInv, GeoType, Resume
<1>11. GeoType' /\ Spaced' /\ cached' \subseteq resolved' /\ resolved \subseteq resolved'
  BY <1>7, <1>8, <1>9, <1>10 DEF GeoInv, GeoType, Spaced
<1>12. ASSUME NEW o \in GeoCalls, Running(o)
       PROVE  Running(o)'
  <2>1. queue # <<>> /\ Head(queue) = o
    BY <1>12 DEF Running
  <2>2. Len(queue) \in Nat /\ Len(queue) > 0
    BY <1>1, <2>1, EmptySeq, LenProperties
  <2>3. queue' # <<>> /\ queue'[1] = queue[1]
    BY <1>9, <2>2, EmptySeq
  <2>4. Head(queue) = queue[1] /\ Head(queue') = queue'[1]
    BY <1>1, <1>9, <2>1, <2>3
  <2> QED
    BY <2>1, <2>3, <2>4 DEF Running
<1>13. ~Runs(call)
  BY <1>3 DEF Runs
<1> QED
  BY <1>3, <1>4, <1>6, <1>7, <1>11, <1>12, <1>13, GeoMovesKeep

LEMMA ReturnKeeps ==
  ASSUME GeoInv, NEW g \in GeoCalls, Return(g)
  PROVE  GeoInv'
<1>1. /\ geo[g] \in GeoCall /\ LookupFits(geo[g]) /\ Running(g)
      /\ geo[g].pc = "loop" /\ geo[g].missing = {}
  BY GeoCallIs DEF Return
<1>2. PICK call : call = [geo[g] EXCEPT !.pc = "done", !.due = 0]
  OBVIOUS
<1>3. /\ call \in GeoCall /\ call.pc = "done" /\ call.missing = {}
      /\ call.at = geo[g].at /\ call.none = geo[g].none
      /\ call.found = geo[g].found /\ call.wanted = geo[g].wanted
  BY <1>1, <1>2 DEF GeoCall, GeoPlaces
<1>4. Resume(g, call) /\ queue' = Tail(queue)
  BY <1>2 DEF Return
<1>5. UNCHANGED <<clock, lookups, lastAt, cached, geoCalls, askedAt, resolved>>
  BY DEF Return
<1>6. geo'[g] = call
  BY <1>4 DEF Resume, GeoInv, GeoType
<1>7. LookupFits(geo[g])'
  BY <1>1, <1>3, <1>5, <1>6 DEF LookupFits, Runs
<1>8. queue' \in Seq(GeoCalls)
  BY <1>1, <1>4, HeadTailProperties DEF GeoInv, GeoType, Running
<1>9. GeoType' /\ Spaced' /\ cached' \subseteq resolved' /\ resolved \subseteq resolved'
  BY <1>3, <1>4, <1>5, <1>8 DEF GeoInv, GeoType, Spaced, Resume
<1>10. ~Runs(call)
  BY <1>3 DEF Runs
<1> QED
  BY <1>1, <1>3, <1>4, <1>7, <1>9, <1>10, GeoMovesKeep

LEMMA SendReportKeeps ==
  ASSUME GeoInv, NEW g \in GeoCalls, SendReport(g)
  PROVE  GeoInv'
<1>1. Resume(g, NoGeoCall)
      /\ UNCHANGED <<clock, lookups, queue, lastAt, cached, geoCalls, askedAt, resolved>>
  BY DEF SendReport
<1>2. /\ NoGeoCall \in GeoCall /\ NoGeoCall.pc = "idle" /\ NoGeoCall.missing = {}
      /\ NoGeoCall.at = {} /\ NoGeoCall.found = {} /\ NoGeoCall.wanted = {}
  BY DEF GeoCall, GeoPlaces, NoGeoCall
<1>3. geo'[g] = NoGeoCall
  BY <1>1 DEF Resume, GeoInv, GeoType
<1>4. LookupFits(geo[g])' /\ ~Runs(NoGeoCall)
  BY <1>2, <1>3 DEF LookupFits, Runs
<1>5. GeoType' /\ Spaced' /\ cached' \subseteq resolved' /\ resolved \subseteq resolved'
  BY <1>1, <1>2 DEF GeoInv, GeoType, Spaced, Resume
<1>6. \A o \in GeoCalls : Running(o) => Running(o)'
  BY <1>1 DEF Running
<1> QED
  BY <1>1, <1>2, <1>4, <1>5, <1>6, GeoMovesKeep

LEMMA PassTimeKeeps ==
  ASSUME GeoInv, PassTime
  PROVE  GeoInv'
<1>1. clock' = clock + 1 /\ clock < MaxClock /\ MaxClock \in Nat /\ clock \in 0 .. MaxClock
  BY GeocoderAssumption DEF PassTime, GeoInv, GeoType
<1>2. clock' \in 0 .. MaxClock
  BY <1>1
<1>3. UNCHANGED <<lookups, geo, queue, lastAt, cached, geoCalls, askedAt, resolved>>
  BY DEF PassTime
<1>4. GeoType' /\ Spaced'
  BY <1>2, <1>3 DEF GeoInv, GeoType, Spaced
<1>5. \A g \in GeoCalls : LookupFits(geo[g])' /\ (Runs(geo[g])' => Running(g)')
  BY <1>3 DEF GeoInv, LookupFits, Runs, Running
<1> QED
  BY <1>3, <1>4, <1>5 DEF GeoInv

LEMMA GeoNext ==
  ASSUME GeoInv, [GeocoderNext]_geoVars
  PROVE  GeoInv'
<1>1. CASE GeocoderNext
  <2>1. CASE PassTime
    BY <2>1, PassTimeKeeps
  <2>2. ASSUME NEW g \in GeoCalls,
               NEW P \in SUBSET Points \ {{}}, NEW d \in Deadlines, AskAddresses(g, P, d)
        PROVE  GeoInv'
    BY <2>2, AskAddressesKeeps
  <2>3. ASSUME NEW g \in GeoCalls, ReadCache(g) \/ TakePoint(g) \/ EndWait(g)
        PROVE  GeoInv'
    BY <2>3, ReadCacheKeeps, TakePointKeeps, EndWaitKeeps
  <2>4. ASSUME NEW g \in GeoCalls, AnswerAddress(g) \/ AnswerNothing(g) \/ StoreAddress(g)
        PROVE  GeoInv'
    BY <2>4, AnswerAddressKeeps, AnswerNothingKeeps, StoreAddressKeeps
  <2>5. ASSUME NEW g \in GeoCalls, Return(g) \/ SendReport(g)
        PROVE  GeoInv'
    BY <2>5, ReturnKeeps, SendReportKeeps
  <2> QED
    BY <1>1, <2>1, <2>2, <2>3, <2>4, <2>5 DEF GeocoderNext
<1>2. CASE UNCHANGED geoVars
  <2>1. UNCHANGED <<clock, lookups, geo, queue, lastAt, cached, geoCalls, askedAt, resolved>>
    BY <1>2 DEF geoVars
  <2>2. GeoType' /\ Spaced'
    BY <2>1 DEF GeoInv, GeoType, Spaced
  <2>3. \A g \in GeoCalls : LookupFits(geo[g])' /\ (Runs(geo[g])' => Running(g)')
    BY <2>1 DEF GeoInv, LookupFits, Runs, Running
  <2> QED
    BY <2>1, <2>2, <2>3 DEF GeoInv
<1> QED
  BY <1>1, <1>2

LEMMA GeoInit == ASSUME GeocoderInit PROVE GeoInv
<1>1. /\ clock = 0 /\ lookups \in BOOLEAN /\ queue = <<>> /\ lastAt = {}
      /\ cached = {} /\ geoCalls = 0 /\ askedAt = <<>> /\ resolved = {}
      /\ geo = [g \in GeoCalls |-> NoGeoCall]
  BY DEF GeocoderInit
<1>2. /\ NoGeoCall \in GeoCall /\ NoGeoCall.pc = "idle" /\ NoGeoCall.missing = {}
      /\ NoGeoCall.at = {} /\ NoGeoCall.found = {} /\ NoGeoCall.wanted = {}
  BY DEF GeoCall, GeoPlaces, NoGeoCall
<1>3. GeoType
  <2>1. geo \in [GeoCalls -> GeoCall]
    BY <1>1, <1>2
  <2>2. queue \in Seq(GeoCalls)
    BY <1>1
  <2> QED
    BY <1>1, <2>1, <2>2, GeocoderAssumption DEF GeoType
<1>4. Spaced
  BY <1>1 DEF Spaced
<1>5. \A g \in GeoCalls : LookupFits(geo[g]) /\ ~Runs(geo[g])
  BY <1>1, <1>2 DEF LookupFits, Runs
<1> QED
  BY <1>1, <1>3, <1>4, <1>5 DEF GeoInv

(* One call runs at a time and has in hand what the cache and the provider *)
(* gave it; the provider was last asked at the time the rate limit goes by *)
(* (reverse-geocoder.js queue, waitForRateLimit, resolveManyInternal).     *)
THEOREM GeoInvariant == GeocoderSpec => []GeoInv
<1>1. GeocoderInit => GeoInv
  BY GeoInit
<1>2. GeoInv /\ [GeocoderNext]_geoVars => GeoInv'
  BY GeoNext
<1> QED
  BY <1>1, <1>2, PTL DEF GeocoderSpec

(* The provider is asked by one call at a time, never twice within the     *)
(* interval, for nothing that is in the cache it could read; and a report  *)
(* has an answer for every point, an address only where the provider has   *)
(* given one (reverse-geocoder.js resolveMany).                            *)
THEOREM GeocodingSound == GeocoderSpec => []GeocodingHolds
<1>1. GeoInv => GeocodingHolds
  <2> SUFFICES ASSUME GeoInv PROVE GeocodingHolds
    OBVIOUS
  <2>1. Cardinality({g \in GeoCalls : geo[g].pc = "asked"}) <= 1
    <3>1. {g \in GeoCalls : geo[g].pc = "asked"} \subseteq {Head(queue)}
      BY DEF GeoInv, Runs, Running
    <3>2. \A S : S \subseteq {Head(queue)} => S = {} \/ S = {Head(queue)}
      OBVIOUS
    <3>3. Cardinality({}) = 0 /\ \A x : Cardinality({x}) = 1
      BY FS_EmptySet, FS_Singleton
    <3>4. PICK A : A = {g \in GeoCalls : geo[g].pc = "asked"}
      OBVIOUS
    <3>5. A = {} \/ A = {Head(queue)}
      BY <3>1, <3>2, <3>4
    <3>6. Cardinality(A) \in {0, 1}
      BY <3>3, <3>5
    <3> QED
      BY <3>4, <3>6
  <2>2. ProviderSpared
    BY <2>1 DEF ProviderSpared, GeoInv, Spaced
  <2>3. AskedOnce
    <3> SUFFICES ASSUME NEW g \in GeoCalls, geo[g].pc = "asked", ~geo[g].blind
                 PROVE  geo[g].at \cap cached = {}
      BY DEF AskedOnce
    <3>1. LookupFits(geo[g]) /\ Runs(geo[g])
      BY DEF GeoInv, Runs
    <3> QED
      BY <3>1 DEF LookupFits
  <2>4. AnswersHonest
    <3>1. \A g \in GeoCalls : LookupFits(geo[g])
      BY DEF GeoInv
    <3>2. \A g \in GeoCalls :
            /\ geo[g].found \subseteq resolved
            /\ geo[g].pc = "done" => geo[g].found \cup geo[g].none = geo[g].wanted
      BY <3>1 DEF LookupFits
    <3> QED
      BY <3>2 DEF AnswersHonest, GeoInv
  <2> QED
    BY <2>2, <2>3, <2>4 DEF GeocodingHolds
<1> QED
  BY <1>1, GeoInvariant, PTL

----------------------------------------------------------------------------
(* The hierarchy charts.                                                   *)

ChartCallFields ==
  {"op", "pc", "page", "at", "seen", "version", "status", "before", "after", "user",
   "relation", "anchor", "target", "raced"}

OrgType ==
  /\ DOMAIN chart = Scopes /\ DOMAIN page = Pages /\ DOMAIN job = Jobs
  /\ \A j \in Jobs : DOMAIN job[j] = ChartCallFields
  /\ scope \in [Users -> Scopes \cup {Null}] /\ active \subseteq Users

ChartsFit(ch) ==
  \A s \in Scopes : /\ ch[s].version \in Nat /\ ValidNodes(ch[s].nodes)
                    /\ ch[s].status = "none" => ch[s].version = 0

(* The nodes n are what the chart of s held at the version v.              *)
Shows(ch, s, v, n) ==
  v \in Nat /\ v <= ch[s].version /\ (v = ch[s].version => n = ch[s].nodes)

PageFits(g, ch) ==
  g.at # Null => /\ g.at \in Scopes /\ ch[g.at].status # "none"
                 /\ Shows(ch, g.at, g.chart.version, g.chart.nodes)
PagesFit == \A p \in Pages : PageFits(page[p], chart)

(* What a handler k under way may rely on, of the charts ch.               *)
ChartCallFits(k, ch) ==
  /\ k.pc = "insert" =>
       k.at \in Scopes /\ k.seen = NoNodes /\ k.before = NoNodes /\ k.after = NoNodes
  /\ k.pc = "replace" =>
       /\ k.at \in Scopes /\ k.status # "none" /\ ValidNodes(k.after)
       /\ Shows(ch, k.at, k.version, k.seen) /\ Shows(ch, k.at, k.version, k.before)
  /\ k.pc = "log" => k.at \in Scopes /\ ch[k.at].status # "none"
  /\ k.pc = "write" => k.user \in Users /\ k.at \in Scopes \cup {Null}
  /\ k.pc \in {"resolve", "validate", "assign"} => k.op = "submit" /\ k.user \in Users
ChartCallsFit == \A j \in Jobs : ChartCallFits(job[j], chart)

(* What validateTarget has found holds until the organisation changes.     *)
MayRoute(u, t) ==
  /\ scope[u] # Null => chart[scope[u]].status = "ACTIVE" /\ Located(u)
  /\ IF t = AnyRole THEN Targets(u) # {} ELSE t \in Targets(u)
RouteFits(k) ==
  \A u, t : k.pc = "assign" /\ ~k.raced /\ k.user = u /\ k.target = t => MayRoute(u, t)
RoutesFit == \A j \in Jobs : RouteFits(job[j])

(* The changes that were made and not lost: those of the history, and      *)
(* those whose entry is yet to be written.                                 *)
Logging == {j \in Jobs : job[j].pc = "log"}
Changes == history \cup {Entry(j) : j \in Logging}

ChangeTold(C, u, s, v) == <<s, v>> \in u \/ \E d \in C : d.at = s /\ d.version = v
ChangeFits(c, ch) ==
  /\ c.at \in Scopes /\ c.version \in Nat \ {0} /\ c.before = c.seen
  /\ Shows(ch, c.at, c.version, c.after)
ChangesFit(C, ch, u) ==
  /\ \A c \in C : ChangeFits(c, ch)
  /\ \A c, d \in C : c.at = d.at /\ d.version = c.version + 1 => d.before = c.after
  /\ \A c, d \in C : c.at = d.at /\ c.version = d.version => c = d
  /\ \A c \in C : \A v \in c.version + 1 .. ch[c.at].version : ChangeTold(C, u, c.at, v)

OrgInv ==
  /\ OrgType /\ ChartsFit(chart) /\ PagesFit /\ ChartCallsFit /\ RoutesFit
  /\ ChangesFit(Changes, chart, unlogged) /\ RoutedAbove

(* A chart only moves on to its next version.                              *)
MovesOn(ch, new) ==
  \A s \in Scopes : /\ new[s].version \in Nat /\ ch[s].version <= new[s].version
                    /\ new[s].version = ch[s].version => new[s].nodes = ch[s].nodes
                    /\ ch[s].status # "none" => new[s].status # "none"

LEMMA ShowsStays ==
  ASSUME NEW ch, NEW new, ChartsFit(ch), MovesOn(ch, new),
         NEW s \in Scopes, NEW v, NEW n, Shows(ch, s, v, n)
  PROVE  Shows(new, s, v, n)
BY DEF Shows, ChartsFit, MovesOn

(* A change is made: it becomes the last of its chart.                     *)
LEMMA ChangeMade ==
  ASSUME NEW ch, NEW new, NEW C, NEW u, ChartsFit(ch), MovesOn(ch, new), ChangesFit(C, ch, u),
         NEW c, c.at \in Scopes, c.before = c.seen, c.version = ch[c.at].version + 1,
         ch[c.at].version # 0 => c.before = ch[c.at].nodes,
         new[c.at].version = c.version, new[c.at].nodes = c.after,
         \A s \in Scopes : s # c.at => new[s].version = ch[s].version
  PROVE  ChangesFit(C \cup {c}, new, u)
<1>1. \A d \in C : ChangeFits(d, ch)
  BY DEF ChangesFit
<1>2. \A d \in C : d.at \in Scopes /\ d.version \in Nat \ {0} /\ d.version <= ch[d.at].version
  BY <1>1 DEF ChangeFits, Shows
<1>3. \A d \in C : ChangeFits(d, new)
  BY <1>1, ShowsStays DEF ChangeFits
<1>4. ch[c.at].version \in Nat /\ c.version \in Nat \ {0}
  BY DEF ChartsFit
<1>5. ChangeFits(c, new)
  BY <1>4 DEF ChangeFits, Shows
<1>6. \A d \in C : d.at = c.at => d.version < c.version
  BY <1>2, <1>4
<1>7. \A d \in C : d.at = c.at /\ c.version = d.version + 1 => c.before = d.after
  <2> SUFFICES ASSUME NEW d \in C, d.at = c.at, c.version = d.version + 1
               PROVE  c.before = d.after
    OBVIOUS
  <2>1. d.version = ch[c.at].version /\ ch[c.at].version # 0
    BY <1>2, <1>4
  <2>2. d.after = ch[c.at].nodes
    BY <1>1, <2>1 DEF ChangeFits, Shows
  <2> QED
    BY <2>1, <2>2
<1>8. \A d, e \in C \cup {c} : d.at = e.at /\ e.version = d.version + 1 => e.before = d.after
  <2>1. \A d, e \in C : d.at = e.at /\ e.version = d.version + 1 => e.before = d.after
    BY DEF ChangesFit
  <2>2. \A e \in C \cup {c} : ~(c.at = e.at /\ e.version = c.version + 1)
    BY <1>2, <1>4, <1>6
  <2> QED
    BY <1>7, <2>1, <2>2
<1>9. \A d, e \in C \cup {c} : d.at = e.at /\ d.version = e.version => d = e
  <2>1. \A d, e \in C : d.at = e.at /\ d.version = e.version => d = e
    BY DEF ChangesFit
  <2>2. \A d \in C : d.at = c.at => d.version # c.version
    BY <1>2, <1>4, <1>6
  <2> QED
    BY <2>1, <2>2
<1>10. ASSUME NEW d \in C \cup {c}, NEW v \in d.version + 1 .. new[d.at].version
       PROVE  ChangeTold(C \cup {c}, u, d.at, v)
  <2>1. CASE d.at = c.at /\ v = c.version
    BY <2>1 DEF ChangeTold
  <2>2. CASE ~(d.at = c.at /\ v = c.version)
    <3>1. d \in C
      BY <1>4, <2>2
    <3>2. v \in d.version + 1 .. ch[d.at].version
      BY <1>2, <1>4, <2>2, <3>1
    <3>3. ChangeTold(C, u, d.at, v)
      BY <3>1, <3>2 DEF ChangesFit
    <3> QED
      BY <3>3 DEF ChangeTold
  <2> QED
    BY <2>1, <2>2
<1> QED
  BY <1>3, <1>5, <1>8, <1>9, <1>10 DEF ChangesFit

(* Changes may be lost when they are marked as such.                       *)
LEMMA ChangeLost ==
  ASSUME NEW ch, NEW C, NEW D, NEW u, NEW w, ChangesFit(C, ch, u), D \subseteq C, u \subseteq w,
         \A c \in C : c \in D \/ <<c.at, c.version>> \in w
  PROVE  ChangesFit(D, ch, w)
<1>1. ASSUME NEW d \in D, NEW v \in d.version + 1 .. ch[d.at].version
      PROVE  ChangeTold(D, w, d.at, v)
  <2>1. ChangeTold(C, u, d.at, v)
    BY DEF ChangesFit
  <2> QED
    BY <2>1 DEF ChangeTold
<1> QED
  BY <1>1 DEF ChangesFit

LEMMA NoJobFits ==
  /\ DOMAIN NoJob = ChartCallFields /\ NoJob.pc = "idle" /\ NoJob.at = Null
  /\ NoJob.op = "none" /\ NoJob.version = 0 /\ NoJob.seen = NoNodes /\ NoJob.before = NoNodes
  /\ NoJob.after = NoNodes /\ NoJob.raced = FALSE
  /\ \A ch : ChartCallFits(NoJob, ch)
BY DEF NoJob, ChartCallFields, ChartCallFits

(* The same call, but that it may have been overtaken.                     *)
Alike(k, l) ==
  /\ DOMAIN l = DOMAIN k /\ l.op = k.op /\ l.pc = k.pc /\ l.at = k.at /\ l.seen = k.seen
  /\ l.version = k.version /\ l.status = k.status /\ l.before = k.before /\ l.after = k.after
  /\ l.user = k.user /\ l.relation = k.relation /\ l.anchor = k.anchor /\ l.target = k.target
  /\ l.page = k.page

LEMMA CallStaysFit ==
  ASSUME NEW ch, NEW new, ChartsFit(ch), MovesOn(ch, new), NEW k, NEW l, Alike(k, l),
         ChartCallFits(k, ch)
  PROVE  ChartCallFits(l, new)
<1>1. l.pc = "replace" => Shows(new, l.at, l.version, l.seen) /\ Shows(new, l.at, l.version, l.before)
  BY ShowsStays DEF Alike, ChartCallFits
<1>2. l.pc = "log" => new[l.at].status # "none"
  BY DEF Alike, ChartCallFits, MovesOn
<1> QED
  BY <1>1, <1>2 DEF Alike, ChartCallFits

LEMMA PageStaysFit ==
  ASSUME NEW ch, NEW new, ChartsFit(ch), MovesOn(ch, new), NEW g, PageFits(g, ch)
  PROVE  PageFits(g, new)
BY ShowsStays DEF PageFits, MovesOn

(* One handler moves, and writes neither a chart nor a scope.              *)
LEMMA CallMoves ==
  ASSUME OrgInv, UNCHANGED <<chart, scope, active>>,
         NEW j \in Jobs, NEW k, job' = [job EXCEPT ![j] = k], DOMAIN k = ChartCallFields,
         ChartCallFits(k, chart), RouteFits(k),
         DOMAIN page' = Pages, \A p \in Pages : PageFits(page'[p], chart)
  PROVE  OrgType' /\ ChartsFit(chart)' /\ PagesFit' /\ ChartCallsFit' /\ RoutesFit'
<1>1. DOMAIN job' = Jobs /\ \A i \in Jobs : job'[i] = IF i = j THEN k ELSE job[i]
  BY DEF OrgInv, OrgType
<1>2. OrgType'
  BY <1>1 DEF OrgInv, OrgType
<1>3. ChartsFit(chart)' /\ PagesFit'
  BY DEF OrgInv, PagesFit
<1>4. ChartCallsFit'
  BY <1>1 DEF OrgInv, ChartCallsFit
<1>5. \A u, t : MayRoute(u, t) => MayRoute(u, t)'
  BY DEF MayRoute, Located, Targets, Superiors, Eligible
<1>6. RoutesFit'
  <2> SUFFICES ASSUME NEW i \in Jobs, NEW u, NEW t, job'[i].pc = "assign", ~job'[i].raced,
                      job'[i].user = u, job'[i].target = t
               PROVE  MayRoute(u, t)'
    BY DEF RoutesFit, RouteFits
  <2>1. MayRoute(u, t)
    BY <1>1 DEF OrgInv, RoutesFit, RouteFits
  <2> QED
    BY <1>5, <2>1
<1> QED
  BY <1>2, <1>3, <1>4, <1>6

LEMMA OneCallMoves ==
  ASSUME OrgInv, UNCHANGED <<chart, scope, active, history, unlogged>>,
         NEW j \in Jobs, NEW k, job' = [job EXCEPT ![j] = k], DOMAIN k = ChartCallFields,
         job[j].pc # "log", k.pc # "log", ChartCallFits(k, chart), RouteFits(k),
         DOMAIN page' = Pages, \A p \in Pages : PageFits(page'[p], chart),
         RoutedAbove'
  PROVE  OrgInv'
<1>1. OrgType' /\ ChartsFit(chart)' /\ PagesFit' /\ ChartCallsFit' /\ RoutesFit'
  BY CallMoves
<1>2. DOMAIN job' = Jobs /\ \A i \in Jobs : job'[i] = IF i = j THEN k ELSE job[i]
  BY DEF OrgInv, OrgType
<1>3. Changes' = Changes
  BY <1>2 DEF Changes, Logging, Entry
<1>4. ChangesFit(Changes', chart', unlogged')
  BY <1>3 DEF OrgInv
<1> QED
  BY <1>1, <1>4 DEF OrgInv

LEMMA PagesStay ==
  ASSUME OrgInv, UNCHANGED <<chart, page>>
  PROVE  DOMAIN page' = Pages /\ \A p \in Pages : PageFits(page'[p], chart)
BY DEF OrgInv, OrgType, PagesFit

LEMMA RoutedStays ==
  ASSUME OrgInv, UNCHANGED routed
  PROVE  RoutedAbove'
BY DEF OrgInv, RoutedAbove

LEMMA CallBegins ==
  ASSUME OrgInv, UNCHANGED <<chart, scope, active, page, history, unlogged, routed>>,
         NEW j \in Jobs, NEW k, JobStarts(j, k), DOMAIN k = ChartCallFields,
         k.pc \in {"insert", "replace", "write", "resolve", "validate"}, ChartCallFits(k, chart)
  PROVE  OrgInv'
<1>1. job[j] = NoJob /\ job' = [job EXCEPT ![j] = k]
  BY DEF JobStarts, Free
<1>2. job[j].pc # "log" /\ RouteFits(k) /\ k.pc # "log"
  BY <1>1, NoJobFits DEF RouteFits
<1> QED
  BY <1>1, <1>2, PagesStay, RoutedStays, OneCallMoves

LEMMA CreateChartKeeps ==
  ASSUME OrgInv, NEW j \in Jobs, NEW p \in Pages, NEW s \in Scopes, CreateChart(j, p, s)
  PROVE  OrgInv'
<1>1. PICK k : k = [NoJob EXCEPT !.op = "create", !.pc = "insert", !.page = p, !.at = s]
  OBVIOUS
<1>2. /\ DOMAIN k = ChartCallFields /\ k.pc = "insert" /\ k.at = s
      /\ k.seen = NoNodes /\ k.before = NoNodes /\ k.after = NoNodes
  BY <1>1 DEF NoJob, ChartCallFields
<1>3. ChartCallFits(k, chart)
  BY <1>2 DEF ChartCallFits
<1>4. JobStarts(j, k) /\ UNCHANGED <<chart, scope, active, page, history, unlogged, routed>>
  BY <1>1 DEF CreateChart
<1> QED
  BY <1>2, <1>3, <1>4, CallBegins

(* What a page sends is a change of the chart it shows.                    *)
LEMMA PageSendsKeeps ==
  ASSUME OrgInv, NEW j \in Jobs, NEW p \in Pages, page[p].at # Null, NEW call,
         DOMAIN call = ChartCallFields, NEW status, status # "none", NEW after,
         ValidNodes(after), PageSends(j, p, call, status, after)
  PROVE  OrgInv'
<1>1. PICK s \in Scopes : s = page[p].at /\ Shows(chart, s, page[p].chart.version, page[p].chart.nodes)
  BY DEF OrgInv, PagesFit, PageFits
<1>2. PICK k : k = [call EXCEPT !.pc = "replace", !.page = p, !.at = s,
                      !.seen = page[p].chart.nodes, !.version = page[p].chart.version,
                      !.status = status, !.before = chart[s].nodes, !.after = after]
  OBVIOUS
<1>3. /\ DOMAIN k = ChartCallFields /\ k.pc = "replace" /\ k.at = s /\ k.status = status
      /\ k.seen = page[p].chart.nodes /\ k.version = page[p].chart.version
      /\ k.before = chart[s].nodes /\ k.after = after
  BY <1>2 DEF ChartCallFields
<1>4. Shows(chart, s, k.version, k.seen) /\ Shows(chart, s, k.version, k.before)
  BY <1>1, <1>3 DEF Shows
<1>5. ChartCallFits(k, chart)
  BY <1>3, <1>4 DEF ChartCallFits
<1>6. JobStarts(j, k) /\ UNCHANGED <<chart, scope, active, page, history, unlogged, routed>>
  BY <1>1, <1>2 DEF PageSends
<1> QED
  BY <1>3, <1>5, <1>6, CallBegins

LEMMA PageCallsKeep ==
  ASSUME OrgInv, NEW j \in Jobs, NEW p \in Pages,
         AddCall(j, p) \/ RemoveCall(j, p) \/ ActivateCall(j, p) \/ ArchiveCall(j, p)
  PROVE  OrgInv'
<1>1. /\ page[p].at # Null /\ page[p].at \in Scopes /\ chart[page[p].at].status # "none"
      /\ ValidNodes(chart[page[p].at].nodes)
  BY DEF AddCall, RemoveCall, ActivateCall, ArchiveCall, CanSend, OrgInv, PagesFit, PageFits,
         ChartsFit
<1>2. PICK s \in Scopes : s = page[p].at
  BY <1>1
<1>3. CASE AddCall(j, p)
  <2>1. PICK u \in active, relation \in Relations :
          \E anchor \in DOMAIN page[p].chart.nodes \cup {Null} :
            LET after == AddNode(chart[s].nodes, u, relation, anchor, lastNode + 1) IN
            /\ ValidNodes(after)
            /\ PageSends(j, p, [NoJob EXCEPT !.op = "add", !.user = u, !.relation = relation,
                                             !.anchor = anchor], chart[s].status, after)
    BY <1>2, <1>3 DEF AddCall
  <2>2. PICK anchor : LET after == AddNode(chart[s].nodes, u, relation, anchor, lastNode + 1) IN
            /\ ValidNodes(after)
            /\ PageSends(j, p, [NoJob EXCEPT !.op = "add", !.user = u, !.relation = relation,
                                             !.anchor = anchor], chart[s].status, after)
    BY <2>1
  <2>3. PICK after : after = AddNode(chart[s].nodes, u, relation, anchor, lastNode + 1)
    OBVIOUS
  <2>4. PICK call : call = [NoJob EXCEPT !.op = "add", !.user = u, !.relation = relation,
                                         !.anchor = anchor]
    OBVIOUS
  <2>5. DOMAIN call = ChartCallFields
    BY <2>4, NoJobFits
  <2>6. ValidNodes(after) /\ PageSends(j, p, call, chart[s].status, after)
    BY <2>2, <2>3, <2>4
  <2> QED
    BY <1>1, <1>2, <2>5, <2>6, PageSendsKeeps
<1>4. CASE RemoveCall(j, p)
  <2>1. PICK u \in Users, promote \in BOOLEAN :
          LET after == RemoveNode(chart[s].nodes, u, promote) IN
          /\ ValidNodes(after)
          /\ PageSends(j, p, [NoJob EXCEPT !.op = "remove", !.user = u], chart[s].status, after)
    BY <1>2, <1>4 DEF RemoveCall
  <2>2. PICK after : after = RemoveNode(chart[s].nodes, u, promote)
    OBVIOUS
  <2>3. PICK call : call = [NoJob EXCEPT !.op = "remove", !.user = u]
    OBVIOUS
  <2>4. DOMAIN call = ChartCallFields
    BY <2>3, NoJobFits
  <2>5. ValidNodes(after) /\ PageSends(j, p, call, chart[s].status, after)
    BY <2>1, <2>2, <2>3
  <2> QED
    BY <1>1, <1>2, <2>4, <2>5, PageSendsKeeps
<1>5. CASE ActivateCall(j, p)
  <2>1. PICK call : call = [NoJob EXCEPT !.op = "activate"]
    OBVIOUS
  <2>2. DOMAIN call = ChartCallFields
    BY <2>1, NoJobFits
  <2>3. PageSends(j, p, call, "ACTIVE", chart[s].nodes)
    BY <1>2, <1>5, <2>1 DEF ActivateCall
  <2> QED
    BY <1>1, <1>2, <2>2, <2>3, PageSendsKeeps
<1>6. CASE ArchiveCall(j, p)
  <2>1. PICK call : call = [NoJob EXCEPT !.op = "archive"]
    OBVIOUS
  <2>2. DOMAIN call = ChartCallFields
    BY <2>1, NoJobFits
  <2>3. PageSends(j, p, call, "ARCHIVED", chart[s].nodes)
    BY <1>2, <1>6, <2>1 DEF ArchiveCall
  <2> QED
    BY <1>1, <1>2, <2>2, <2>3, PageSendsKeeps
<1> QED
  BY <1>3, <1>4, <1>5, <1>6

LEMMA MoveCallKeeps ==
  ASSUME OrgInv, NEW j \in Jobs, MoveCall(j)
  PROVE  OrgInv'
<1>1. PICK u \in Users, s \in Scopes \cup {Null} :
        JobStarts(j, [NoJob EXCEPT !.op = "move", !.pc = "write", !.user = u, !.at = s])
  BY DEF MoveCall
<1>2. PICK k : k = [NoJob EXCEPT !.op = "move", !.pc = "write", !.user = u, !.at = s]
  OBVIOUS
<1>3. DOMAIN k = ChartCallFields /\ k.pc = "write" /\ k.user = u /\ k.at = s
  BY <1>2 DEF NoJob, ChartCallFields
<1>4. ChartCallFits(k, chart)
  BY <1>3 DEF ChartCallFits
<1>5. JobStarts(j, k) /\ UNCHANGED <<chart, scope, active, page, history, unlogged, routed>>
  BY <1>1, <1>2 DEF MoveCall
<1> QED
  BY <1>3, <1>4, <1>5, CallBegins

LEMMA SubmitCallKeeps ==
  ASSUME OrgInv, NEW j \in Jobs, SubmitCall(j)
  PROVE  OrgInv'
<1>1. PICK u \in active, t \in Named :
        JobStarts(j, [NoJob EXCEPT !.op = "submit", !.user = u, !.target = t,
                                   !.pc = IF t = Null THEN "resolve" ELSE "validate"])
  BY DEF SubmitCall
<1>2. PICK k : k = [NoJob EXCEPT !.op = "submit", !.user = u, !.target = t,
                                 !.pc = IF t = Null THEN "resolve" ELSE "validate"]
  OBVIOUS
<1>3. u \in Users
  BY DEF OrgInv, OrgType
<1>4. /\ DOMAIN k = ChartCallFields /\ k.pc \in {"resolve", "validate"} /\ k.user = u
      /\ k.op = "submit"
  BY <1>2 DEF NoJob, ChartCallFields
<1>5. ChartCallFits(k, chart)
  BY <1>3, <1>4 DEF ChartCallFits
<1>6. JobStarts(j, k) /\ UNCHANGED <<chart, scope, active, page, history, unlogged, routed>>
  BY <1>1, <1>2 DEF SubmitCall
<1> QED
  BY <1>4, <1>5, <1>6, CallBegins

(* A call that is over, and others that go on, with the chart as it is.    *)
LEMMA CallEnds ==
  ASSUME OrgInv, UNCHANGED <<chart, scope, active, history, unlogged>>,
         NEW j \in Jobs, JobEnds(j), job[j].pc # "log",
         DOMAIN page' = Pages, \A p \in Pages : PageFits(page'[p], chart),
         RoutedAbove'
  PROVE  OrgInv'
<1>1. PICK k : k = NoJob
  OBVIOUS
<1>2. job' = [job EXCEPT ![j] = k]
  BY <1>1 DEF JobEnds
<1>3. DOMAIN k = ChartCallFields /\ k.pc # "log" /\ ChartCallFits(k, chart) /\ RouteFits(k)
  BY <1>1, NoJobFits DEF RouteFits
<1> QED
  BY <1>2, <1>3, OneCallMoves

LEMMA ResolveTargetKeeps ==
  ASSUME OrgInv, NEW j \in Jobs, ResolveTarget(j)
  PROVE  OrgInv'
<1>1. /\ job[j].pc = "resolve"
      /\ JobEnds(j) \/ \E t : job' = [job EXCEPT ![j].target = t, ![j].pc = "validate"]
      /\ UNCHANGED <<chart, scope, active, page, history, unlogged, routed>>
  BY DEF ResolveTarget
<1>2. CASE JobEnds(j)
  BY <1>1, <1>2, PagesStay, RoutedStays, CallEnds
<1>3. ASSUME NEW t, job' = [job EXCEPT ![j].target = t, ![j].pc = "validate"]
      PROVE  OrgInv'
  <2>1. PICK old : old = job[j] /\ DOMAIN old = ChartCallFields /\ ChartCallFits(old, chart)
    BY DEF OrgInv, OrgType, ChartCallsFit
  <2>2. PICK k : k = [old EXCEPT !.target = t, !.pc = "validate"]
    OBVIOUS
  <2>3. DOMAIN k = ChartCallFields /\ k.pc = "validate" /\ k.op = old.op /\ k.user = old.user
    BY <2>1, <2>2 DEF ChartCallFields
  <2>4. ChartCallFits(k, chart)
    BY <1>1, <2>1, <2>3 DEF ChartCallFits
  <2>5. job' = [job EXCEPT ![j] = k]
    BY <1>3, <2>1, <2>2
  <2>6. RouteFits(k) /\ k.pc # "log" /\ job[j].pc # "log"
    BY <1>1, <2>3 DEF RouteFits
  <2> QED
    BY <1>1, <2>3, <2>4, <2>5, <2>6, PagesStay, RoutedStays, OneCallMoves
<1> QED
  BY <1>1, <1>2, <1>3

LEMMA ValidateTargetKeeps ==
  ASSUME OrgInv, NEW j \in Jobs, ValidateTarget(j)
  PROVE  OrgInv'
<1>1. /\ job[j].pc = "validate"
      /\ UNCHANGED <<chart, scope, active, page, history, unlogged, routed>>
  BY DEF ValidateTarget
<1>2. PICK u, t : u = job[j].user /\ t = job[j].target
  OBVIOUS
<1>3. JobEnds(j) \/ (MayRoute(u, t) /\ job' = [job EXCEPT ![j].pc = "assign"])
  BY <1>2 DEF ValidateTarget, MayRoute
<1>4. CASE JobEnds(j)
  BY <1>1, <1>4, PagesStay, RoutedStays, CallEnds
<1>5. CASE MayRoute(u, t) /\ job' = [job EXCEPT ![j].pc = "assign"]
  <2>1. PICK old : old = job[j] /\ DOMAIN old = ChartCallFields /\ ChartCallFits(old, chart)
    BY DEF OrgInv, OrgType, ChartCallsFit
  <2>2. PICK k : k = [old EXCEPT !.pc = "assign"]
    OBVIOUS
  <2>3. /\ DOMAIN k = ChartCallFields /\ k.pc = "assign" /\ k.op = old.op /\ k.user = old.user
        /\ k.target = old.target
    BY <2>1, <2>2 DEF ChartCallFields
  <2>4. ChartCallFits(k, chart)
    BY <1>1, <2>1, <2>3 DEF ChartCallFits
  <2>5. job' = [job EXCEPT ![j] = k]
    BY <1>5, <2>1, <2>2
  <2>6. RouteFits(k) /\ k.pc # "log" /\ job[j].pc # "log"
    BY <1>1, <1>2, <1>5, <2>1, <2>3 DEF RouteFits
  <2> QED
    BY <1>1, <2>3, <2>4, <2>5, <2>6, PagesStay, RoutedStays, OneCallMoves
<1> QED
  BY <1>3, <1>4, <1>5

(* The superiors that a request is routed to stand above its requester.    *)
LEMMA SuperiorsAreOthers ==
  ASSUME OrgInv, NEW u \in Users, Located(u)
  PROVE  u \notin Targets(u)
<1>1. scope[u] \in Scopes /\ u \in DOMAIN chart[scope[u]].nodes
  BY DEF OrgInv, OrgType, Located
<1>2. ValidNodes(chart[scope[u]].nodes)
  BY <1>1 DEF OrgInv, ChartsFit
<1>3. u \notin Ancestors(chart[scope[u]].nodes, u)
  BY <1>1, <1>2 DEF ValidNodes
<1> QED
  BY <1>3 DEF Targets, Superiors

LEMMA BuildAssignmentKeeps ==
  ASSUME OrgInv, NEW j \in Jobs, BuildAssignment(j)
  PROVE  OrgInv'
<1>1. /\ job[j].pc = "assign" /\ JobEnds(j)
      /\ UNCHANGED <<chart, scope, active, page, history, unlogged>>
  BY DEF BuildAssignment
<1>2. PICK u \in Users : u = job[j].user
  BY <1>1 DEF OrgInv, ChartCallsFit, ChartCallFits
<1>3. PICK t : t = job[j].target
  OBVIOUS
<1>4. PICK r : r = [user |-> u, target |-> t, approvers |-> Targets(u), chained |-> Located(u),
                    scoped |-> scope[u] # Null, raced |-> job[j].raced]
  OBVIOUS
<1>5. routed' = routed \cup {r}
  BY <1>2, <1>3, <1>4 DEF BuildAssignment
<1>6. r.chained => r.user \notin r.approvers
  BY <1>4, SuperiorsAreOthers
<1>7. r.approvers \subseteq Approvers
  BY <1>4 DEF Targets, Eligible
<1>8. ~r.raced => /\ r.scoped => r.chained
                  /\ r.approvers # {} /\ r.target \in r.approvers \cup {AnyRole}
  <2> SUFFICES ASSUME ~job[j].raced
               PROVE  /\ scope[u] # Null => Located(u)
                      /\ Targets(u) # {} /\ t \in Targets(u) \cup {AnyRole}
    BY <1>4
  <2>1. MayRoute(u, t)
    BY <1>1, <1>2, <1>3 DEF OrgInv, RoutesFit, RouteFits
  <2> QED
    BY <2>1 DEF MayRoute
<1>9. RoutedAbove'
  BY <1>5, <1>6, <1>7, <1>8 DEF OrgInv, RoutedAbove
<1>10. DOMAIN page' = Pages /\ \A p \in Pages : PageFits(page'[p], chart)
  BY <1>1, PagesStay
<1> QED
  BY <1>1, <1>9, <1>10, CallEnds

LEMMA OpenPageKeeps ==
  ASSUME OrgInv, NEW p \in Pages, NEW s \in Scopes, OpenPage(p, s)
  PROVE  OrgInv'
<1>1. PICK g : g = [at |-> s, chart |-> chart[s]]
  OBVIOUS
<1>2. /\ page' = [page EXCEPT ![p] = g] /\ chart[s].status # "none"
      /\ UNCHANGED <<chart, scope, active, job, history, unlogged, routed>>
  BY <1>1 DEF OpenPage
<1>3. DOMAIN page' = Pages /\ \A q \in Pages : page'[q] = IF q = p THEN g ELSE page[q]
  BY <1>2 DEF OrgInv, OrgType
<1>4. PageFits(g, chart)
  BY <1>1, <1>2 DEF PageFits, Shows, OrgInv, ChartsFit
<1>5. PagesFit'
  BY <1>2, <1>3, <1>4 DEF OrgInv, PagesFit
<1>6. OrgType' /\ ChartCallsFit' /\ ChartsFit(chart)'
  BY <1>2, <1>3 DEF OrgInv, OrgType, ChartCallsFit
<1>7. RoutesFit'
  BY <1>2 DEF OrgInv, RoutesFit, RouteFits, MayRoute, Located, Targets, Superiors, Eligible
<1>8. Changes' = Changes
  BY <1>2 DEF Changes, Logging, Entry
<1>9. ChangesFit(Changes', chart', unlogged')
  BY <1>2, <1>8 DEF OrgInv
<1> QED
  BY <1>2, <1>5, <1>6, <1>7, <1>9, RoutedStays DEF OrgInv

LEMMA RacesAlike ==
  ASSUME OrgInv
  PROVE  /\ DOMAIN Races(job) = Jobs
         /\ \A i \in Jobs : /\ Alike(job[i], Races(job)[i])
                            /\ job[i].op = "submit" => Races(job)[i].raced = TRUE
<1> SUFFICES ASSUME NEW i \in Jobs
             PROVE  /\ Alike(job[i], Races(job)[i])
                    /\ job[i].op = "submit" => Races(job)[i].raced = TRUE
  BY DEF Races
<1>1. PICK k : k = job[i] /\ DOMAIN k = ChartCallFields
  BY DEF OrgInv, OrgType
<1>2. PICK l : l = [k EXCEPT !.raced = TRUE]
  OBVIOUS
<1>3. Alike(k, l) /\ l.raced = TRUE
  BY <1>1, <1>2 DEF Alike, ChartCallFields
<1>4. Races(job)[i] = IF k.op = "submit" THEN l ELSE k
  BY <1>1, <1>2 DEF Races
<1> QED
  BY <1>1, <1>3, <1>4 DEF Alike

(* The organisation changes: submissions under way are overtaken.          *)
Overtaken(k, l) == Alike(k, l) /\ (k.op = "submit" => l.raced = TRUE)

LEMMA OrganisationMoves ==
  ASSUME OrgInv, DOMAIN chart' = Scopes, ChartsFit(chart'), MovesOn(chart, chart'),
         scope' \in [Users -> Scopes \cup {Null}], active' \subseteq Users,
         DOMAIN page' = Pages, \A p \in Pages : page'[p] = page[p] \/ PageFits(page'[p], chart'),
         DOMAIN job' = Jobs,
         \A i \in Jobs : \/ Overtaken(job[i], job'[i])
                         \/ /\ DOMAIN job'[i] = ChartCallFields /\ job'[i].pc # "assign"
                            /\ ChartCallFits(job'[i], chart')
  PROVE  OrgType' /\ ChartsFit(chart)' /\ PagesFit' /\ ChartCallsFit' /\ RoutesFit'
<1>1. \A i \in Jobs : DOMAIN job[i] = ChartCallFields /\ ChartCallFits(job[i], chart)
  BY DEF OrgInv, OrgType, ChartCallsFit
<1>2. ChartsFit(chart)
  BY DEF OrgInv
<1>3. \A i \in Jobs : DOMAIN job'[i] = ChartCallFields /\ ChartCallFits(job'[i], chart')
  BY <1>1, <1>2, CallStaysFit DEF Overtaken, Alike
<1>4. \A p \in Pages : PageFits(page'[p], chart')
  BY <1>2, PageStaysFit DEF OrgInv, PagesFit
<1>5. OrgType' /\ ChartsFit(chart)' /\ PagesFit' /\ ChartCallsFit'
  BY <1>3, <1>4 DEF OrgType, PagesFit, ChartCallsFit
<1>6. ASSUME NEW i \in Jobs, job'[i].pc = "assign"
      PROVE  job'[i].raced = TRUE
  <2>1. Overtaken(job[i], job'[i])
    BY <1>6
  <2>2. job[i].op = "submit"
    BY <1>1, <1>6, <2>1 DEF Overtaken, Alike, ChartCallFits
  <2> QED
    BY <2>1, <2>2 DEF Overtaken
<1>7. RoutesFit'
  BY <1>6 DEF RoutesFit, RouteFits
<1> QED
  BY <1>5, <1>7

LEMMA SetActiveKeeps ==
  ASSUME OrgInv, NEW u \in Users, SetActive(u)
  PROVE  OrgInv'
<1>1. /\ job' = Races(job) /\ UNCHANGED <<chart, scope, page, history, unlogged, routed>>
      /\ active' \subseteq Users
  BY DEF SetActive, OrgInv, OrgType
<1>2. DOMAIN job' = Jobs /\ \A i \in Jobs : Overtaken(job[i], job'[i])
  BY <1>1, RacesAlike DEF Overtaken
<1>3. MovesOn(chart, chart') /\ ChartsFit(chart') /\ DOMAIN chart' = Scopes
  BY <1>1 DEF MovesOn, OrgInv, OrgType, ChartsFit
<1>4. OrgType' /\ ChartsFit(chart)' /\ PagesFit' /\ ChartCallsFit' /\ RoutesFit'
  BY <1>1, <1>2, <1>3, OrganisationMoves DEF OrgInv, OrgType
<1>5. Changes' = Changes
  BY <1>1, <1>2 DEF Changes, Logging, Entry, Overtaken, Alike
<1>6. ChangesFit(Changes', chart', unlogged')
  BY <1>1, <1>5 DEF OrgInv
<1> QED
  BY <1>1, <1>4, <1>6, RoutedStays DEF OrgInv

LEMMA WriteScopeKeeps ==
  ASSUME OrgInv, NEW j \in Jobs, WriteScope(j)
  PROVE  OrgInv'
<1>1. /\ job[j].pc = "write" /\ UNCHANGED <<chart, active, page, history, unlogged, routed>>
      /\ job' = [Races(job) EXCEPT ![j] = NoJob]
  BY DEF WriteScope
<1>2. PICK u \in Users, s \in Scopes \cup {Null} : u = job[j].user /\ s = job[j].at
  BY <1>1 DEF OrgInv, ChartCallsFit, ChartCallFits
<1>3. scope' = [scope EXCEPT ![u] = s]
  BY <1>2 DEF WriteScope
<1>4. scope' \in [Users -> Scopes \cup {Null}]
  BY <1>2, <1>3 DEF OrgInv, OrgType
<1>5. DOMAIN job' = Jobs /\ \A i \in Jobs : job'[i] = IF i = j THEN NoJob ELSE Races(job)[i]
  BY <1>1, RacesAlike
<1>6. \A i \in Jobs : i # j => Overtaken(job[i], job'[i])
  BY <1>5, RacesAlike DEF Overtaken
<1>7. DOMAIN job'[j] = ChartCallFields /\ job'[j].pc = "idle" /\ ChartCallFits(job'[j], chart')
  BY <1>5, NoJobFits
<1>8. MovesOn(chart, chart') /\ ChartsFit(chart') /\ DOMAIN chart' = Scopes
  BY <1>1 DEF MovesOn, OrgInv, OrgType, ChartsFit
<1>9. OrgType' /\ ChartsFit(chart)' /\ PagesFit' /\ ChartCallsFit' /\ RoutesFit'
  BY <1>1, <1>4, <1>5, <1>6, <1>7, <1>8, OrganisationMoves DEF OrgInv, OrgType
<1>10. Changes' = Changes
  BY <1>1, <1>6, <1>7 DEF Changes, Logging, Entry, Overtaken, Alike
<1>11. ChangesFit(Changes', chart', unlogged')
  BY <1>1, <1>10 DEF OrgInv
<1> QED
  BY <1>1, <1>9, <1>11, RoutedStays DEF OrgInv

(* A chart is written, and the entry is still to come.                     *)
LEMMA ChartWritten ==
  ASSUME OrgInv, NEW j \in Jobs, job[j].pc # "log", NEW k, DOMAIN k = ChartCallFields,
         job' = [Races(job) EXCEPT ![j] = k], k.pc = "log", k.at \in Scopes,
         k.before = k.seen, k.version = chart[k.at].version + 1, ValidNodes(k.after),
         chart[k.at].version # 0 => k.before = chart[k.at].nodes,
         NEW c, chart' = [chart EXCEPT ![k.at] = c], c.version = k.version, c.nodes = k.after,
         c.status # "none", UNCHANGED <<scope, active, page, history, unlogged, routed>>
  PROVE  OrgInv'
<1>1. PICK s \in Scopes : s = k.at
  OBVIOUS
<1>2. DOMAIN chart' = Scopes /\ \A t \in Scopes : chart'[t] = IF t = s THEN c ELSE chart[t]
  BY <1>1 DEF OrgInv, OrgType
<1>3. ChartsFit(chart)
  BY DEF OrgInv
<1>4. MovesOn(chart, chart') /\ ChartsFit(chart')
  BY <1>1, <1>2, <1>3 DEF MovesOn, ChartsFit
<1>5. DOMAIN job' = Jobs /\ \A i \in Jobs : job'[i] = IF i = j THEN k ELSE Races(job)[i]
  BY RacesAlike
<1>6. \A i \in Jobs : i # j => Overtaken(job[i], job'[i])
  BY <1>5, RacesAlike DEF Overtaken
<1>7. ChartCallFits(k, chart')
  BY <1>1, <1>2 DEF ChartCallFits
<1>8. job'[j] = k /\ k.pc # "assign"
  BY <1>5
<1>9. OrgType' /\ ChartsFit(chart)' /\ PagesFit' /\ ChartCallsFit' /\ RoutesFit'
  BY <1>2, <1>4, <1>5, <1>6, <1>7, <1>8, OrganisationMoves DEF OrgInv, OrgType
<1>10. PICK e : e = [at |-> k.at, version |-> k.version, seen |-> k.seen,
                     before |-> k.before, after |-> k.after]
  OBVIOUS
<1>11. Changes' = Changes \cup {e}
  <2>1. \A i \in Jobs : i # j => (job'[i].pc = "log" <=> job[i].pc = "log") /\ Entry(i)' = Entry(i)
    BY <1>6 DEF Overtaken, Alike, Entry
  <2>2. job'[j].pc = "log" /\ Entry(j)' = e
    BY <1>8, <1>10 DEF Entry
  <2>3. Logging' = Logging \cup {j} /\ j \notin Logging
    BY <2>1, <2>2 DEF Logging
  <2>4. \A i \in Logging : Entry(i)' = Entry(i)
    BY <2>1, <2>3 DEF Logging
  <2> QED
    BY <2>2, <2>3, <2>4 DEF Changes
<1>12. PICK C, u : C = Changes /\ u = unlogged
  OBVIOUS
<1>13. ChangesFit(C \cup {e}, chart', u)
  <2>1. ChangesFit(C, chart, u)
    BY <1>12 DEF OrgInv
  <2>2. e.at = s /\ e.before = e.seen /\ e.version = chart[s].version + 1 /\ e.after = k.after
        /\ e.before = k.before
    BY <1>1, <1>10
  <2>3. /\ chart'[s].version = e.version /\ chart'[s].nodes = e.after
        /\ \A t \in Scopes : t # s => chart'[t].version = chart[t].version
    BY <1>1, <1>2, <1>10
  <2>4. chart[s].version # 0 => e.before = chart[s].nodes
    BY <1>1, <2>2
  <2> QED
    BY <1>1, <1>3, <1>4, <2>1, <2>2, <2>3, <2>4, ChangeMade, ZenonT(60)
<1>14. ChangesFit(Changes', chart', unlogged')
  BY <1>11, <1>12, <1>13
<1> QED
  BY <1>9, <1>14, RoutedStays DEF OrgInv

LEMMA InsertChartKeeps ==
  ASSUME OrgInv, NEW j \in Jobs, InsertChart(j)
  PROVE  OrgInv'
<1>1. /\ job[j].pc = "insert" /\ job[j].at \in Scopes
      /\ UNCHANGED <<scope, active, history, unlogged, routed>>
  BY DEF InsertChart, OrgInv, ChartCallsFit, ChartCallFits
<1>2. PICK s \in Scopes : s = job[j].at
  BY <1>1
<1>3. PICK old : old = job[j] /\ DOMAIN old = ChartCallFields
                 /\ old.seen = NoNodes /\ old.before = NoNodes /\ old.after = NoNodes
  BY <1>1 DEF OrgInv, OrgType, ChartCallsFit, ChartCallFits
<1>4. CASE chart[s].status = "none"
  <2>1. /\ chart' = [chart EXCEPT ![s] = NewChart] /\ UNCHANGED page
        /\ job' = [Races(job) EXCEPT ![j].pc = "log", ![j].version = 1]
    BY <1>2, <1>4 DEF InsertChart
  <2>2. PICK l : l = Races(job)[j] /\ Alike(old, l)
    BY <1>3, RacesAlike
  <2>3. PICK k : k = [l EXCEPT !.pc = "log", !.version = 1]
    OBVIOUS
  <2>4. /\ DOMAIN k = ChartCallFields /\ k.pc = "log" /\ k.version = 1 /\ k.at = s
        /\ k.seen = NoNodes /\ k.before = NoNodes /\ k.after = NoNodes
    BY <1>2, <1>3, <2>2, <2>3 DEF ChartCallFields, Alike
  <2>5. job' = [Races(job) EXCEPT ![j] = k]
    BY <2>1, <2>2, <2>3, RacesAlike
  <2>6. chart[s].version = 0
    BY <1>4 DEF OrgInv, ChartsFit
  <2>7. PICK c : c = NewChart
    OBVIOUS
  <2>8. c.version = 1 /\ c.nodes = NoNodes /\ c.status # "none" /\ ValidNodes(NoNodes)
    BY <2>7 DEF NewChart, ValidNodes, NoNodes
  <2>9. chart' = [chart EXCEPT ![k.at] = c]
    BY <2>1, <2>4, <2>7
  <2>10. /\ k.at \in Scopes /\ k.before = k.seen /\ k.version = chart[k.at].version + 1
         /\ ValidNodes(k.after) /\ chart[k.at].version = 0
         /\ c.version = k.version /\ c.nodes = k.after /\ c.status # "none"
    BY <2>4, <2>6, <2>8
  <2>11. job[j].pc # "log" /\ UNCHANGED <<scope, active, page, history, unlogged, routed>>
    BY <1>1, <2>1
  <2>12. DOMAIN k = ChartCallFields /\ k.pc = "log"
    BY <2>4
  <2>13. chart[k.at].version # 0 => k.before = chart[k.at].nodes
    BY <2>10
  <2> QED
    BY <2>5, <2>9, <2>10, <2>11, <2>12, <2>13, ChartWritten
<1>5. CASE chart[s].status # "none"
  <2>1. PICK g : g = [at |-> s, chart |-> chart[s]]
    OBVIOUS
  <2>2. page' = [page EXCEPT ![job[j].page] = g] /\ JobEnds(j) /\ UNCHANGED chart
    BY <1>2, <1>5, <2>1 DEF InsertChart
  <2>3. DOMAIN page' = Pages /\ \A p \in Pages : page'[p] = page[p] \/ page'[p] = g
    BY <2>2 DEF OrgInv, OrgType
  <2>4. PageFits(g, chart)
    BY <1>5, <2>1 DEF PageFits, Shows, OrgInv, ChartsFit
  <2>5. \A p \in Pages : PageFits(page'[p], chart)
    BY <2>3, <2>4 DEF OrgInv, PagesFit
  <2> QED
    BY <1>1, <2>2, <2>3, <2>5, RoutedStays, CallEnds
<1> QED
  BY <1>4, <1>5

LEMMA ReplaceChartKeeps ==
  ASSUME OrgInv, NEW j \in Jobs, ReplaceChart(j)
  PROVE  OrgInv'
<1>1. /\ job[j].pc = "replace"
      /\ UNCHANGED <<scope, active, page, history, unlogged, routed>>
  BY DEF ReplaceChart
<1>2. PICK old : old = job[j] /\ DOMAIN old = ChartCallFields /\ ChartCallFits(old, chart)
  BY DEF OrgInv, OrgType, ChartCallsFit
<1>3. PICK s \in Scopes : s = old.at
  BY <1>1, <1>2 DEF ChartCallFits
<1>4. CASE chart[s].version = old.version
  <2>1. PICK n \in Nat : n = chart[s].version
    BY DEF OrgInv, ChartsFit
  <2>2. PICK c : c = [status |-> old.status, version |-> n + 1, nodes |-> old.after]
    OBVIOUS
  <2>3. /\ chart' = [chart EXCEPT ![s] = c]
        /\ job' = [Races(job) EXCEPT ![j].pc = "log", ![j].version = n + 1]
    BY <1>2, <1>3, <1>4, <2>1, <2>2 DEF ReplaceChart, IsCurrent
  <2>4. PICK l : l = Races(job)[j] /\ Alike(old, l)
    BY <1>2, RacesAlike
  <2>5. PICK k : k = [l EXCEPT !.pc = "log", !.version = n + 1]
    OBVIOUS
  <2>6. /\ DOMAIN k = ChartCallFields /\ k.pc = "log" /\ k.version = n + 1 /\ k.at = s
        /\ k.seen = old.seen /\ k.before = old.before /\ k.after = old.after
    BY <1>2, <1>3, <2>4, <2>5 DEF ChartCallFields, Alike
  <2>7. job' = [Races(job) EXCEPT ![j] = k]
    BY <2>3, <2>4, <2>5, RacesAlike
  <2>8. /\ old.seen = chart[s].nodes /\ old.before = chart[s].nodes
        /\ ValidNodes(old.after) /\ old.status # "none"
    BY <1>1, <1>2, <1>3, <1>4 DEF ChartCallFits, Shows
  <2>9. chart' = [chart EXCEPT ![k.at] = c] /\ c.version = k.version /\ c.nodes = k.after
        /\ c.status # "none"
    BY <2>2, <2>3, <2>6, <2>8
  <2>10. /\ k.at \in Scopes /\ k.before = k.seen /\ k.version = chart[k.at].version + 1
         /\ ValidNodes(k.after) /\ k.before = chart[k.at].nodes
    BY <2>1, <2>6, <2>8
  <2> QED
    BY <1>1, <2>6, <2>7, <2>9, <2>10, ChartWritten
<1>5. CASE chart[s].version # old.version
  <2>1. JobEnds(j) /\ UNCHANGED chart
    BY <1>2, <1>3, <1>5 DEF ReplaceChart, IsCurrent
  <2> QED
    BY <1>1, <2>1, PagesStay, RoutedStays, CallEnds
<1> QED
  BY <1>4, <1>5

(* A handler that has replaced a chart is done.                            *)
LEMMA CallLogged ==
  ASSUME OrgInv, NEW j \in Jobs, job[j].pc = "log", JobEnds(j),
         UNCHANGED <<chart, scope, active, routed>>,
         DOMAIN page' = Pages, \A p \in Pages : PageFits(page'[p], chart),
         history \subseteq history', history' \subseteq history \cup {Entry(j)},
         unlogged \subseteq unlogged',
         Entry(j) \in history' \/ <<job[j].at, job[j].version>> \in unlogged'
  PROVE  OrgInv'
<1>1. PICK k : k = NoJob
  OBVIOUS
<1>2. job' = [job EXCEPT ![j] = k]
  BY <1>1 DEF JobEnds
<1>3. DOMAIN k = ChartCallFields /\ k.pc = "idle" /\ ChartCallFits(k, chart) /\ RouteFits(k)
  BY <1>1, NoJobFits DEF RouteFits
<1>4. OrgType' /\ ChartsFit(chart)' /\ PagesFit' /\ ChartCallsFit' /\ RoutesFit'
  BY <1>2, <1>3, CallMoves
<1>5. DOMAIN job' = Jobs /\ \A i \in Jobs : job'[i] = IF i = j THEN k ELSE job[i]
  BY <1>2 DEF OrgInv, OrgType
<1>6. Logging' = Logging \ {j} /\ \A i \in Logging \ {j} : Entry(i)' = Entry(i)
  BY <1>3, <1>5 DEF Logging, Entry
<1>7. PICK e : e = Entry(j) /\ e.at = job[j].at /\ e.version = job[j].version
  BY DEF Entry
<1>8. j \in Logging
  BY DEF Logging
<1>9. Changes' \subseteq Changes
  BY <1>6, <1>8 DEF Changes
<1>10. \A c \in Changes : c \in Changes' \/ c = e
  BY <1>6, <1>7 DEF Changes
<1>11. e \in Changes' \/ <<e.at, e.version>> \in unlogged'
  BY <1>7 DEF Changes
<1>12. \A c \in Changes : c \in Changes' \/ <<c.at, c.version>> \in unlogged'
  BY <1>10, <1>11
<1>13. PICK C, D, u, w : C = Changes /\ D = Changes' /\ u = unlogged /\ w = unlogged'
  OBVIOUS
<1>14. ChangesFit(D, chart, w)
  BY <1>9, <1>12, <1>13, ChangeLost DEF OrgInv
<1>15. ChangesFit(Changes', chart', unlogged')
  BY <1>13, <1>14
<1> QED
  BY <1>4, <1>15, RoutedStays DEF OrgInv

LEMMA LogChangeKeeps ==
  ASSUME OrgInv, NEW j \in Jobs, LogChange(j)
  PROVE  OrgInv'
<1>1. /\ job[j].pc = "log" /\ JobEnds(j) /\ history' = history \cup {Entry(j)}
      /\ UNCHANGED <<chart, scope, active, unlogged, routed>>
  BY DEF LogChange
<1>2. PICK c : c = [status |-> IF job[j].op = "create" THEN "DRAFT" ELSE job[j].status,
                    version |-> job[j].version, nodes |-> job[j].after]
  OBVIOUS
<1>3. PICK g : g = [at |-> job[j].at, chart |-> c]
  OBVIOUS
<1>4. page' = [page EXCEPT ![job[j].page] = g]
  BY <1>2, <1>3 DEF LogChange
<1>5. DOMAIN page' = Pages /\ \A p \in Pages : page'[p] = page[p] \/ page'[p] = g
  BY <1>4 DEF OrgInv, OrgType
<1>6. PICK e : e = Entry(j)
  OBVIOUS
<1>7. e \in Changes
  BY <1>1, <1>6 DEF Changes, Logging
<1>8. ChangeFits(e, chart)
  BY <1>7 DEF OrgInv, ChangesFit
<1>9. e.at = job[j].at /\ e.version = job[j].version /\ e.after = job[j].after
  BY <1>6 DEF Entry
<1>10. PageFits(g, chart)
  BY <1>1, <1>2, <1>3, <1>9, <1>8
  DEF PageFits, ChangeFits, OrgInv, ChartCallsFit, ChartCallFits
<1>11. \A p \in Pages : PageFits(page'[p], chart)
  BY <1>5, <1>10 DEF OrgInv, PagesFit
<1> QED
  BY <1>1, <1>5, <1>11, CallLogged

LEMMA LogFailsKeeps ==
  ASSUME OrgInv, NEW j \in Jobs, LogFails(j)
  PROVE  OrgInv'
<1>1. /\ job[j].pc = "log" /\ JobEnds(j)
      /\ unlogged' = unlogged \cup {<<job[j].at, job[j].version>>}
      /\ UNCHANGED <<chart, scope, active, page, history, routed>>
  BY DEF LogFails
<1> QED
  BY <1>1, PagesStay, CallLogged

LEMMA OrgInvInit == OrgChartInit => OrgInv
<1> SUFFICES ASSUME OrgChartInit PROVE OrgInv
  OBVIOUS
<1>1. PICK seed \in Seeds : chart = seed.chart /\ scope = seed.scope
  BY DEF OrgChartInit
<1>2. /\ DOMAIN chart = Scopes /\ scope \in [Users -> Scopes \cup {Null}] /\ ChartsFit(chart)
  BY <1>1, OrgChartSeeds DEF ChartsFit, IsChart
<1>3. /\ DOMAIN page = Pages /\ DOMAIN job = Jobs /\ \A j \in Jobs : job[j] = NoJob
      /\ \A p \in Pages : page[p].at = Null
      /\ active = Users /\ history = {} /\ unlogged = {} /\ routed = {}
  BY DEF OrgChartInit
<1>4. OrgType /\ PagesFit /\ RoutedAbove
  BY <1>2, <1>3, NoJobFits DEF OrgType, PagesFit, PageFits, RoutedAbove
<1>5. ChartCallsFit /\ RoutesFit
  BY <1>3, NoJobFits DEF ChartCallsFit, RoutesFit, RouteFits
<1>6. Changes = {}
  BY <1>3, NoJobFits DEF Changes, Logging
<1>7. ChangesFit(Changes, chart, unlogged)
  BY <1>6 DEF ChangesFit
<1> QED
  BY <1>2, <1>4, <1>5, <1>7 DEF OrgInv

LEMMA OrgInvStep == OrgInv /\ [OrgChartNext]_chartVars => OrgInv'
<1> SUFFICES ASSUME OrgInv, [OrgChartNext]_chartVars PROVE OrgInv'
  OBVIOUS
<1>1. CASE \E p \in Pages, s \in Scopes : OpenPage(p, s) \/ \E j \in Jobs : CreateChart(j, p, s)
  BY <1>1, OpenPageKeeps, CreateChartKeeps
<1>2. CASE \E j \in Jobs, p \in Pages :
             AddCall(j, p) \/ RemoveCall(j, p) \/ ActivateCall(j, p) \/ ArchiveCall(j, p)
  BY <1>2, PageCallsKeep
<1>3. CASE \E j \in Jobs : InsertChart(j) \/ ReplaceChart(j) \/ LogChange(j) \/ LogFails(j)
  BY <1>3, InsertChartKeeps, ReplaceChartKeeps, LogChangeKeeps, LogFailsKeeps
<1>4. CASE \E j \in Jobs : \/ MoveCall(j) \/ SubmitCall(j) \/ WriteScope(j)
                           \/ ResolveTarget(j) \/ ValidateTarget(j) \/ BuildAssignment(j)
  BY <1>4, MoveCallKeeps, SubmitCallKeeps, WriteScopeKeeps, ResolveTargetKeeps,
     ValidateTargetKeeps, BuildAssignmentKeeps
<1>5. CASE \E u \in Users : SetActive(u)
  BY <1>5, SetActiveKeeps
<1>6. CASE UNCHANGED chartVars
  <2>1. UNCHANGED <<chart, scope, active, page, job, history, unlogged, routed>>
    BY <1>6 DEF chartVars
  <2>2. Changes' = Changes
    BY <2>1 DEF Changes, Logging, Entry
  <2> QED
    BY <2>1, <2>2
    DEF OrgInv, OrgType, PagesFit, ChartCallsFit, RoutesFit, RouteFits, MayRoute, Located,
        Targets, Superiors, Eligible, RoutedAbove
<1> QED
  BY <1>1, <1>2, <1>3, <1>4, <1>5, <1>6 DEF OrgChartNext

(* The inductive invariant of the charts: what pages and handlers hold of  *)
(* a chart is what it held at the version they name, and the changes made  *)
(* and not lost follow each other (hierarchy.service.js mutate).           *)
THEOREM OrgInvariant == OrgChartSpec => []OrgInv
BY OrgInvInit, OrgInvStep, PTL DEF OrgChartSpec

(* The history of every chart is a chain, for any number of pages and      *)
(* handlers, calls that fail half way among them (hierarchy.repository.js  *)
(* replaceVersioned, recordHistory).                                       *)
THEOREM HistoryIsAChain == OrgChartSpec => []HistoryChains
<1>1. OrgInv => HistoryChains
  <2> SUFFICES ASSUME OrgInv PROVE HistoryChains
    OBVIOUS
  <2>1. ChangesFit(Changes, chart, unlogged) /\ history \subseteq Changes
    BY DEF OrgInv, Changes
  <2>2. \A e, f \in history : e.at = f.at /\ f.version = e.version + 1 => f.before = e.after
    BY <2>1 DEF ChangesFit
  <2>3. \A e \in history : chart[e.at].version = e.version => chart[e.at].nodes = e.after
    BY <2>1 DEF ChangesFit, ChangeFits, Shows
  <2>4. \A e, f \in history : e.at = f.at /\ e.version = f.version => e = f
    BY <2>1 DEF ChangesFit
  <2>5. ASSUME NEW e \in history, NEW v \in e.version + 1 .. chart[e.at].version
        PROVE  \/ <<e.at, v>> \in unlogged \/ InFlight(e.at, v)
               \/ \E f \in history : f.at = e.at /\ f.version = v
    <3>1. ChangeTold(Changes, unlogged, e.at, v)
      BY <2>1, <2>5 DEF ChangesFit
    <3>2. \A d \in Changes : d.at = e.at /\ d.version = v => d \in history \/ InFlight(e.at, v)
      BY DEF Changes, Logging, Entry, InFlight
    <3> QED
      BY <3>1, <3>2 DEF ChangeTold
  <2> QED
    BY <2>2, <2>3, <2>4, <2>5 DEF HistoryChains
<1> QED
  BY <1>1, OrgInvariant, PTL

(* No edit of one page is lost to another's: what was accepted was made to *)
(* the nodes its page showed (expectedVersion).                            *)
THEOREM EditsMadeAsSeen == OrgChartSpec => []EditedAsSeen
<1>1. OrgInv => EditedAsSeen
  BY DEF OrgInv, ChangesFit, ChangeFits, Changes, EditedAsSeen
<1> QED
  BY <1>1, OrgInvariant, PTL

(* A request goes to superiors who may approve, never to its own requester *)
(* and never round the chart, unless the organisation changed on the way   *)
(* (hierarchy.service.js validateTarget, approval-engine.service.js        *)
(* buildAssignment).                                                       *)
THEOREM RequestsGoUp == OrgChartSpec => []RoutedAbove
<1>1. OrgInv => RoutedAbove
  BY DEF OrgInv
<1> QED
  BY <1>1, OrgInvariant, PTL

----------------------------------------------------------------------------
(* What an edit of a chart leaves of the others.                           *)

(* Each of S stands below those that it comes before: the ranks are        *)
(* 0, 1, 2, ...                                                            *)
LEMMA RanksFill ==
  ASSUME NEW S, IsFiniteSet(S), NEW before, before \in [S -> SUBSET S],
         \A u \in S : u \notin before[u],
         \A u, v \in S : u # v => \/ before[u] \subseteq before[v] /\ u \in before[v]
                                  \/ before[v] \subseteq before[u] /\ v \in before[u]
  PROVE  {Cardinality(before[u]) : u \in S} = 0 .. Cardinality(S) - 1
<1> DEFINE n == Cardinality(S)
           rank == [u \in S |-> Cardinality(before[u])]
<1>1. n \in Nat
  BY FS_CardinalityType
<1>2. \A u \in S : before[u] \in SUBSET S /\ IsFiniteSet(before[u]) /\ Cardinality(before[u]) \in Nat
  BY FS_Subset, FS_CardinalityType
<1>3. \A u \in S : Cardinality(before[u]) <= n - 1
  <2> SUFFICES ASSUME NEW u \in S
               PROVE  Cardinality(before[u]) <= n - 1
    OBVIOUS
  <2>1. before[u] \in SUBSET S /\ before[u] # S
    OBVIOUS
  <2>2. Cardinality(before[u]) <= Cardinality(S) /\ Cardinality(before[u]) # Cardinality(S)
    BY <2>1, FS_Subset
  <2> QED
    BY <1>1, <1>2, <2>2
<1>4. \A u, v \in S : before[u] \subseteq before[v] /\ u \in before[v] =>
                        Cardinality(before[u]) # Cardinality(before[v])
  <2> SUFFICES ASSUME NEW u \in S, NEW v \in S, before[u] \subseteq before[v], u \in before[v]
               PROVE  Cardinality(before[u]) # Cardinality(before[v])
    OBVIOUS
  <2>1. before[u] # before[v] /\ IsFiniteSet(before[v])
    BY <1>2
  <2> QED
    BY <2>1, FS_Subset
<1>5. rank \in Injection(S, 0 .. n - 1)
  <2>1. rank \in [S -> 0 .. n - 1]
    BY <1>1, <1>2, <1>3
  <2>2. \A u, v \in S : rank[u] = rank[v] => u = v
    BY <1>4
  <2> QED
    BY <2>1, <2>2 DEF Injection, IsInjective
<1>6. IsFiniteSet(0 .. n - 1) /\ Cardinality(0 .. n - 1) = n
  <2>1. PICK i \in Nat, j \in Int : i = n /\ j = n - 1
    BY <1>1
  <2>2. IsFiniteSet(0 .. j) /\ Cardinality(0 .. j) = IF 0 > j THEN 0 ELSE j - 0 + 1
    BY FS_Interval
  <2>3. IsFiniteSet(0 .. j) /\ Cardinality(0 .. j) = i
    BY <2>1, <2>2
  <2> QED
    BY <2>1, <2>3
<1>7. rank \in Surjection(S, 0 .. n - 1)
  <2>1. PICK T, f : T = 0 .. n - 1 /\ f = rank
    OBVIOUS
  <2>2. f \in Injection(S, T) /\ IsFiniteSet(T) /\ Cardinality(S) = Cardinality(T)
    BY <1>5, <1>6, <2>1
  <2>3. f \in Surjection(S, T)
    BY <2>2, FS_Injection
  <2> QED
    BY <2>1, <2>3
<1>8. {rank[u] : u \in S} = 0 .. n - 1
  BY <1>5, <1>7 DEF Surjection, Injection
<1> QED
  BY <1>8

(* Where the orders of S are 0, 1, 2, ..., an order is the number of those *)
(* that have a lower one.                                                  *)
LEMMA OrdersCount ==
  ASSUME NEW S, IsFiniteSet(S), NEW ord, ord \in [S -> Nat],
         {ord[u] : u \in S} = 0 .. Cardinality(S) - 1, NEW m \in Nat, m <= Cardinality(S)
  PROVE  /\ \A u, v \in S : ord[u] = ord[v] => u = v
         /\ \A u \in S : ord[u] < Cardinality(S)
         /\ Cardinality({u \in S : ord[u] < m}) = m
<1> DEFINE n == Cardinality(S)
<1>0. n \in Nat
  BY FS_CardinalityType
<1>1. IsFiniteSet(0 .. n - 1) /\ Cardinality(0 .. n - 1) = n
  <2>1. 0 \in Int /\ n - 1 \in Int
    BY <1>0
  <2>2. IsFiniteSet(0 .. n - 1) /\ Cardinality(0 .. n - 1) = IF 0 > n - 1 THEN 0 ELSE (n - 1) - 0 + 1
    BY <2>1, FS_Interval
  <2> QED
    BY <1>0, <2>2
<1>2. ord \in Surjection(S, 0 .. n - 1)
  BY DEF Surjection
<1>3. ord \in Injection(S, 0 .. n - 1)
  BY <1>0, <1>1, <1>2, FS_SurjSameCardinalityImpliesInj
<1>4. \A u, v \in S : ord[u] = ord[v] => u = v
  BY <1>3 DEF Injection, IsInjective
<1>5. \A u \in S : ord[u] \in 0 .. n - 1
  OBVIOUS
<1> DEFINE low == {u \in S : ord[u] < m}
           f == [u \in low |-> ord[u]]
<1>6. IsFiniteSet(low)
  BY FS_Subset
<1>7. \A k \in 0 .. m - 1 : \E u \in low : f[u] = k
  <2> SUFFICES ASSUME NEW k \in 0 .. m - 1
               PROVE  \E u \in low : f[u] = k
    OBVIOUS
  <2>1. k \in 0 .. n - 1
    BY <1>0
  <2>2. PICK u \in S : ord[u] = k
    BY <2>1
  <2> QED
    BY <2>2
<1>8. f \in Bijection(low, 0 .. m - 1)
  <2>1. f \in [low -> 0 .. m - 1]
    BY <1>5
  <2>2. \A u, v \in low : f[u] = f[v] => u = v
    BY <1>4
  <2> QED
    BY <1>7, <2>1, <2>2 DEF Bijection, Injection, Surjection, IsInjective
<1>9. Cardinality(0 .. m - 1) = Cardinality(low)
  BY <1>6, <1>8, FS_Bijection DEF ExistsBijection
<1>10. Cardinality(0 .. m - 1) = m
  BY FS_Interval
<1> QED
  BY <1>0, <1>4, <1>5, <1>9, <1>10

(* Nodes of charts: users with an id, a parent and an order.               *)
ChartNode == [id : Nat, parent : Users \cup {Null}, order : Nat]
NodesTyped(n) == DOMAIN n \subseteq Users /\ \A u \in DOMAIN n : n[u] \in ChartNode
NodesFit(n) == NodesTyped(n) /\ \A u, v \in DOMAIN n : n[u].id = n[v].id => u = v

LEMMA SiblingsFinite ==
  ASSUME NEW n, NodesTyped(n), NEW u
  PROVE  IsFiniteSet(Siblings(n, u)) /\ Siblings(n, u) \subseteq DOMAIN n
BY OrgChartAssumption, FS_Subset DEF NodesTyped, Siblings

(* Those that stand before u among its siblings.                           *)
Before(n, u) == {v \in Siblings(n, u) : Precedes(n[v], n[u])}

LEMMA NormalizedIs ==
  ASSUME NEW n, NodesTyped(n), NEW m, m = NormalizeSortOrder(n)
  PROVE  /\ DOMAIN m = DOMAIN n
         /\ \A u \in DOMAIN n : /\ m[u] \in ChartNode /\ m[u].id = n[u].id /\ m[u].parent = n[u].parent
                                 /\ m[u].order = Cardinality(Before(n, u))
         /\ \A u \in DOMAIN n : Siblings(m, u) = Siblings(n, u)
<1>1. \A u \in DOMAIN n : IsFiniteSet(Before(n, u)) /\ Cardinality(Before(n, u)) \in Nat
  <2> SUFFICES ASSUME NEW u \in DOMAIN n
               PROVE  IsFiniteSet(Before(n, u)) /\ Cardinality(Before(n, u)) \in Nat
    OBVIOUS
  <2>1. IsFiniteSet(Before(n, u))
    BY SiblingsFinite, FS_Subset DEF Before
  <2> QED
    BY <2>1, FS_CardinalityType
<1>2. m = [u \in DOMAIN n |-> [n[u] EXCEPT !.order = Cardinality(Before(n, u))]]
  BY DEF NormalizeSortOrder, Before
<1>3. \A u \in DOMAIN n : /\ m[u] \in ChartNode /\ m[u].id = n[u].id /\ m[u].parent = n[u].parent
                          /\ m[u].order = Cardinality(Before(n, u))
  <2> SUFFICES ASSUME NEW u \in DOMAIN n
               PROVE  /\ m[u] \in ChartNode /\ m[u].id = n[u].id /\ m[u].parent = n[u].parent
                      /\ m[u].order = Cardinality(Before(n, u))
    OBVIOUS
  <2>1. PICK k \in Nat : k = Cardinality(Before(n, u))
    BY <1>1
  <2>2. m[u] = [n[u] EXCEPT !.order = k] /\ n[u] \in ChartNode
    BY <1>2, <2>1 DEF NodesTyped
  <2> QED
    BY <2>1, <2>2 DEF ChartNode
<1>4. DOMAIN m = DOMAIN n
  BY <1>2
<1>5. \A u \in DOMAIN n : Siblings(m, u) = Siblings(n, u)
  BY <1>3, <1>4 DEF Siblings
<1> QED
  BY <1>3, <1>4, <1>5

(* Of two siblings one precedes the other, and all that it has before it.  *)
LEMMA SiblingsInLine ==
  ASSUME NEW n, NodesFit(n), NEW u \in DOMAIN n, NEW v \in Siblings(n, u)
  PROVE  /\ Siblings(n, v) = Siblings(n, u) /\ u \in Siblings(n, v) /\ u \notin Before(n, u)
         /\ u # v => Precedes(n[u], n[v]) \/ Precedes(n[v], n[u])
         /\ Precedes(n[u], n[v]) => Before(n, u) \subseteq Before(n, v) /\ u \in Before(n, v)
         /\ Precedes(n[v], n[u]) => Before(n, v) \subseteq Before(n, u) /\ v \in Before(n, u)
<1>1. v \in DOMAIN n /\ n[v].parent = n[u].parent
  BY DEF Siblings
<1>2. Siblings(n, v) = Siblings(n, u) /\ u \in Siblings(n, v)
  BY <1>1 DEF Siblings
<1>3. \A w \in DOMAIN n : n[w].id \in Nat /\ n[w].order \in Nat
  BY DEF NodesFit, NodesTyped, ChartNode
<1>4. \A w \in Siblings(n, u) : w \in DOMAIN n
  BY DEF Siblings
<1>5. \A a, b, c \in DOMAIN n : Precedes(n[a], n[b]) /\ Precedes(n[b], n[c]) => Precedes(n[a], n[c])
  BY <1>3 DEF Precedes
<1>6. \A a \in DOMAIN n : ~Precedes(n[a], n[a])
  BY <1>3 DEF Precedes
<1>7. u # v => Precedes(n[u], n[v]) \/ Precedes(n[v], n[u])
  <2>1. u # v => n[u].id # n[v].id
    BY <1>1 DEF NodesFit
  <2> QED
    BY <1>1, <1>3, <2>1 DEF Precedes
<1> QED
  BY <1>1, <1>2, <1>4, <1>5, <1>6, <1>7 DEF Before

(* normalizeSortOrder numbers siblings without a gap ...                   *)
LEMMA NormalizedIsDense ==
  ASSUME NEW n, NodesFit(n)
  PROVE  Dense(NormalizeSortOrder(n))
<1>1. PICK m : m = NormalizeSortOrder(n)
  OBVIOUS
<1>2. ASSUME NEW u \in DOMAIN n
      PROVE  {m[v].order : v \in Siblings(m, u)} = 0 .. Cardinality(Siblings(m, u)) - 1
  <2>1. PICK S : S = Siblings(n, u)
    OBVIOUS
  <2>2. PICK before : before = [v \in S |-> Before(n, v)]
    OBVIOUS
  <2>3. IsFiniteSet(S) /\ S \subseteq DOMAIN n
    BY <2>1, SiblingsFinite DEF NodesFit
  <2>4. \A v \in S : Siblings(n, v) = S
    BY <1>2, <2>1, SiblingsInLine
  <2>5. before \in [S -> SUBSET S]
    BY <2>2, <2>4 DEF Before
  <2>6. \A v \in S : v \notin before[v]
    BY <2>2, <2>3, <2>4, SiblingsInLine
  <2>7. \A v, w \in S : v # w => \/ before[v] \subseteq before[w] /\ v \in before[w]
                                 \/ before[w] \subseteq before[v] /\ w \in before[v]
    BY <2>2, <2>3, <2>4, SiblingsInLine
  <2>8. {Cardinality(before[v]) : v \in S} = 0 .. Cardinality(S) - 1
    BY <2>3, <2>5, <2>6, <2>7, RanksFill
  <2>9. \A v \in S : m[v].order = Cardinality(before[v])
    BY <1>1, <2>2, <2>3, NormalizedIs DEF NodesFit
  <2>10. Siblings(m, u) = S
    BY <1>1, <2>1, NormalizedIs DEF NodesFit
  <2> QED
    BY <2>8, <2>9, <2>10
<1>3. DOMAIN m = DOMAIN n
  BY <1>1, NormalizedIs DEF NodesFit
<1> QED
  BY <1>1, <1>2, <1>3 DEF Dense

(* ... and keeps the order they were in.                                   *)
LEMMA NormalizedKeepsOrder ==
  ASSUME NEW n, NodesFit(n), NEW u \in DOMAIN n, NEW v \in DOMAIN n, Leads(n, u, v)
  PROVE  Leads(NormalizeSortOrder(n), u, v)
<1>1. PICK m : m = NormalizeSortOrder(n)
  OBVIOUS
<1>2. v \in Siblings(n, u) /\ Precedes(n[u], n[v])
  BY DEF Leads, Siblings, Precedes
<1>3. Before(n, u) \subseteq Before(n, v) /\ u \in Before(n, v) /\ u \notin Before(n, u)
  BY <1>2, SiblingsInLine
<1>4. IsFiniteSet(Before(n, v))
  BY SiblingsFinite, FS_Subset DEF Before, NodesFit
<1>5. /\ Cardinality(Before(n, u)) <= Cardinality(Before(n, v))
      /\ Cardinality(Before(n, u)) # Cardinality(Before(n, v))
  <2>1. Before(n, u) \in SUBSET Before(n, v) /\ Before(n, u) # Before(n, v)
    BY <1>3
  <2> QED
    BY <1>4, <2>1, FS_Subset
<1>6. m[u].order = Cardinality(Before(n, u)) /\ m[v].order = Cardinality(Before(n, v))
      /\ m[u].parent = n[u].parent /\ m[v].parent = n[v].parent
      /\ m[u].order \in Nat /\ m[v].order \in Nat
  BY <1>1, NormalizedIs DEF NodesFit, ChartNode
<1> QED
  BY <1>1, <1>5, <1>6 DEF Leads

(* The place that addNode gives to the new node.                           *)
NewParent(n, relation, anchor) ==
  CASE relation = "ROOT" -> Null [] relation = "CHILD" -> anchor [] OTHER -> n[anchor].parent
NewOrder(n, relation, anchor) ==
  CASE relation = "ROOT" -> Cardinality(DOMAIN n)
    [] relation = "CHILD" -> Cardinality(Children(n, anchor))
    [] relation = "SIBLING_AFTER" -> n[anchor].order + 1
    [] OTHER -> n[anchor].order

(* The nodes m, and u in its place among them, with room made for it.      *)
Placed(n, m, u, relation, anchor, id) ==
  /\ DOMAIN m = DOMAIN n \cup {u} /\ NodesTyped(m)
  /\ m[u] = [id |-> id, parent |-> NewParent(n, relation, anchor),
             order |-> NewOrder(n, relation, anchor)]
  /\ \A v \in DOMAIN n :
       /\ m[v].id = n[v].id
       /\ m[v].parent = IF relation = "PARENT" /\ v = anchor THEN u ELSE n[v].parent
       /\ m[v].order = IF relation # "ROOT" /\ m[v].parent = m[u].parent /\ n[v].order >= m[u].order
                        THEN n[v].order + 1 ELSE n[v].order

LEMMA NewPlaceFits ==
  ASSUME NEW n, NodesTyped(n), NEW u \in Users, NEW relation \in Relations, NEW anchor,
         CanAdd(n, u, relation, anchor)
  PROVE  /\ NewParent(n, relation, anchor) \in Users \cup {Null}
         /\ NewOrder(n, relation, anchor) \in Nat
<1>1. IsFiniteSet(DOMAIN n) /\ Cardinality(DOMAIN n) \in Nat
  <2>1. IsFiniteSet(DOMAIN n)
    BY OrgChartAssumption, FS_Subset DEF NodesTyped
  <2> QED
    BY <2>1, FS_CardinalityType
<1>2. Cardinality(Children(n, anchor)) \in Nat
  <2>1. IsFiniteSet(Children(n, anchor))
    BY <1>1, FS_Subset DEF Children
  <2> QED
    BY <2>1, FS_CardinalityType
<1>3. relation # "ROOT" => /\ anchor \in DOMAIN n /\ anchor \in Users
                           /\ n[anchor].parent \in Users \cup {Null} /\ n[anchor].order \in Nat
  BY DEF CanAdd, NodesTyped, ChartNode
<1>4. NewParent(n, relation, anchor) \in Users \cup {Null}
  BY <1>3 DEF NewParent
<1>5. NewOrder(n, relation, anchor) \in Nat
  BY <1>1, <1>2, <1>3 DEF NewOrder
<1> QED
  BY <1>4, <1>5

LEMMA AddNodeIs ==
  ASSUME NEW n, NodesTyped(n), NEW u \in Users, NEW relation \in Relations, NEW anchor,
         CanAdd(n, u, relation, anchor), NEW id \in Nat
  PROVE  \E m : Placed(n, m, u, relation, anchor, id)
                /\ AddNode(n, u, relation, anchor, id) = NormalizeSortOrder(m)
<1>1. PICK q \in Users \cup {Null} : q = NewParent(n, relation, anchor)
  BY NewPlaceFits
<1>2. PICK o \in Nat : o = NewOrder(n, relation, anchor)
  BY NewPlaceFits
<1>3. PICK new \in ChartNode : new = [id |-> id, parent |-> q, order |-> o]
  BY <1>1, <1>2 DEF ChartNode
<1>4. u \notin DOMAIN n /\ (relation # "ROOT" => anchor \in DOMAIN n)
  BY DEF CanAdd
<1>5. DOMAIN n \subseteq Users /\ \A v \in DOMAIN n : n[v] \in ChartNode
  BY DEF NodesTyped
<1>6. CASE relation = "ROOT"
  <2>1. PICK m : m = With(n, u, new)
    OBVIOUS
  <2>2. /\ DOMAIN m = DOMAIN n \cup {u} /\ m[u] = new /\ \A v \in DOMAIN n : m[v] = n[v]
    BY <1>4, <2>1 DEF With
  <2>3. AddNode(n, u, relation, anchor, id) = NormalizeSortOrder(m)
    BY <1>1, <1>2, <1>3, <1>6, <2>1 DEF AddNode, NewParent, NewOrder
  <2>4. NodesTyped(m)
    BY <1>5, <2>2 DEF NodesTyped
  <2>5. Placed(n, m, u, relation, anchor, id)
    BY <1>1, <1>2, <1>3, <1>6, <2>2, <2>4 DEF Placed
  <2> QED
    BY <2>3, <2>5
<1>7. CASE relation # "ROOT"
  <2>1. PICK moved : moved = IF relation = "PARENT" THEN [n EXCEPT ![anchor].parent = u] ELSE n
    OBVIOUS
  <2>2. /\ DOMAIN moved = DOMAIN n
        /\ \A v \in DOMAIN n :
             /\ moved[v] \in ChartNode /\ moved[v].id = n[v].id /\ moved[v].order = n[v].order
             /\ moved[v].parent = IF relation = "PARENT" /\ v = anchor THEN u ELSE n[v].parent
    <3>1. CASE relation = "PARENT"
      <4>1. moved = [n EXCEPT ![anchor] = [n[anchor] EXCEPT !.parent = u]]
        BY <2>1, <3>1
      <4>2. PICK a \in ChartNode : a = n[anchor]
        BY <1>4, <1>5, <1>7
      <4>3. PICK b : b = [a EXCEPT !.parent = u]
        OBVIOUS
      <4>4. b \in ChartNode /\ b.id = a.id /\ b.order = a.order /\ b.parent = u
        BY <4>2, <4>3 DEF ChartNode
      <4>5. DOMAIN moved = DOMAIN n /\ \A v \in DOMAIN n : moved[v] = IF v = anchor THEN b ELSE n[v]
        BY <4>1, <4>2, <4>3
      <4> QED
        BY <1>5, <3>1, <4>2, <4>4, <4>5
    <3>2. CASE relation # "PARENT"
      BY <1>5, <2>1, <3>2
    <3> QED
      BY <3>1, <3>2
  <2>3. PICK room : room = MakeRoom(moved, q, o)
    OBVIOUS
  <2>4. /\ DOMAIN room = DOMAIN n
        /\ \A v \in DOMAIN n :
             /\ room[v] \in ChartNode /\ room[v].id = n[v].id /\ room[v].parent = moved[v].parent
             /\ room[v].order = IF room[v].parent = q /\ n[v].order >= o
                                THEN n[v].order + 1 ELSE n[v].order
    <3>1. DOMAIN room = DOMAIN n
      BY <2>2, <2>3 DEF MakeRoom
    <3>2. ASSUME NEW v \in DOMAIN n
          PROVE  /\ room[v] \in ChartNode /\ room[v].id = n[v].id /\ room[v].parent = moved[v].parent
                 /\ room[v].order = IF room[v].parent = q /\ n[v].order >= o
                                    THEN n[v].order + 1 ELSE n[v].order
      <4>1. PICK a \in ChartNode : a = moved[v]
        BY <2>2
      <4>2. a.order \in Nat /\ a.id = n[v].id /\ a.order = n[v].order
        BY <2>2, <4>1 DEF ChartNode
      <4>3. PICK k \in Nat : k = a.order + 1
        BY <4>2
      <4>4. room[v] = IF a.parent = q /\ a.order >= o THEN [a EXCEPT !.order = k] ELSE a
        BY <2>2, <2>3, <4>1, <4>3 DEF MakeRoom
      <4>5. CASE a.parent = q /\ a.order >= o
        <5>1. room[v] = [a EXCEPT !.order = k]
          BY <4>4, <4>5
        <5>2. room[v] \in ChartNode /\ room[v].id = a.id /\ room[v].parent = a.parent /\ room[v].order = k
          BY <5>1, <4>1 DEF ChartNode
        <5> QED
          BY <4>1, <4>2, <4>3, <4>5, <5>2
      <4>6. CASE ~(a.parent = q /\ a.order >= o)
        BY <4>1, <4>2, <4>4, <4>6
      <4> QED
        BY <4>5, <4>6
    <3> QED
      BY <3>1, <3>2
  <2>5. PICK m : m = With(room, u, new)
    OBVIOUS
  <2>6. DOMAIN m = DOMAIN n \cup {u} /\ m[u] = new /\ \A v \in DOMAIN n : m[v] = room[v]
    BY <1>4, <2>4, <2>5 DEF With
  <2>7. AddNode(n, u, relation, anchor, id) = NormalizeSortOrder(m)
    <3>1. q = IF relation = "CHILD" THEN anchor ELSE n[anchor].parent
      BY <1>1, <1>7 DEF NewParent
    <3>2. o = CASE relation = "CHILD" -> Cardinality(Children(n, anchor))
                [] relation = "SIBLING_AFTER" -> n[anchor].order + 1
                [] OTHER -> n[anchor].order
      BY <1>2, <1>7 DEF NewOrder
    <3> QED
      BY <1>3, <1>7, <2>1, <2>3, <2>5, <3>1, <3>2 DEF AddNode
  <2>8. NodesTyped(m)
    BY <1>5, <2>4, <2>6 DEF NodesTyped
  <2>9. Placed(n, m, u, relation, anchor, id)
    BY <1>1, <1>2, <1>3, <1>7, <2>2, <2>4, <2>6, <2>8 DEF Placed
  <2> QED
    BY <2>7, <2>9
<1> QED
  BY <1>6, <1>7

(* The superiors, when a node is added: those above v in the new nodes,    *)
(* without the new one, are those that were above it.                      *)
LEMMA AddKeepsLines ==
  ASSUME NEW n, NodesTyped(n), \A v \in DOMAIN n : n[v].parent \in DOMAIN n \cup {Null},
         NEW u \in Users, NEW relation \in Relations, NEW anchor,
         CanAdd(n, u, relation, anchor),
         NEW m, DOMAIN m = DOMAIN n \cup {u},
         \A v \in DOMAIN n :
           m[v].parent = IF relation = "PARENT" /\ v = anchor THEN u ELSE n[v].parent,
         relation = "PARENT" => m[u].parent = n[anchor].parent,
         NEW v \in DOMAIN n
  PROVE  Ancestors(m, v) \ {u} = Ancestors(n, v)
<1>1. u \notin DOMAIN n /\ u # Null /\ Null \notin DOMAIN n
  BY OrgChartAssumption DEF CanAdd, NodesTyped
<1>2. \A w \in DOMAIN n : /\ ParentOf(n, w) = n[w].parent
                          /\ ParentOf(m, w) = IF relation = "PARENT" /\ w = anchor THEN u ELSE n[w].parent
  BY DEF ParentOf
<1>3. relation = "PARENT" => anchor \in DOMAIN n /\ ParentOf(m, u) = n[anchor].parent
  BY DEF ParentOf, CanAdd
<1>4. ASSUME NEW w \in Ancestors(m, v), w # u
      PROVE  w \in Ancestors(n, v)
  <2>1. w \in DOMAIN n
    BY <1>4 DEF Ancestors
  <2>2. ASSUME NEW S \in SUBSET DOMAIN n, HoldsParents(n, v, S)
        PROVE  w \in S
    <3>1. PICK T : T = IF relation = "PARENT" /\ anchor \in S \cup {v} THEN S \cup {u} ELSE S
      OBVIOUS
    <3>2. \A x \in S \cup {v} : x \in DOMAIN n /\ n[x].parent \in S \cup {Null}
      BY <1>2, <2>2 DEF HoldsParents
    <3>3. \A x \in S \cup {v} : ParentOf(m, x) \in T \cup {Null}
      BY <1>2, <3>1, <3>2
    <3>4. u \in T => ParentOf(m, u) \in T \cup {Null}
      BY <1>1, <1>3, <3>1, <3>2
    <3>5. HoldsParents(m, v, T) /\ T \in SUBSET DOMAIN m
      BY <3>1, <3>3, <3>4 DEF HoldsParents
    <3>6. w \in T
      BY <1>4, <3>5 DEF Ancestors
    <3> QED
      BY <1>4, <3>1, <3>6
  <2> QED
    BY <2>1, <2>2 DEF Ancestors
<1>5. ASSUME NEW w \in Ancestors(n, v)
      PROVE  w \in Ancestors(m, v) /\ w # u
  <2>1. w \in DOMAIN n
    BY DEF Ancestors
  <2>2. ASSUME NEW S \in SUBSET DOMAIN m, HoldsParents(m, v, S)
        PROVE  w \in S
    <3>1. \A x \in S \cup {v} : ParentOf(m, x) \in S \cup {Null}
      BY <2>2 DEF HoldsParents
    <3>2. ASSUME NEW x \in (S \ {u}) \cup {v}
          PROVE  ParentOf(n, x) \in (S \ {u}) \cup {Null}
      <4>1. x \in DOMAIN n /\ ParentOf(n, x) = n[x].parent /\ n[x].parent \in DOMAIN n \cup {Null}
        BY <1>2
      <4>2. CASE relation = "PARENT" /\ x = anchor
        <5>1. ParentOf(m, x) = u /\ u \in S
          BY <1>1, <1>2, <3>1, <4>1, <4>2
        <5>2. n[x].parent \in S \cup {Null}
          BY <1>3, <3>1, <4>2, <5>1
        <5> QED
          BY <1>1, <4>1, <5>2
      <4>3. CASE ~(relation = "PARENT" /\ x = anchor)
        <5>1. ParentOf(m, x) = n[x].parent
          BY <1>2, <4>1, <4>3
        <5> QED
          BY <1>1, <3>1, <4>1, <5>1
      <4> QED
        BY <4>2, <4>3
    <3>3. HoldsParents(n, v, S \ {u}) /\ S \ {u} \in SUBSET DOMAIN n
      BY <3>2 DEF HoldsParents
    <3> QED
      BY <3>3 DEF Ancestors
  <2> QED
    BY <1>1, <2>1, <2>2 DEF Ancestors
<1> QED
  BY <1>4, <1>5

(* ... and when u is removed, and what was under u comes under what was    *)
(* above it.                                                               *)
ComesUnder(n, m, u) ==
  /\ DOMAIN m = DOMAIN n \ {u}
  /\ \A v \in DOMAIN m : m[v].parent = IF n[v].parent = u THEN n[u].parent ELSE n[v].parent

LEMMA RemoveKeepsLines ==
  ASSUME NEW n, NodesTyped(n), \A v \in DOMAIN n : n[v].parent \in DOMAIN n \cup {Null},
         NEW u \in DOMAIN n, n[u].parent # u,
         NEW m, ComesUnder(n, m, u),
         NEW v \in DOMAIN m
  PROVE  Ancestors(m, v) = Ancestors(n, v) \ {u}
<1>0. /\ DOMAIN m = DOMAIN n \ {u}
      /\ \A w \in DOMAIN m : m[w].parent = IF n[w].parent = u THEN n[u].parent ELSE n[w].parent
  BY DEF ComesUnder
<1>1. u # Null /\ Null \notin DOMAIN n
  BY OrgChartAssumption DEF NodesTyped
<1>2. /\ \A w \in DOMAIN n : ParentOf(n, w) = n[w].parent
      /\ \A w \in DOMAIN m : ParentOf(m, w) = IF n[w].parent = u THEN n[u].parent ELSE n[w].parent
  BY <1>0 DEF ParentOf
<1>3. ASSUME NEW w \in Ancestors(m, v)
      PROVE  w \in Ancestors(n, v) /\ w # u
  <2>1. w \in DOMAIN n /\ w # u
    BY <1>0 DEF Ancestors
  <2>2. ASSUME NEW S \in SUBSET DOMAIN n, HoldsParents(n, v, S)
        PROVE  w \in S
    <3>1. \A x \in S \cup {v} : x \in DOMAIN n /\ n[x].parent \in S \cup {Null}
      BY <1>0, <1>2, <2>2 DEF HoldsParents
    <3>2. \A x \in (S \ {u}) \cup {v} : ParentOf(m, x) \in (S \ {u}) \cup {Null}
      BY <1>0, <1>1, <1>2, <3>1
    <3>3. HoldsParents(m, v, S \ {u}) /\ S \ {u} \in SUBSET DOMAIN m
      BY <1>0, <3>2 DEF HoldsParents
    <3> QED
      BY <3>3 DEF Ancestors
  <2> QED
    BY <2>1, <2>2 DEF Ancestors
<1>4. ASSUME NEW w \in Ancestors(n, v), w # u
      PROVE  w \in Ancestors(m, v)
  <2>1. w \in DOMAIN m
    BY <1>0, <1>4 DEF Ancestors
  <2>2. ASSUME NEW S \in SUBSET DOMAIN m, HoldsParents(m, v, S)
        PROVE  w \in S
    <3>1. \A x \in S \cup {v} : x \in DOMAIN m /\ ParentOf(m, x) \in S \cup {Null}
      BY <2>2 DEF HoldsParents
    <3>2. PICK T : T = IF \E x \in S \cup {v} : n[x].parent = u THEN S \cup {u} ELSE S
      OBVIOUS
    <3>3. \A x \in S \cup {v} : ParentOf(n, x) \in T \cup {Null}
      BY <1>0, <1>2, <3>1, <3>2
    <3>4. u \in T => ParentOf(n, u) \in T \cup {Null}
      BY <1>0, <1>2, <3>1, <3>2
    <3>5. HoldsParents(n, v, T) /\ T \in SUBSET DOMAIN n
      BY <1>0, <3>2, <3>3, <3>4 DEF HoldsParents
    <3>6. w \in T
      BY <3>5 DEF Ancestors
    <3> QED
      BY <1>0, <1>4, <3>2, <3>6
  <2> QED
    BY <2>1, <2>2 DEF Ancestors
<1> QED
  BY <1>3, <1>4

(* The orders of siblings in a chart that has no gaps.                     *)
LEMMA DenseOrders ==
  ASSUME NEW n, NodesFit(n), Dense(n), NEW a \in DOMAIN n, NEW S, S = Siblings(n, a),
         NEW k \in Nat, k <= n[a].order + 1
  PROVE  /\ \A v, w \in S : n[v].order = n[w].order => v = w
         /\ Cardinality({v \in S : n[v].order < k}) = k
<1>1. IsFiniteSet(S) /\ Cardinality(S) \in Nat /\ S \subseteq DOMAIN n /\ a \in S
  <2>1. IsFiniteSet(S) /\ S \subseteq DOMAIN n
    BY SiblingsFinite DEF NodesFit
  <2> QED
    BY <2>1, FS_CardinalityType DEF Siblings
<1>2. PICK ord : ord = [v \in S |-> n[v].order]
  OBVIOUS
<1>3. ord \in [S -> Nat] /\ \A v \in S : ord[v] = n[v].order
  BY <1>1, <1>2 DEF NodesFit, NodesTyped, ChartNode
<1>4. {n[v].order : v \in S} = 0 .. Cardinality(S) - 1
  BY DEF Dense
<1>5. {ord[v] : v \in S} = 0 .. Cardinality(S) - 1
  BY <1>3, <1>4
<1>6. ord[a] \in {ord[v] : v \in S}
  BY <1>1
<1>7. k <= Cardinality(S)
  <2>1. ord[a] \in 0 .. Cardinality(S) - 1
    BY <1>5, <1>6
  <2> QED
    BY <1>1, <1>3, <2>1
<1>8. /\ \A v, w \in S : ord[v] = ord[w] => v = w
      /\ Cardinality({v \in S : ord[v] < k}) = k
  BY <1>1, <1>3, <1>5, <1>7, OrdersCount
<1>9. {v \in S : ord[v] < k} = {v \in S : n[v].order < k}
  BY <1>3
<1> QED
  BY <1>3, <1>8, <1>9

(* The order of siblings, when a node is added.                            *)
LEMMA AddKeepsOrder ==
  ASSUME NEW n, NodesFit(n), NEW u, u \notin DOMAIN n, NEW relation, NEW anchor, NEW id,
         NEW m, Placed(n, m, u, relation, anchor, id), NodesFit(m),
         NEW v \in DOMAIN n \ {anchor}, NEW w \in DOMAIN n \ {anchor}, Leads(n, v, w)
  PROVE  Leads(NormalizeSortOrder(m), v, w)
<1>1. \A x \in DOMAIN n : n[x].order \in Nat
  BY DEF NodesFit, NodesTyped, ChartNode
<1>2. m[v].parent = n[v].parent /\ m[w].parent = n[w].parent /\ u \in DOMAIN m
      /\ v \in DOMAIN m /\ w \in DOMAIN m
  BY DEF Placed
<1>3. m[u].order \in Nat
  BY <1>2 DEF NodesFit, NodesTyped, ChartNode
<1>4. n[v].order < n[w].order /\ n[v].parent = n[w].parent
  BY DEF Leads
<1>5. m[v].order < m[w].order
  <2>1. \A x \in DOMAIN n : m[x].order = n[x].order \/ m[x].order = n[x].order + 1
    BY DEF Placed
  <2>2. m[v].order = n[v].order + 1 => m[w].order = n[w].order + 1
    BY <1>1, <1>2, <1>3, <1>4 DEF Placed
  <2> QED
    BY <1>1, <1>4, <2>1, <2>2
<1>6. Leads(m, v, w)
  BY <1>2, <1>4, <1>5 DEF Leads
<1> QED
  BY <1>2, <1>6, NormalizedKeepsOrder

(* The new one stands right beside the one it was put next to.             *)
LEMMA AddKeepsPlace ==
  ASSUME NEW n, NodesFit(n), \A v \in DOMAIN n : n[v].parent \in DOMAIN n \cup {Null}, Dense(n),
         NEW u \in Users, NEW relation \in {"SIBLING_BEFORE", "SIBLING_AFTER", "PARENT"},
         NEW anchor, CanAdd(n, u, relation, anchor), NEW id,
         NEW m, Placed(n, m, u, relation, anchor, id)
  PROVE  NormalizeSortOrder(m)[u].order =
           IF relation = "SIBLING_AFTER" THEN n[anchor].order + 1 ELSE n[anchor].order
<1>1. PICK q : q = n[anchor].parent
  OBVIOUS
<1>2. anchor \in DOMAIN n /\ u \notin DOMAIN n /\ u # Null /\ q # u /\ n[anchor].order \in Nat
  BY <1>1, OrgChartAssumption DEF CanAdd, NodesFit, NodesTyped, ChartNode
<1>3. PICK k \in Nat : k = IF relation = "SIBLING_AFTER" THEN n[anchor].order + 1 ELSE n[anchor].order
  BY <1>2
<1>4. /\ DOMAIN m = DOMAIN n \cup {u} /\ NodesTyped(m) /\ m[u].parent = q /\ m[u].order = k
      /\ \A v \in DOMAIN n :
           /\ m[v].parent = IF relation = "PARENT" /\ v = anchor THEN u ELSE n[v].parent
           /\ m[v].order = IF m[v].parent = q /\ n[v].order >= k
                           THEN n[v].order + 1 ELSE n[v].order
  BY <1>1, <1>3 DEF Placed, NewParent, NewOrder
<1>5. PICK S : S = Siblings(n, anchor)
  OBVIOUS
<1>6. \A v \in DOMAIN n : n[v].order \in Nat
  BY DEF NodesFit, NodesTyped, ChartNode
<1>7. ASSUME NEW v \in Before(m, u)
      PROVE  v \in S /\ n[v].order < k
  <2>1. v \in DOMAIN m /\ m[v].parent = q /\ Precedes(m[v], m[u])
    BY <1>4 DEF Before, Siblings
  <2>2. v # u
    <3>1. m[u].id \in Nat /\ m[u].order \in Nat
      BY <1>4 DEF NodesTyped, ChartNode
    <3> QED
      BY <2>1, <3>1 DEF Precedes
  <2>3. v \in DOMAIN n /\ n[v].parent = q /\ m[v].order <= k
    <3>1. v \in DOMAIN n
      BY <1>4, <2>1, <2>2
    <3>2. n[v].parent = q
      BY <1>2, <1>4, <2>1, <3>1
    <3>3. m[v].order \in Nat
      BY <1>4, <2>1 DEF NodesTyped, ChartNode
    <3>4. m[v].order <= k
      BY <1>3, <1>4, <2>1, <3>3 DEF Precedes
    <3> QED
      BY <3>1, <3>2, <3>4
  <2>4. n[v].order < k
    BY <1>3, <1>4, <1>6, <2>1, <2>3
  <2> QED
    BY <1>1, <1>5, <2>3, <2>4 DEF Siblings
<1>8. ASSUME NEW v \in S, n[v].order < k
      PROVE  v \in Before(m, u)
  <2>1. v \in DOMAIN n /\ n[v].parent = q
    BY <1>1, <1>5 DEF Siblings
  <2>2. relation = "PARENT" => v # anchor
    BY <1>3, <1>6, <1>8, <2>1
  <2>3. m[v].parent = q /\ m[v].order = n[v].order
    BY <1>3, <1>4, <1>6, <1>8, <2>1, <2>2
  <2> QED
    BY <1>4, <1>8, <2>1, <2>3 DEF Before, Siblings, Precedes
<1>9. Before(m, u) = {v \in S : n[v].order < k}
  BY <1>7, <1>8
<1>10. Cardinality({v \in S : n[v].order < k}) = k
  BY <1>2, <1>3, <1>5, DenseOrders
<1>11. NormalizeSortOrder(m)[u].order = Cardinality(Before(m, u))
  BY <1>4, NormalizedIs
<1> QED
  BY <1>3, <1>9, <1>10, <1>11

(* What removeNode leaves, before the siblings are numbered again.         *)
Freed(n, m, u, promote) ==
  /\ DOMAIN m = DOMAIN n \ {u} /\ NodesTyped(m)
  /\ \A v \in DOMAIN m :
       /\ m[v].id = n[v].id
       /\ m[v].parent = IF n[v].parent = u THEN n[u].parent ELSE n[v].parent
       /\ n[v].parent # u =>
            m[v].order = IF promote /\ n[v].parent = n[u].parent /\ n[v].order > n[u].order
                         THEN n[v].order + Cardinality(Children(n, u)) - 1 ELSE n[v].order

LEMMA RemoveNodeIs ==
  ASSUME NEW n, NodesTyped(n), NEW u \in DOMAIN n, n[u].parent # u, NEW promote \in BOOLEAN
  PROVE  \E m : Freed(n, m, u, promote) /\ RemoveNode(n, u, promote) = NormalizeSortOrder(m)
<1>1. PICK kids : kids = Children(n, u)
  OBVIOUS
<1>2. IsFiniteSet(kids) /\ kids \subseteq DOMAIN n
  BY <1>1, OrgChartAssumption, FS_Subset DEF Children, NodesTyped
<1>3. PICK c \in Nat : c = Cardinality(kids)
  BY <1>2, FS_CardinalityType
<1>4. PICK up \in Users \cup {Null} : up = n[u].parent
  BY DEF NodesTyped, ChartNode
<1>5. PICK at \in Nat : at = n[u].order
  BY DEF NodesTyped, ChartNode
<1>6. PICK promoted : promoted = [v \in DOMAIN n \ {u} |->
        IF v \in kids THEN [n[v] EXCEPT !.parent = up, !.order = at + @] ELSE n[v]]
  OBVIOUS
<1>7. PICK m : m = [v \in DOMAIN n \ {u} |->
        IF promote /\ promoted[v].parent = up /\ promoted[v].order > at
        THEN [promoted[v] EXCEPT !.order = @ + c - 1] ELSE promoted[v]]
  OBVIOUS
<1>8. RemoveNode(n, u, promote) = NormalizeSortOrder(m)
  BY <1>1, <1>3, <1>4, <1>5, <1>6, <1>7, ZenonT(60) DEF RemoveNode
<1>9. ASSUME NEW v \in DOMAIN n \ {u}
      PROVE  /\ m[v] \in ChartNode /\ m[v].id = n[v].id
             /\ m[v].parent = IF n[v].parent = u THEN up ELSE n[v].parent
             /\ n[v].parent # u =>
                  m[v].order = IF promote /\ n[v].parent = up /\ n[v].order > at
                               THEN n[v].order + c - 1 ELSE n[v].order
  <2>1. PICK a \in ChartNode : a = n[v]
    BY DEF NodesTyped
  <2>2. a.order \in Nat
    BY <2>1 DEF ChartNode
  <2>3. v \in kids <=> a.parent = u
    BY <1>1, <2>1 DEF Children
  <2>4. PICK b : b = promoted[v]
    OBVIOUS
  <2>5. /\ b \in ChartNode /\ b.id = a.id
        /\ a.parent = u => b.parent = up /\ b.order \in Nat
        /\ a.parent # u => b = a
    <3>1. CASE a.parent = u
      <4>1. PICK k \in Nat : k = at + a.order
        BY <2>2
      <4>2. b = [a EXCEPT !.parent = up, !.order = k]
        BY <1>6, <2>1, <2>3, <2>4, <3>1, <4>1
      <4> QED
        BY <3>1, <4>2 DEF ChartNode
    <3>2. CASE a.parent # u
      BY <1>6, <2>1, <2>3, <2>4, <3>2
    <3> QED
      BY <3>1, <3>2
  <2>6. m[v] = IF promote /\ b.parent = up /\ b.order > at THEN [b EXCEPT !.order = @ + c - 1] ELSE b
    BY <1>7, <2>4
  <2>7. CASE promote /\ b.parent = up /\ b.order > at
    <3>1. b.order \in Nat
      BY <2>5 DEF ChartNode
    <3>2. PICK k \in Nat : k = b.order + c - 1
      BY <2>7, <3>1
    <3>3. m[v] = [b EXCEPT !.order = k]
      BY <2>6, <2>7, <3>2
    <3>4. m[v] \in ChartNode /\ m[v].id = b.id /\ m[v].parent = b.parent /\ m[v].order = k
      BY <2>5, <3>3 DEF ChartNode
    <3> QED
      BY <2>1, <2>5, <2>7, <3>2, <3>4
  <2>8. CASE ~(promote /\ b.parent = up /\ b.order > at)
    <3>1. m[v] = b
      BY <2>6, <2>8
    <3> QED
      BY <2>1, <2>5, <2>8, <3>1
  <2> QED
    BY <2>7, <2>8
<1>10. DOMAIN m = DOMAIN n \ {u}
  BY <1>7
<1>11. NodesTyped(m)
  BY <1>9, <1>10 DEF NodesTyped
<1>12. Freed(n, m, u, promote)
  BY <1>1, <1>3, <1>4, <1>5, <1>9, <1>10, <1>11 DEF Freed
<1> QED
  BY <1>8, <1>12

(* The order of siblings, when a node with one child at most is removed.   *)
LEMMA RemoveKeepsOrder ==
  ASSUME NEW n, NodesFit(n), Dense(n), NEW u \in DOMAIN n, n[u].parent # u,
         NEW promote, promote \/ Children(n, u) = {},
         NEW m, Freed(n, m, u, promote), NodesFit(m), Cardinality(Children(n, u)) < 2,
         NEW v \in DOMAIN m, NEW w \in DOMAIN m, Leads(n, v, w)
  PROVE  Leads(NormalizeSortOrder(m), v, w)
<1>1. /\ n[v].parent = n[w].parent /\ n[v].order < n[w].order /\ v \in DOMAIN n /\ w \in DOMAIN n
      /\ v # u /\ w # u /\ n[v].order \in Nat /\ n[w].order \in Nat /\ n[u].order \in Nat
  BY DEF Leads, Freed, NodesFit, NodesTyped, ChartNode
<1>2. PICK kids : kids = Children(n, u)
  OBVIOUS
<1>3. IsFiniteSet(kids)
  BY <1>2, OrgChartAssumption, FS_Subset DEF Children, NodesFit, NodesTyped
<1>4. Cardinality(kids) \in {0, 1}
  BY <1>2, <1>3, FS_CardinalityType
<1>5. n[v].parent # u
  <2> SUFFICES ASSUME n[v].parent = u
               PROVE  FALSE
    OBVIOUS
  <2>0. v # w
    BY <1>1
  <2>1. v \in kids /\ w \in kids /\ v # w
    BY <1>1, <1>2, <2>0 DEF Children
  <2>2. kids = {} \/ \E x : kids = {x}
    BY <1>3, <1>4, FS_EmptySet, FS_Singleton
  <2> QED
    BY <2>1, <2>2
<1>6. m[v].parent = n[v].parent /\ m[w].parent = n[w].parent
  BY <1>1, <1>5 DEF Freed
<1>7. m[v].order < m[w].order
  <2>1. CASE promote /\ n[v].parent = n[u].parent
    <3>1. n[v].order # n[u].order
      <4>1. v \in Siblings(n, u) /\ u \in Siblings(n, u)
        BY <1>1, <2>1 DEF Siblings
      <4>2. 0 \in Nat /\ 0 <= n[u].order + 1
        BY <1>1
      <4>3. \A x, y \in Siblings(n, u) : n[x].order = n[y].order => x = y
        BY <4>2, DenseOrders
      <4> QED
        BY <1>1, <4>1, <4>3
    <3>2. PICK c \in {0, 1} : c = Cardinality(kids)
      BY <1>4
    <3>3. /\ m[v].order = IF n[v].order > n[u].order THEN n[v].order + c - 1 ELSE n[v].order
          /\ m[w].order = IF n[w].order > n[u].order THEN n[w].order + c - 1 ELSE n[w].order
      BY <1>1, <1>2, <1>5, <2>1, <3>2 DEF Freed
    <3> QED
      BY <1>1, <3>1, <3>2, <3>3
  <2>2. CASE ~(promote /\ n[v].parent = n[u].parent)
    BY <1>1, <1>5, <2>2 DEF Freed
  <2> QED
    BY <2>1, <2>2
<1>8. Leads(m, v, w)
  BY <1>1, <1>6, <1>7 DEF Leads
<1> QED
  BY <1>8, NormalizedKeepsOrder

(* What an accepted call to add or to remove a node leaves of the others.  *)
Kept(c) ==
  /\ c.op = "add" =>
       /\ \A v \in DOMAIN c.before : Ancestors(c.after, v) \ {c.user} = Ancestors(c.before, v)
       /\ Dense(c.after) /\ KeepsOrder(c)
       /\ c.relation \in {"SIBLING_BEFORE", "PARENT"} => c.after[c.user].order = c.before[c.anchor].order
       /\ c.relation = "SIBLING_AFTER" => c.after[c.user].order = c.before[c.anchor].order + 1
  /\ c.op = "remove" =>
       /\ \A v \in DOMAIN c.after : Ancestors(c.after, v) = Ancestors(c.before, v) \ {c.user}
       /\ Dense(c.after) /\ (Cardinality(Children(c.before, c.user)) < 2 => KeepsOrder(c))

(* A chart as it is stored.                                                *)
Tidy(n) == IsNodes(n) /\ ValidNodes(n) /\ Dense(n)

LEMMA TidyFits ==
  ASSUME NEW n, Tidy(n)
  PROVE  NodesFit(n) /\ \A v \in DOMAIN n : n[v].parent \in DOMAIN n \cup {Null}
<1>1. \A v \in DOMAIN n : n[v] \in ChartNode
  BY DEF Tidy, IsNodes, ChartNode
<1> QED
  BY <1>1 DEF Tidy, IsNodes, ValidNodes, NodesFit, NodesTyped

(* Nodes that are numbered again, and are found valid, are tidy.           *)
LEMMA NumberedIsTidy ==
  ASSUME NEW m, NodesTyped(m), NEW after, after = NormalizeSortOrder(m), ValidNodes(after)
  PROVE  Tidy(after) /\ NodesFit(m)
<1>1. DOMAIN after = DOMAIN m /\ \A v \in DOMAIN m : after[v] \in ChartNode /\ after[v].id = m[v].id
  BY NormalizedIs
<1>2. NodesFit(m)
  BY <1>1 DEF ValidNodes, NodesFit
<1>3. Dense(after)
  BY <1>2, NormalizedIsDense
<1>4. \A v \in DOMAIN after : after[v] \in [id : Nat, parent : DOMAIN after \cup {Null}, order : Nat]
  BY <1>1 DEF ValidNodes, ChartNode
<1> QED
  BY <1>1, <1>2, <1>3, <1>4 DEF Tidy, IsNodes, NodesTyped

LEMMA AddKeeps ==
  ASSUME NEW n, Tidy(n), NEW u \in Users, NEW relation \in Relations, NEW anchor,
         CanAdd(n, u, relation, anchor), NEW id \in Nat,
         NEW after, after = AddNode(n, u, relation, anchor, id), ValidNodes(after),
         NEW c, c.op = "add", c.user = u, c.relation = relation, c.anchor = anchor,
         c.before = n, c.after = after
  PROVE  Tidy(after) /\ Kept(c)
<1>1. NodesFit(n) /\ NodesTyped(n) /\ \A v \in DOMAIN n : n[v].parent \in DOMAIN n \cup {Null}
  BY TidyFits DEF NodesFit
<1>2. PICK m : Placed(n, m, u, relation, anchor, id) /\ after = NormalizeSortOrder(m)
  BY <1>1, AddNodeIs
<1>3. NodesTyped(m) /\ u \notin DOMAIN n
  BY <1>2 DEF Placed, CanAdd
<1>4. Tidy(after) /\ NodesFit(m)
  BY <1>2, <1>3, NumberedIsTidy
<1>5. /\ DOMAIN after = DOMAIN n \cup {u}
      /\ \A v \in DOMAIN n :
           after[v].parent = IF relation = "PARENT" /\ v = anchor THEN u ELSE n[v].parent
      /\ relation = "PARENT" => after[u].parent = n[anchor].parent
  <2>1. DOMAIN after = DOMAIN m /\ \A v \in DOMAIN m : after[v].parent = m[v].parent
    BY <1>2, <1>3, NormalizedIs
  <2>2. m[u].parent = NewParent(n, relation, anchor) /\ DOMAIN m = DOMAIN n \cup {u}
    BY <1>2 DEF Placed
  <2>3. relation = "PARENT" => NewParent(n, relation, anchor) = n[anchor].parent
    BY DEF NewParent
  <2> QED
    BY <1>2, <2>1, <2>2, <2>3 DEF Placed
<1>6. ASSUME NEW v \in DOMAIN n  PROVE  Ancestors(after, v) \ {u} = Ancestors(n, v)
  <2>1. NodesTyped(n) /\ \A w \in DOMAIN n : n[w].parent \in DOMAIN n \cup {Null}
    BY <1>1
  <2>2. DOMAIN after = DOMAIN n \cup {u} /\ (relation = "PARENT" => after[u].parent = n[anchor].parent)
    BY <1>5
  <2>3. \A w \in DOMAIN n :
          after[w].parent = IF relation = "PARENT" /\ w = anchor THEN u ELSE n[w].parent
    BY <1>5
  <2> QED
    BY <2>1, <2>2, <2>3, AddKeepsLines
<1>7. \A v, w \in DOMAIN n \ {anchor} : Leads(n, v, w) => Leads(after, v, w)
  BY <1>1, <1>2, <1>3, <1>4, AddKeepsOrder
<1>8. KeepsOrder(c)
  BY <1>5, <1>7 DEF KeepsOrder
<1>9. relation \in {"SIBLING_BEFORE", "SIBLING_AFTER", "PARENT"} =>
        after[u].order = IF relation = "SIBLING_AFTER" THEN n[anchor].order + 1 ELSE n[anchor].order
  BY <1>1, <1>2, AddKeepsPlace DEF Tidy
<1>10. Dense(after)
  BY <1>4 DEF Tidy
<1> QED
  BY <1>4, <1>6, <1>8, <1>9, <1>10 DEF Kept

LEMMA RemoveKeeps ==
  ASSUME NEW n, Tidy(n), NEW u, NEW promote \in BOOLEAN, CanRemove(n, u, promote),
         NEW after, after = RemoveNode(n, u, promote), ValidNodes(after),
         NEW c, c.op = "remove", c.user = u, c.anchor = Null, c.before = n, c.after = after
  PROVE  Tidy(after) /\ Kept(c)
<1>1. NodesFit(n) /\ NodesTyped(n) /\ \A v \in DOMAIN n : n[v].parent \in DOMAIN n \cup {Null}
  BY TidyFits DEF NodesFit
<1>2. u \in DOMAIN n /\ (promote \/ Children(n, u) = {})
  BY DEF CanRemove
<1>3. n[u].parent # u
  <2> SUFFICES ASSUME n[u].parent = u
               PROVE  FALSE
    OBVIOUS
  <2>1. u # Null
    BY <1>1, <1>2, OrgChartAssumption DEF NodesTyped
  <2>2. \A S \in SUBSET DOMAIN n : HoldsParents(n, u, S) => u \in S
    BY <1>2, <2>1 DEF HoldsParents, ParentOf
  <2>3. u \in Ancestors(n, u)
    BY <1>2, <2>2 DEF Ancestors
  <2> QED
    BY <1>2, <2>3 DEF Tidy, ValidNodes
<1>4. PICK m : Freed(n, m, u, promote) /\ after = NormalizeSortOrder(m)
  BY <1>1, <1>2, <1>3, RemoveNodeIs
<1>5. NodesTyped(m)
  BY <1>4 DEF Freed
<1>6. Tidy(after) /\ NodesFit(m)
  BY <1>4, <1>5, NumberedIsTidy
<1>7. /\ DOMAIN after = DOMAIN n \ {u} /\ DOMAIN m = DOMAIN n \ {u}
      /\ \A v \in DOMAIN after :
           after[v].parent = IF n[v].parent = u THEN n[u].parent ELSE n[v].parent
  <2>1. DOMAIN after = DOMAIN m /\ \A v \in DOMAIN m : after[v].parent = m[v].parent
    BY <1>4, <1>5, NormalizedIs
  <2> QED
    BY <1>4, <2>1 DEF Freed
<1>8. ASSUME NEW v \in DOMAIN after
      PROVE  Ancestors(after, v) = Ancestors(n, v) \ {u}
  <2>1. ComesUnder(n, after, u)
    BY <1>7 DEF ComesUnder
  <2> QED
    BY <1>1, <1>2, <1>3, <2>1, RemoveKeepsLines
<1>9. Cardinality(Children(n, u)) < 2 =>
        \A v, w \in DOMAIN m : Leads(n, v, w) => Leads(after, v, w)
  <2>1. Dense(n)
    BY DEF Tidy
  <2> QED
    BY <1>1, <1>2, <1>3, <1>4, <1>6, <2>1, RemoveKeepsOrder
<1>10. Cardinality(Children(n, u)) < 2 => KeepsOrder(c)
  BY <1>7, <1>9 DEF KeepsOrder
<1>11. Dense(after)
  BY <1>6 DEF Tidy
<1> QED
  BY <1>6, <1>8, <1>10, <1>11 DEF Kept

(* A chart as it is stored, and a call as it may be under way: what it is  *)
(* to write is tidy, and what it adds or removes leaves the others alone.  *)
Stored(c) == IsChart(c) /\ Tidy(c.nodes) /\ (c.status = "none" <=> c.version = 0)

Statuses == {"DRAFT", "ACTIVE", "ARCHIVED"}

EditFits(k) ==
  /\ k.pc \in {"idle", "insert", "replace", "log", "write", "resolve", "validate", "assign"}
  /\ IsNodes(k.before) /\ IsNodes(k.after)
  /\ k.pc = "insert" => k.op = "create"
  /\ k.pc = "replace" => k.status \in Statuses /\ Tidy(k.after)
  /\ k.pc = "log" => k.version \in Nat /\ (k.op = "create" \/ k.status \in Statuses)
  /\ k.pc \in {"replace", "log"} => Kept(k)

PageTyped(g) == g.at \in Scopes \cup {Null} /\ IsChart(g.chart)

EditInv ==
  /\ lastNode \in Nat
  /\ \A s \in Scopes : Stored(chart[s])
  /\ \A p \in Pages : PageTyped(page[p])
  /\ \A j \in Jobs : EditFits(job[j])
  /\ \A e \in history : IsNodes(e.before) /\ IsNodes(e.after)

LEMMA NoNodesTidy == Tidy(NoNodes) /\ IsNodes(NoNodes)
<1>1. DOMAIN NoNodes = {}
  BY DEF NoNodes
<1> QED
  BY <1>1 DEF Tidy, IsNodes, ValidNodes, Dense

LEMMA NoJobEdits == EditFits(NoJob)
BY NoJobFits, NoNodesTidy DEF EditFits

LEMMA AlikeEdits ==
  ASSUME NEW k, NEW l, Alike(k, l), EditFits(k)
  PROVE  EditFits(l)
<1>1. Kept(k) => Kept(l)
  BY DEF Alike, Kept, KeepsOrder
<1> QED
  BY <1>1 DEF Alike, EditFits

(* What a step must leave in order.                                        *)
LEMMA EditsGoOn ==
  ASSUME EditInv, lastNode' \in Nat,
         \A s \in Scopes : chart'[s] = chart[s] \/ Stored(chart'[s]),
         \A p \in Pages : page'[p] = page[p] \/ PageTyped(page'[p]),
         \A i \in Jobs : Alike(job[i], job'[i]) \/ EditFits(job'[i]),
         \A e \in history' : e \in history \/ (IsNodes(e.before) /\ IsNodes(e.after))
  PROVE  EditInv'
<1>1. \A s \in Scopes : Stored(chart'[s])
  BY DEF EditInv
<1>2. \A p \in Pages : PageTyped(page'[p])
  BY DEF EditInv
<1>3. \A i \in Jobs : EditFits(job'[i])
  BY AlikeEdits DEF EditInv
<1>4. \A e \in history' : IsNodes(e.before) /\ IsNodes(e.after)
  BY DEF EditInv
<1> QED
  BY <1>1, <1>2, <1>3, <1>4 DEF EditInv, Stored, PageTyped, EditFits, Kept

(* One handler goes on, and the others may find themselves overtaken.      *)
LEMMA OneEdits ==
  ASSUME OrgInv, NEW j \in Jobs, NEW k, EditFits(k),
         job' = [job EXCEPT ![j] = k] \/ job' = [Races(job) EXCEPT ![j] = k]
  PROVE  \A i \in Jobs : Alike(job[i], job'[i]) \/ EditFits(job'[i])
<1>1. DOMAIN job = Jobs /\ DOMAIN Races(job) = Jobs /\ \A i \in Jobs : Alike(job[i], Races(job)[i])
  BY RacesAlike DEF OrgInv, OrgType
<1>2. \A i \in Jobs : Alike(job[i], job[i])
  BY DEF Alike
<1> SUFFICES ASSUME NEW i \in Jobs
             PROVE  Alike(job[i], job'[i]) \/ EditFits(job'[i])
  OBVIOUS
<1>3. job'[i] = k \/ job'[i] = job[i] \/ job'[i] = Races(job)[i]
  BY <1>1
<1> QED
  BY <1>1, <1>2, <1>3

LEMMA EndEdits ==
  ASSUME OrgInv, NEW j \in Jobs, JobEnds(j)
  PROVE  \A i \in Jobs : Alike(job[i], job'[i]) \/ EditFits(job'[i])
<1>1. PICK k : k = NoJob /\ EditFits(k)
  BY NoJobEdits
<1>2. job' = [job EXCEPT ![j] = k]
  BY <1>1 DEF JobEnds
<1> QED
  BY <1>1, <1>2, OneEdits

(* A handler that begins or goes on where no chart is written.             *)
LEMMA CallEdits ==
  ASSUME OrgInv, EditInv, NEW j \in Jobs, NEW k, EditFits(k), job' = [job EXCEPT ![j] = k],
         lastNode' \in Nat, UNCHANGED <<chart, page, history>>
  PROVE  EditInv'
<1>1. \A i \in Jobs : Alike(job[i], job'[i]) \/ EditFits(job'[i])
  BY OneEdits
<1> QED
  BY <1>1, EditsGoOn

LEMMA EndedEdits ==
  ASSUME OrgInv, EditInv, NEW j \in Jobs, JobEnds(j), UNCHANGED <<lastNode, chart, page, history>>
  PROVE  EditInv'
<1>1. \A i \in Jobs : Alike(job[i], job'[i]) \/ EditFits(job'[i])
  BY EndEdits
<1> QED
  BY <1>1, EditsGoOn DEF EditInv

(* What a page sends: the call, to replace the nodes there are by others.  *)
LEMMA SentIs ==
  ASSUME OrgInv, NEW j \in Jobs, NEW p \in Pages, NEW s, s = page[p].at, NEW call,
         DOMAIN call = ChartCallFields, NEW status, NEW after, PageSends(j, p, call, status, after)
  PROVE  /\ UNCHANGED <<chart, page, history>>
         /\ \E k : /\ job' = [job EXCEPT ![j] = k]
                   /\ k.pc = "replace" /\ k.op = call.op /\ k.user = call.user
                   /\ k.relation = call.relation /\ k.anchor = call.anchor /\ k.status = status
                   /\ k.before = chart[s].nodes /\ k.after = after
<1>1. PICK k : k = [call EXCEPT !.pc = "replace", !.page = p, !.at = s,
                      !.seen = page[p].chart.nodes, !.version = page[p].chart.version,
                      !.status = status, !.before = chart[s].nodes, !.after = after]
  OBVIOUS
<1>2. /\ k.pc = "replace" /\ k.op = call.op /\ k.user = call.user /\ k.relation = call.relation
      /\ k.anchor = call.anchor /\ k.status = status /\ k.before = chart[s].nodes /\ k.after = after
  BY <1>1 DEF ChartCallFields
<1>3. job' = [job EXCEPT ![j] = k] /\ UNCHANGED <<chart, page, history>>
  BY <1>1 DEF PageSends, JobStarts
<1> QED
  BY <1>2, <1>3

(* The chart that a page is at, which has been made.                       *)
LEMMA PageIsAt ==
  ASSUME OrgInv, EditInv, NEW p \in Pages, page[p].at # Null
  PROVE  /\ page[p].at \in Scopes /\ chart[page[p].at].status \in Statuses
         /\ Tidy(chart[page[p].at].nodes) /\ IsNodes(chart[page[p].at].nodes)
<1>1. page[p].at \in Scopes /\ chart[page[p].at].status # "none"
  BY DEF OrgInv, PagesFit, PageFits
<1> QED
  BY <1>1 DEF EditInv, Stored, IsChart, Statuses, Tidy

LEMMA AddEdits ==
  ASSUME OrgInv, EditInv, NEW j \in Jobs, NEW p \in Pages, AddCall(j, p)
  PROVE  EditInv'
<1>1. PICK s : s = page[p].at /\ page[p].at # Null
  BY DEF AddCall, CanSend
<1>2. PICK n : n = chart[s].nodes /\ Tidy(n) /\ IsNodes(n) /\ chart[s].status \in Statuses
  BY <1>1, PageIsAt
<1>3. PICK u \in active, relation \in Relations :
        \E anchor \in DOMAIN page[p].chart.nodes \cup {Null} :
        /\ CanAdd(chart[s].nodes, u, relation, anchor)
        /\ LET after == AddNode(chart[s].nodes, u, relation, anchor, lastNode + 1) IN
           /\ ValidNodes(after)
           /\ PageSends(j, p, [NoJob EXCEPT !.op = "add", !.user = u, !.relation = relation,
                                            !.anchor = anchor], chart[s].status, after)
  BY <1>1, Zenon DEF AddCall
<1>4. PICK anchor :
        /\ CanAdd(chart[s].nodes, u, relation, anchor)
        /\ LET after == AddNode(chart[s].nodes, u, relation, anchor, lastNode + 1) IN
           /\ ValidNodes(after)
           /\ PageSends(j, p, [NoJob EXCEPT !.op = "add", !.user = u, !.relation = relation,
                                            !.anchor = anchor], chart[s].status, after)
  BY <1>3, Zenon
<1>5. PICK after, call, status :
        /\ after = AddNode(chart[s].nodes, u, relation, anchor, lastNode + 1)
        /\ status = chart[s].status
        /\ call = [NoJob EXCEPT !.op = "add", !.user = u, !.relation = relation, !.anchor = anchor]
  OBVIOUS
<1>6. ValidNodes(after) /\ PageSends(j, p, call, status, after)
  BY <1>4, <1>5
<1>7. /\ DOMAIN call = ChartCallFields /\ call.op = "add" /\ call.user = u
      /\ call.relation = relation /\ call.anchor = anchor
  BY <1>5 DEF NoJob, ChartCallFields
<1>8. /\ UNCHANGED <<chart, page, history>>
      /\ \E k : /\ job' = [job EXCEPT ![j] = k]
                /\ k.pc = "replace" /\ k.op = "add" /\ k.user = u
                /\ k.relation = relation /\ k.anchor = anchor /\ k.status = status
                /\ k.before = n /\ k.after = after
  BY <1>1, <1>2, <1>6, <1>7, SentIs
<1>9. PICK k : /\ job' = [job EXCEPT ![j] = k]
               /\ k.pc = "replace" /\ k.op = "add" /\ k.user = u
               /\ k.relation = relation /\ k.anchor = anchor /\ k.status = status
               /\ k.before = n /\ k.after = after
  BY <1>8
<1>10. u \in Users /\ lastNode \in Nat
  BY DEF OrgInv, OrgType, EditInv
<1>11. PICK id \in Nat : id = lastNode + 1
  BY <1>10
<1>12. Tidy(after) /\ Kept(k)
  BY <1>2, <1>4, <1>5, <1>6, <1>9, <1>10, <1>11, AddKeeps
<1>13. EditFits(k)
  BY <1>2, <1>5, <1>9, <1>12 DEF EditFits, Tidy
<1>14. lastNode' \in Nat
  BY <1>11 DEF AddCall
<1> QED
  BY <1>8, <1>9, <1>13, <1>14, CallEdits

LEMMA RemoveEdits ==
  ASSUME OrgInv, EditInv, NEW j \in Jobs, NEW p \in Pages, RemoveCall(j, p)
  PROVE  EditInv'
<1>1. PICK s : s = page[p].at /\ page[p].at # Null
  BY DEF RemoveCall, CanSend
<1>2. PICK n : n = chart[s].nodes /\ Tidy(n) /\ IsNodes(n) /\ chart[s].status \in Statuses
  BY <1>1, PageIsAt
<1>3. PICK u \in Users, promote \in BOOLEAN :
        /\ CanRemove(chart[s].nodes, u, promote)
        /\ LET after == RemoveNode(chart[s].nodes, u, promote) IN
           /\ ValidNodes(after)
           /\ PageSends(j, p, [NoJob EXCEPT !.op = "remove", !.user = u], chart[s].status, after)
  BY <1>1, Zenon DEF RemoveCall
<1>4. PICK after, call, status :
        /\ after = RemoveNode(chart[s].nodes, u, promote) /\ status = chart[s].status
        /\ call = [NoJob EXCEPT !.op = "remove", !.user = u]
  OBVIOUS
<1>5. ValidNodes(after) /\ PageSends(j, p, call, status, after)
  BY <1>3, <1>4
<1>6. DOMAIN call = ChartCallFields /\ call.op = "remove" /\ call.user = u /\ call.anchor = Null
  BY <1>4 DEF NoJob, ChartCallFields
<1>7. /\ UNCHANGED <<chart, page, history>>
      /\ \E k : /\ job' = [job EXCEPT ![j] = k]
                /\ k.pc = "replace" /\ k.op = "remove" /\ k.user = u /\ k.anchor = Null
                /\ k.status = status /\ k.before = n /\ k.after = after
  BY <1>1, <1>2, <1>5, <1>6, SentIs
<1>8. PICK k : /\ job' = [job EXCEPT ![j] = k]
               /\ k.pc = "replace" /\ k.op = "remove" /\ k.user = u /\ k.anchor = Null
               /\ k.status = status /\ k.before = n /\ k.after = after
  BY <1>7
<1>9. Tidy(after) /\ Kept(k)
  BY <1>2, <1>3, <1>4, <1>5, <1>8, RemoveKeeps
<1>10. EditFits(k)
  BY <1>2, <1>4, <1>8, <1>9 DEF EditFits, Tidy
<1>11. lastNode' \in Nat
  BY DEF RemoveCall, EditInv
<1> QED
  BY <1>7, <1>8, <1>10, <1>11, CallEdits

(* A page that activates or archives its chart sends the nodes as they are.*)
LEMMA StatusEdits ==
  ASSUME OrgInv, EditInv, NEW j \in Jobs, NEW p \in Pages, ActivateCall(j, p) \/ ArchiveCall(j, p)
  PROVE  EditInv'
<1>1. PICK s : s = page[p].at /\ page[p].at # Null
  BY DEF ActivateCall, ArchiveCall, CanSend
<1>2. PICK n : n = chart[s].nodes /\ Tidy(n) /\ IsNodes(n)
  BY <1>1, PageIsAt
<1>3. PICK op \in {"activate", "archive"}, status \in Statuses :
        PageSends(j, p, [NoJob EXCEPT !.op = op], status, n)
  BY <1>1, <1>2 DEF ActivateCall, ArchiveCall, Statuses
<1>4. PICK call : call = [NoJob EXCEPT !.op = op]
  OBVIOUS
<1>5. DOMAIN call = ChartCallFields /\ call.op = op
  BY <1>4 DEF NoJob, ChartCallFields
<1>6. PageSends(j, p, call, status, n)
  BY <1>3, <1>4
<1>7. /\ UNCHANGED <<chart, page, history>>
      /\ \E k : /\ job' = [job EXCEPT ![j] = k]
                /\ k.pc = "replace" /\ k.op = call.op /\ k.user = call.user
                /\ k.relation = call.relation /\ k.anchor = call.anchor /\ k.status = status
                /\ k.before = chart[s].nodes /\ k.after = n
  BY <1>1, <1>5, <1>6, SentIs
<1>8. PICK k : /\ job' = [job EXCEPT ![j] = k] /\ k.pc = "replace" /\ k.op = op
               /\ k.status = status /\ k.before = n /\ k.after = n
  BY <1>2, <1>5, <1>7
<1>9. EditFits(k)
  BY <1>2, <1>3, <1>8 DEF EditFits, Kept
<1>10. lastNode' \in Nat
  BY DEF ActivateCall, ArchiveCall, EditInv
<1> QED
  BY <1>7, <1>8, <1>9, <1>10, CallEdits

(* Calls that have nothing to do with the nodes of a chart.                *)
LEMMA PlainCallEdits ==
  ASSUME NEW k, k.pc \in {"idle", "insert", "write", "resolve", "validate", "assign"},
         k.pc = "insert" => k.op = "create", IsNodes(k.before), IsNodes(k.after)
  PROVE  EditFits(k)
BY DEF EditFits

LEMMA PlainCallsEdit ==
  ASSUME OrgInv, EditInv, NEW j \in Jobs,
         \/ MoveCall(j) \/ SubmitCall(j)
         \/ \E p \in Pages, s \in Scopes : CreateChart(j, p, s)
  PROVE  EditInv'
<1>1. PICK k : JobStarts(j, k) /\ EditFits(k)
  <2>1. CASE MoveCall(j)
    <3>1. PICK u \in Users, s \in Scopes \cup {Null} :
            JobStarts(j, [NoJob EXCEPT !.op = "move", !.pc = "write", !.user = u, !.at = s])
      BY <2>1, Zenon DEF MoveCall
    <3>2. PICK k : k = [NoJob EXCEPT !.op = "move", !.pc = "write", !.user = u, !.at = s]
      OBVIOUS
    <3>3. k.pc = "write" /\ k.before = NoNodes /\ k.after = NoNodes
      BY <3>2 DEF NoJob
    <3>4. JobStarts(j, k)
      BY <3>1, <3>2
    <3>5. EditFits(k)
      BY <3>3, NoNodesTidy, PlainCallEdits
    <3> QED
      BY <3>4, <3>5
  <2>2. CASE SubmitCall(j)
    <3>1. PICK u \in active, t \in Named :
            JobStarts(j, [NoJob EXCEPT !.op = "submit", !.user = u, !.target = t,
                                       !.pc = IF t = Null THEN "resolve" ELSE "validate"])
      BY <2>2, Zenon DEF SubmitCall
    <3>2. PICK k : k = [NoJob EXCEPT !.op = "submit", !.user = u, !.target = t,
                                     !.pc = IF t = Null THEN "resolve" ELSE "validate"]
      OBVIOUS
    <3>3. k.pc \in {"resolve", "validate"} /\ k.before = NoNodes /\ k.after = NoNodes
      BY <3>2 DEF NoJob
    <3>4. JobStarts(j, k)
      BY <3>1, <3>2
    <3>5. EditFits(k)
      BY <3>3, NoNodesTidy, PlainCallEdits
    <3> QED
      BY <3>4, <3>5
  <2>3. CASE \E p \in Pages, s \in Scopes : CreateChart(j, p, s)
    <3>1. PICK p \in Pages, s \in Scopes :
            JobStarts(j, [NoJob EXCEPT !.op = "create", !.pc = "insert", !.page = p, !.at = s])
      BY <2>3, Zenon DEF CreateChart
    <3>2. PICK k : k = [NoJob EXCEPT !.op = "create", !.pc = "insert", !.page = p, !.at = s]
      OBVIOUS
    <3>3. k.pc = "insert" /\ k.op = "create" /\ k.before = NoNodes /\ k.after = NoNodes
      BY <3>2 DEF NoJob
    <3>4. JobStarts(j, k)
      BY <3>1, <3>2
    <3>5. EditFits(k)
      BY <3>3, NoNodesTidy, PlainCallEdits
    <3> QED
      BY <3>4, <3>5
  <2> QED
    BY <2>1, <2>2, <2>3
<1>2. UNCHANGED <<lastNode, chart, page, history>>
  BY Zenon DEF MoveCall, SubmitCall, CreateChart
<1>3. job' = [job EXCEPT ![j] = k] /\ lastNode' \in Nat
  BY <1>1, <1>2 DEF JobStarts, EditInv
<1> QED
  BY <1>1, <1>2, <1>3, CallEdits

LEMMA SubmissionsEdit ==
  ASSUME OrgInv, EditInv, NEW j \in Jobs,
         ResolveTarget(j) \/ ValidateTarget(j) \/ BuildAssignment(j)
  PROVE  EditInv'
<1>1. UNCHANGED <<lastNode, chart, page, history>>
  BY DEF ResolveTarget, ValidateTarget, BuildAssignment
<1>2. PICK old : old = job[j] /\ DOMAIN old = ChartCallFields /\ EditFits(old)
  BY DEF OrgInv, OrgType, EditInv
<1>3. CASE JobEnds(j)
  BY <1>1, <1>3, EndedEdits
<1>4. ASSUME NEW t, job' = [job EXCEPT ![j].target = t, ![j].pc = "validate"]
      PROVE  EditInv'
  <2>1. PICK k : k = [old EXCEPT !.target = t, !.pc = "validate"]
    OBVIOUS
  <2>2. k.pc = "validate" /\ k.before = old.before /\ k.after = old.after
    BY <1>2, <2>1 DEF ChartCallFields
  <2>3. EditFits(k)
    BY <1>2, <2>2 DEF EditFits
  <2>4. job' = [job EXCEPT ![j] = k]
    BY <1>2, <1>4, <2>1
  <2> QED
    BY <1>1, <2>3, <2>4, CallEdits DEF EditInv
<1>5. CASE job' = [job EXCEPT ![j].pc = "assign"]
  <2>1. PICK k : k = [old EXCEPT !.pc = "assign"]
    OBVIOUS
  <2>2. k.pc = "assign" /\ k.before = old.before /\ k.after = old.after
    BY <1>2, <2>1 DEF ChartCallFields
  <2>3. EditFits(k)
    BY <1>2, <2>2 DEF EditFits
  <2>4. job' = [job EXCEPT ![j] = k]
    BY <1>2, <1>5, <2>1
  <2> QED
    BY <1>1, <2>3, <2>4, CallEdits DEF EditInv
<1> QED
  BY <1>3, <1>4, <1>5 DEF ResolveTarget, ValidateTarget, BuildAssignment

(* A chart is written, by a call whose entry is still to come.             *)
LEMMA WrittenEdits ==
  ASSUME OrgInv, EditInv, NEW j \in Jobs, NEW k, EditFits(k), job' = [Races(job) EXCEPT ![j] = k],
         NEW s \in Scopes, NEW c, Stored(c), chart' = [chart EXCEPT ![s] = c],
         UNCHANGED <<lastNode, page, history>>
  PROVE  EditInv'
<1>1. \A i \in Jobs : Alike(job[i], job'[i]) \/ EditFits(job'[i])
  BY OneEdits
<1>2. \A t \in Scopes : chart'[t] = chart[t] \/ chart'[t] = c
  BY DEF OrgInv, OrgType
<1> QED
  BY <1>1, <1>2, EditsGoOn DEF EditInv

LEMMA InsertEdits ==
  ASSUME OrgInv, EditInv, NEW j \in Jobs, InsertChart(j)
  PROVE  EditInv'
<1>1. PICK s \in Scopes : s = job[j].at
  BY DEF InsertChart, OrgInv, ChartCallsFit, ChartCallFits
<1>2. PICK old : old = job[j] /\ DOMAIN old = ChartCallFields /\ EditFits(old) /\ old.pc = "insert"
  BY DEF OrgInv, OrgType, EditInv, InsertChart
<1>3. UNCHANGED <<lastNode, history>>
  BY DEF InsertChart
<1>4. CASE chart[s].status = "none"
  <2>1. /\ chart' = [chart EXCEPT ![s] = NewChart] /\ UNCHANGED page
        /\ job' = [Races(job) EXCEPT ![j].pc = "log", ![j].version = 1]
    BY <1>1, <1>4 DEF InsertChart
  <2>2. PICK l : l = Races(job)[j] /\ Alike(old, l)
    BY <1>2, RacesAlike
  <2>3. PICK k : k = [l EXCEPT !.pc = "log", !.version = 1]
    OBVIOUS
  <2>4. /\ k.pc = "log" /\ k.version = 1 /\ k.op = old.op /\ k.before = old.before
        /\ k.after = old.after
    BY <1>2, <2>2, <2>3 DEF ChartCallFields, Alike
  <2>5. EditFits(k)
    BY <1>2, <2>4 DEF EditFits, Kept
  <2>6. job' = [Races(job) EXCEPT ![j] = k]
    BY <2>1, <2>2, <2>3, RacesAlike
  <2>7. PICK c : c = NewChart
    OBVIOUS
  <2>8. Stored(c)
    BY <2>7, NoNodesTidy DEF NewChart, Stored, IsChart
  <2> QED
    BY <1>3, <2>1, <2>5, <2>6, <2>7, <2>8, WrittenEdits
<1>5. CASE chart[s].status # "none"
  <2>1. PICK g : g = [at |-> s, chart |-> chart[s]]
    OBVIOUS
  <2>2. page' = [page EXCEPT ![job[j].page] = g] /\ JobEnds(j) /\ UNCHANGED chart
    BY <1>1, <1>5, <2>1 DEF InsertChart
  <2>3. \A p \in Pages : page'[p] = page[p] \/ page'[p] = g
    BY <2>2 DEF OrgInv, OrgType
  <2>4. PageTyped(g)
    BY <2>1 DEF PageTyped, EditInv, Stored
  <2>5. \A i \in Jobs : Alike(job[i], job'[i]) \/ EditFits(job'[i])
    BY <2>2, EndEdits
  <2> QED
    BY <1>3, <2>2, <2>3, <2>4, <2>5, EditsGoOn DEF EditInv
<1> QED
  BY <1>4, <1>5

LEMMA ReplaceEdits ==
  ASSUME OrgInv, EditInv, NEW j \in Jobs, ReplaceChart(j)
  PROVE  EditInv'
<1>1. PICK s \in Scopes : s = job[j].at
  BY DEF ReplaceChart, OrgInv, ChartCallsFit, ChartCallFits
<1>2. PICK old : old = job[j] /\ DOMAIN old = ChartCallFields /\ EditFits(old) /\ old.pc = "replace"
  BY DEF OrgInv, OrgType, EditInv, ReplaceChart
<1>3. UNCHANGED <<lastNode, page, history>>
  BY DEF ReplaceChart
<1>4. CASE IsCurrent(j)
  <2>1. PICK n \in Nat : n = chart[s].version
    BY DEF OrgInv, ChartsFit
  <2>2. PICK c : c = [status |-> old.status, version |-> n + 1, nodes |-> old.after]
    OBVIOUS
  <2>3. /\ chart' = [chart EXCEPT ![s] = c]
        /\ job' = [Races(job) EXCEPT ![j].pc = "log", ![j].version = n + 1]
    BY <1>1, <1>2, <1>4, <2>1, <2>2 DEF ReplaceChart
  <2>4. PICK l : l = Races(job)[j] /\ Alike(old, l)
    BY <1>2, RacesAlike
  <2>5. PICK k : k = [l EXCEPT !.pc = "log", !.version = n + 1]
    OBVIOUS
  <2>6. /\ k.pc = "log" /\ k.version = n + 1 /\ k.op = old.op /\ k.status = old.status
        /\ k.before = old.before /\ k.after = old.after /\ k.user = old.user
        /\ k.relation = old.relation /\ k.anchor = old.anchor
    BY <1>2, <2>4, <2>5 DEF ChartCallFields, Alike
  <2>7. Kept(k)
    BY <1>2, <2>6 DEF EditFits, Kept, KeepsOrder
  <2>8. EditFits(k)
    BY <1>2, <2>6, <2>7 DEF EditFits
  <2>9. job' = [Races(job) EXCEPT ![j] = k]
    BY <2>3, <2>4, <2>5, RacesAlike
  <2>10. Stored(c)
    BY <1>2, <2>2 DEF EditFits, Stored, IsChart, Tidy, Statuses
  <2> QED
    BY <1>3, <2>3, <2>8, <2>9, <2>10, WrittenEdits
<1>5. CASE ~IsCurrent(j)
  <2>1. JobEnds(j) /\ UNCHANGED chart
    BY <1>5 DEF ReplaceChart
  <2> QED
    BY <1>3, <2>1, EndedEdits
<1> QED
  BY <1>4, <1>5

LEMMA LogEdits ==
  ASSUME OrgInv, EditInv, NEW j \in Jobs, LogChange(j) \/ LogFails(j)
  PROVE  EditInv'
<1>1. job[j].pc = "log" /\ JobEnds(j) /\ UNCHANGED <<lastNode, chart>>
  BY DEF LogChange, LogFails
<1>2. \A i \in Jobs : Alike(job[i], job'[i]) \/ EditFits(job'[i])
  BY <1>1, EndEdits
<1>3. EditFits(job[j]) /\ job[j].at \in Scopes
  BY <1>1 DEF EditInv, OrgInv, ChartCallsFit, ChartCallFits
<1>4. CASE LogChange(j)
  <2>1. PICK c : c = [status |-> IF job[j].op = "create" THEN "DRAFT" ELSE job[j].status,
                      version |-> job[j].version, nodes |-> job[j].after]
    OBVIOUS
  <2>2. PICK g : g = [at |-> job[j].at, chart |-> c]
    OBVIOUS
  <2>3. PICK e : e = Entry(j)
    OBVIOUS
  <2>4. history' = history \cup {e} /\ page' = [page EXCEPT ![job[j].page] = g]
    BY <1>4, <2>1, <2>2, <2>3 DEF LogChange
  <2>5. \A p \in Pages : page'[p] = page[p] \/ page'[p] = g
    BY <2>4 DEF OrgInv, OrgType
  <2>6. PageTyped(g)
    BY <1>1, <1>3, <2>1, <2>2 DEF PageTyped, IsChart, EditFits, Statuses
  <2>7. IsNodes(e.before) /\ IsNodes(e.after)
    BY <1>3, <2>3 DEF Entry, EditFits
  <2> QED
    BY <1>1, <1>2, <2>4, <2>5, <2>6, <2>7, EditsGoOn DEF EditInv
<1>5. CASE LogFails(j)
  <2>1. UNCHANGED <<page, history>>
    BY <1>5 DEF LogFails
  <2> QED
    BY <1>1, <2>1, EndedEdits
<1> QED
  BY <1>4, <1>5

LEMMA EditsInit == OrgChartInit => EditInv
<1> SUFFICES ASSUME OrgChartInit PROVE EditInv
  OBVIOUS
<1>1. PICK seed \in Seeds : chart = seed.chart
  BY DEF OrgChartInit
<1>2. \A s \in Scopes : Stored(chart[s])
  BY <1>1, OrgChartSeeds DEF Stored, Tidy, IsChart
<1>3. lastNode \in Nat
  BY OrgChartAssumption, FS_CardinalityType DEF OrgChartInit
<1>4. IsChart(NoChart)
  BY NoNodesTidy DEF IsChart, NoChart
<1>5. \A p \in Pages : PageTyped(page[p])
  BY <1>4 DEF OrgChartInit, PageTyped
<1>6. \A j \in Jobs : EditFits(job[j])
  BY NoJobEdits DEF OrgChartInit
<1> QED
  BY <1>2, <1>3, <1>5, <1>6 DEF OrgChartInit, EditInv

LEMMA EditsStep == OrgInv /\ EditInv /\ [OrgChartNext]_chartVars => EditInv'
<1> SUFFICES ASSUME OrgInv, EditInv, [OrgChartNext]_chartVars PROVE EditInv'
  OBVIOUS
<1>1. ASSUME NEW p \in Pages, NEW s \in Scopes, OpenPage(p, s)
      PROVE  EditInv'
  <2>1. PICK g : g = [at |-> s, chart |-> chart[s]]
    OBVIOUS
  <2>2. page' = [page EXCEPT ![p] = g] /\ UNCHANGED <<lastNode, chart, job, history>>
    BY <1>1, <2>1 DEF OpenPage
  <2>3. \A q \in Pages : page'[q] = page[q] \/ page'[q] = g
    BY <2>2 DEF OrgInv, OrgType
  <2>4. PageTyped(g)
    BY <2>1 DEF PageTyped, EditInv, Stored
  <2>5. \A i \in Jobs : Alike(job[i], job'[i])
    BY <2>2 DEF Alike
  <2> QED
    BY <2>2, <2>3, <2>4, <2>5, EditsGoOn DEF EditInv
<1>2. CASE \E j \in Jobs, p \in Pages :
             AddCall(j, p) \/ RemoveCall(j, p) \/ ActivateCall(j, p) \/ ArchiveCall(j, p)
  BY <1>2, AddEdits, RemoveEdits, StatusEdits
<1>3. CASE \E j \in Jobs : InsertChart(j) \/ ReplaceChart(j) \/ LogChange(j) \/ LogFails(j)
  BY <1>3, InsertEdits, ReplaceEdits, LogEdits
<1>4. CASE \E j \in Jobs : \/ MoveCall(j) \/ SubmitCall(j)
                           \/ \E p \in Pages, s \in Scopes : CreateChart(j, p, s)
  BY <1>4, PlainCallsEdit
<1>5. CASE \E j \in Jobs : ResolveTarget(j) \/ ValidateTarget(j) \/ BuildAssignment(j)
  BY <1>5, SubmissionsEdit
<1>6. ASSUME NEW j \in Jobs, WriteScope(j)
      PROVE  EditInv'
  <2>1. PICK k : k = NoJob /\ EditFits(k)
    BY NoJobEdits
  <2>2. job' = [Races(job) EXCEPT ![j] = k] /\ UNCHANGED <<lastNode, chart, page, history>>
    BY <1>6, <2>1 DEF WriteScope
  <2>3. \A i \in Jobs : Alike(job[i], job'[i]) \/ EditFits(job'[i])
    BY <2>1, <2>2, OneEdits
  <2> QED
    BY <2>2, <2>3, EditsGoOn DEF EditInv
<1>7. CASE UNCHANGED chartVars \/ \E u \in Users : SetActive(u)
  <2>1. UNCHANGED <<lastNode, chart, page, history>> /\ (UNCHANGED job \/ job' = Races(job))
    BY <1>7 DEF chartVars, SetActive
  <2>2. \A i \in Jobs : Alike(job[i], job[i])
    BY DEF Alike
  <2>3. \A i \in Jobs : Alike(job[i], job'[i])
    BY <2>1, <2>2, RacesAlike
  <2> QED
    BY <2>1, <2>3, EditsGoOn DEF EditInv
<1> QED
  BY <1>1, <1>2, <1>3, <1>4, <1>5, <1>6, <1>7 DEF OrgChartNext

LEMMA EditsInvariant == OrgChartSpec => [](OrgInv /\ EditInv)
<1>1. OrgChartInit => OrgInv /\ EditInv
  BY OrgInvInit, EditsInit
<1>2. OrgInv /\ EditInv /\ [OrgChartNext]_chartVars => (OrgInv /\ EditInv)'
  BY OrgInvStep, EditsStep
<1> QED
  BY <1>1, <1>2, PTL DEF OrgChartSpec

LEMMA ChartsTyped ==
  ASSUME OrgInv, EditInv
  PROVE  OrgChartTypeOK
<1>1. \A s \in Scopes : IsChart(chart[s]) /\ (chart[s].status = "none" <=> chart[s].version = 0)
  BY DEF EditInv, Stored
<1>2. \A p \in Pages : page[p].at \in Scopes \cup {Null} /\ IsChart(page[p].chart)
  BY DEF EditInv, PageTyped
<1>3. \A j \in Jobs : job[j].pc \in {"idle", "insert", "replace", "log", "write", "resolve",
                                     "validate", "assign"}
  BY DEF EditInv, EditFits
<1> QED
  BY <1>1, <1>2, <1>3 DEF OrgChartTypeOK, OrgInv, OrgType, EditInv

(* Charts, pages, handlers and the history hold what the code puts there,  *)
(* for any number of users and scopes (hierarchy.repository.js).           *)
THEOREM OrgTypeCorrect == OrgChartSpec => []OrgChartTypeOK
<1>1. OrgInv /\ EditInv => OrgChartTypeOK
  BY ChartsTyped
<1> QED
  BY <1>1, EditsInvariant, PTL

(* An edit leaves the others of a chart their superiors and their order,   *)
(* and siblings numbered without a gap, however large the chart and        *)
(* whatever is edited at the same time (domain/hierarchy.js addNode,       *)
(* removeNode, normalizeSortOrder).                                        *)
THEOREM EditsKeepTheOthers == OrgChartSpec => []EditsKeepOthers
<1>1. EditInv => EditsKeepOthers
  <2> SUFFICES ASSUME EditInv PROVE EditsKeepOthers
    OBVIOUS
  <2>1. \A j \in Jobs : job[j].pc = "log" => Kept(job[j])
    BY DEF EditInv, EditFits
  <2>2. /\ \A c \in Accepted("add") : c.op = "add" /\ Kept(c)
        /\ \A c \in Accepted("remove") : c.op = "remove" /\ Kept(c)
    BY <2>1 DEF Accepted
  <2>3. EditsKeepLines
    BY <2>2 DEF Kept, EditsKeepLines
  <2>4. EditsKeepPlaces
    BY <2>2 DEF Kept, EditsKeepPlaces
  <2> QED
    BY <2>3, <2>4 DEF EditsKeepOthers
<1> QED
  BY <1>1, EditsInvariant, PTL

----------------------------------------------------------------------------
(* Reports, and the reporting line they follow.                            *)

ReportFields ==
  {"op", "pc", "actor", "by", "asked", "allowed", "found", "frontier", "next", "deep",
   "visible", "ids", "rows", "user", "old", "new", "stirred"}

ReportType ==
  /\ enabled \subseteq People /\ manager \in [People -> People \cup {NoManager}]
  /\ DOMAIN reportCall = ReportCalls
  /\ \A c \in ReportCalls : DOMAIN reportCall[c] = ReportFields

(* ClosedLine, of the enabled people e and their managers f.               *)
Under(e, f, m) == {u \in e : f[u] = m}
LineClosed(e, f, a, X, deep) ==
  a \in X /\ \A m \in (IF deep THEN X ELSE {a}) : Under(e, f, m) \subseteq X

(* A walk has found nobody but the actor's team, and left nobody out under *)
(* those whose turn is over.                                               *)
WalkFits(k, e, f) ==
  ~k.stirred =>
    /\ k.pc = "walk" =>
         /\ k.actor \in k.found /\ k.frontier \cup k.next \subseteq k.found
         /\ ~k.deep => k.frontier \subseteq {k.actor}
         /\ \A m \in k.found \ (k.frontier \cup k.next) : Under(e, f, m) \subseteq k.found
         /\ \A X : LineClosed(e, f, k.actor, X, k.deep) => k.found \subseteq X
    /\ k.pc = "narrow" /\ k.found # {} =>
         /\ LineClosed(e, f, k.actor, k.found, k.deep)
         /\ \A X : LineClosed(e, f, k.actor, X, k.deep) => k.found \subseteq X

(* The users queried for are visible ones, and ones that were asked for.   *)
IdsFit(k) ==
  \/ k.ids = Everyone /\ k.visible = Everyone /\ k.by = "none"
  \/ /\ k.ids # Everyone /\ (k.visible # Everyone => k.ids \subseteq k.visible)
     /\ k.by # "none" => k.ids \subseteq k.asked
RowsFit(k) ==
  k.ids # {} => /\ k.visible # Everyone => k.rows \subseteq k.visible
                /\ k.by # "none" => k.rows \subseteq k.asked

ReportFits(k) ==
  /\ k.pc = "scope" => k.found = {} /\ k.next = {}
  /\ k.pc \in {"scope", "walk", "narrow", "query", "tell"} => k.by \in Narrowing
  /\ k.pc \in {"scope", "walk", "narrow"} => k.asked \subseteq People
  /\ k.pc = "query" => IdsFit(k)
  /\ k.pc = "tell" => RowsFit(k)
  /\ k.pc \in {"save", "history"} => k.user \in People /\ k.new \in People \cup {NoManager}

(* The manager of u is the one an entry tells of, written or to be written.*)
LineTold(u, m) ==
  \/ \E h \in lineHistory : h.user = u /\ h.new = m
  \/ \E c \in ReportCalls : /\ reportCall[c].pc = "history" /\ reportCall[c].user = u
                            /\ reportCall[c].new = m
LineUntold(u) ==
  /\ \A h \in lineHistory : h.user # u
  /\ \A c \in ReportCalls : ~(reportCall[c].pc = "history" /\ reportCall[c].user = u)
LineFits == \A u \in People \ unexplained : \A m : manager[u] = m => LineUntold(u) \/ LineTold(u, m)

ReportInv ==
  /\ ReportType
  /\ \A c \in ReportCalls : ReportFits(reportCall[c]) /\ WalkFits(reportCall[c], enabled, manager)
  /\ LineFits /\ ReportBounded

LEMMA NoReportCallIs ==
  /\ DOMAIN NoReportCall = ReportFields /\ NoReportCall.pc = "idle" /\ NoReportCall.found = {}
  /\ ReportFits(NoReportCall) /\ \A e, f : WalkFits(NoReportCall, e, f)
<1>1. DOMAIN NoReportCall = ReportFields /\ NoReportCall.pc = "idle" /\ NoReportCall.found = {}
  BY DEF NoReportCall, ReportFields
<1> QED
  BY <1>1 DEF ReportFits, WalkFits

(* The line does not move, and the history does not while a change is told.*)
LEMMA LineStays ==
  ASSUME ReportInv, UNCHANGED <<manager, lineHistory>>, unexplained \subseteq unexplained',
         NEW c \in ReportCalls, NEW k, reportCall' = [reportCall EXCEPT ![c] = k],
         k.pc # "history",
         reportCall[c].pc = "history" => reportCall[c].user \in unexplained'
  PROVE  LineFits'
<1>1. \A i \in ReportCalls : reportCall'[i] = IF i = c THEN k ELSE reportCall[i]
  BY DEF ReportInv, ReportType
<1> SUFFICES ASSUME NEW u \in People \ unexplained', NEW m, manager[u] = m
             PROVE  LineUntold(u)' \/ LineTold(u, m)'
  BY DEF LineFits
<1>2. LineUntold(u) \/ LineTold(u, m)
  BY DEF ReportInv, LineFits
<1>3. ~(reportCall[c].pc = "history" /\ reportCall[c].user = u)
  OBVIOUS
<1>4. LineUntold(u) => LineUntold(u)'
  BY <1>1 DEF LineUntold
<1>5. LineTold(u, m) => LineTold(u, m)'
  BY <1>1, <1>3 DEF LineTold
<1> QED
  BY <1>2, <1>4, <1>5

(* One call moves, and writes nothing of the line.                         *)
LEMMA ReportMoves ==
  ASSUME ReportInv, UNCHANGED <<manager, enabled, lineHistory>>, unexplained \subseteq unexplained',
         NEW c \in ReportCalls, NEW k, reportCall' = [reportCall EXCEPT ![c] = k],
         DOMAIN k = ReportFields, ReportFits(k), WalkFits(k, enabled, manager), k.pc # "history",
         reportCall[c].pc = "history" => reportCall[c].user \in unexplained',
         ReportBounded'
  PROVE  ReportInv'
<1>1. /\ DOMAIN reportCall' = ReportCalls
      /\ \A i \in ReportCalls : reportCall'[i] = IF i = c THEN k ELSE reportCall[i]
  BY DEF ReportInv, ReportType
<1>2. ReportType'
  BY <1>1 DEF ReportInv, ReportType
<1>3. \A i \in ReportCalls : ReportFits(reportCall'[i]) /\ WalkFits(reportCall'[i], enabled, manager)
  BY <1>1 DEF ReportInv
<1>4. \A i \in ReportCalls : (ReportFits(reportCall[i]) /\ WalkFits(reportCall[i], enabled, manager))'
  BY <1>3
<1> QED
  BY <1>2, <1>4, LineStays DEF ReportInv

LEMMA ShownStays ==
  ASSUME ReportInv, UNCHANGED <<viewed, shown>>
  PROVE  ReportBounded'
BY DEF ReportInv, ReportBounded

LEMMA BeginReportKeeps ==
  ASSUME ReportInv, NEW c \in ReportCalls, NEW a, NEW by \in Narrowing,
         NEW asked \in Searches \cup {{}}, BeginReport(c, a, by, asked)
  PROVE  ReportInv'
<1>1. PICK k : k = [NoReportCall EXCEPT !.op = "report", !.pc = "scope", !.actor = a,
                                        !.by = by, !.asked = asked]
  OBVIOUS
<1>2. /\ DOMAIN k = ReportFields /\ k.pc = "scope" /\ k.found = {} /\ k.next = {} /\ k.by = by
      /\ k.asked = asked
  BY <1>1 DEF NoReportCall, ReportFields
<1>3. asked \subseteq People
  BY ReportsAssumption
<1>4. ReportFits(k) /\ WalkFits(k, enabled, manager)
  BY <1>2, <1>3 DEF ReportFits, WalkFits
<1>5. /\ reportCall' = [reportCall EXCEPT ![c] = k] /\ reportCall[c].pc = "idle"
      /\ UNCHANGED <<manager, enabled, lineHistory, viewed, shown, unexplained>>
  BY <1>1 DEF BeginReport, BeginReportCall
<1> QED
  BY <1>2, <1>4, <1>5, ShownStays, ReportMoves

LEMMA ReadScopesKeeps ==
  ASSUME ReportInv, NEW c \in ReportCalls, ReadScopes(c)
  PROVE  ReportInv'
<1>1. PICK old : old = reportCall[c] /\ DOMAIN old = ReportFields /\ ReportFits(old)
  BY DEF ReportInv, ReportType
<1>2. /\ old.pc = "scope"
      /\ UNCHANGED <<manager, enabled, lineHistory, viewed, shown, unexplained>>
  BY <1>1 DEF ReadScopes
<1>3. \/ \E v : reportCall' = [reportCall EXCEPT ![c] = [old EXCEPT !.pc = "narrow", !.visible = v]]
      \/ \E w, d : reportCall' = [reportCall EXCEPT ![c] =
            [old EXCEPT !.pc = "walk", !.allowed = w, !.found = {old.actor}, !.frontier = {old.actor},
                        !.deep = d, !.stirred = FALSE]]
  BY <1>1 DEF ReadScopes
<1>4. ASSUME NEW v, reportCall' = [reportCall EXCEPT ![c] = [old EXCEPT !.pc = "narrow", !.visible = v]]
      PROVE  ReportInv'
  <2>1. PICK k : k = [old EXCEPT !.pc = "narrow", !.visible = v]
    OBVIOUS
  <2>2. /\ DOMAIN k = ReportFields /\ k.pc = "narrow" /\ k.by = old.by /\ k.asked = old.asked
        /\ k.found = {}
    BY <1>1, <1>2, <2>1 DEF ReportFits, ReportFields
  <2>3. ReportFits(k) /\ WalkFits(k, enabled, manager)
    BY <1>1, <1>2, <2>2 DEF ReportFits, WalkFits
  <2>4. reportCall' = [reportCall EXCEPT ![c] = k]
    BY <1>4, <2>1
  <2> QED
    BY <1>1, <1>2, <2>2, <2>3, <2>4, ShownStays, ReportMoves
<1>5. ASSUME NEW w, NEW d, reportCall' = [reportCall EXCEPT ![c] =
            [old EXCEPT !.pc = "walk", !.allowed = w, !.found = {old.actor}, !.frontier = {old.actor},
                        !.deep = d, !.stirred = FALSE]]
      PROVE  ReportInv'
  <2>1. PICK k : k = [old EXCEPT !.pc = "walk", !.allowed = w, !.found = {old.actor},
                        !.frontier = {old.actor}, !.deep = d, !.stirred = FALSE]
    OBVIOUS
  <2>2. /\ DOMAIN k = ReportFields /\ k.pc = "walk" /\ k.by = old.by /\ k.asked = old.asked
        /\ k.found = {k.actor} /\ k.frontier = {k.actor}
    BY <1>1, <2>1 DEF ReportFields
  <2>3. ReportFits(k)
    BY <1>1, <1>2, <2>2 DEF ReportFits
  <2>4. k.next = {}
    BY <1>1, <1>2, <2>1 DEF ReportFits, ReportFields
  <2>5. WalkFits(k, enabled, manager)
    BY <2>2, <2>4 DEF WalkFits, LineClosed
  <2>6. reportCall' = [reportCall EXCEPT ![c] = k]
    BY <1>5, <2>1
  <2> QED
    BY <1>1, <1>2, <2>2, <2>3, <2>5, <2>6, ShownStays, ReportMoves
<1> QED
  BY <1>3, <1>4, <1>5

(* One manager of the level is asked; the walk goes on, or is done.        *)
LEMMA WalkOnIs ==
  ASSUME NEW k, DOMAIN k = ReportFields, k.pc = "walk", NEW m
  PROVE  LET l == WalkOn(k, m)
             reports == DirectReports(m)
             rest == k.frontier \ {m}
             next == k.next \cup (reports \ k.found)
         IN  /\ DOMAIN l = ReportFields /\ l.by = k.by /\ l.asked = k.asked /\ l.actor = k.actor
             /\ l.deep = k.deep /\ l.stirred = k.stirred /\ l.found = k.found \cup reports
             /\ \/ l.pc = "walk" /\ l.frontier = rest /\ l.next = next
                \/ l.pc = "walk" /\ k.deep /\ rest = {} /\ l.frontier = next /\ l.next = {}
                \/ l.pc = "narrow" /\ rest = {} /\ (k.deep => next = {})
<1> DEFINE l == WalkOn(k, m)
           reports == DirectReports(m)
           rest == k.frontier \ {m}
           next == k.next \cup (reports \ k.found)
<1>1. PICK R, S, N : R = reports /\ S = rest /\ N = next
  OBVIOUS
<1>2. PICK w : w = [k EXCEPT !.found = k.found \cup R, !.frontier = S, !.next = N]
  OBVIOUS
<1>3. /\ DOMAIN w = ReportFields /\ w.by = k.by /\ w.asked = k.asked /\ w.actor = k.actor
      /\ w.deep = k.deep /\ w.stirred = k.stirred /\ w.found = k.found \cup R
      /\ w.pc = "walk" /\ w.frontier = S /\ w.next = N /\ w.allowed = k.allowed
  BY <1>2 DEF ReportFields
<1>4. CASE S # {}
  <2>1. l = w
    BY <1>1, <1>2, <1>4 DEF WalkOn
  <2> QED
    BY <1>1, <1>3, <2>1
<1>5. CASE S = {} /\ k.deep /\ N # {}
  <2>1. PICK x : x = [w EXCEPT !.frontier = N, !.next = {}]
    OBVIOUS
  <2>2. l = x
    BY <1>1, <1>2, <1>5, <2>1 DEF WalkOn
  <2>3. /\ DOMAIN x = ReportFields /\ x.by = k.by /\ x.asked = k.asked /\ x.actor = k.actor
        /\ x.deep = k.deep /\ x.stirred = k.stirred /\ x.found = k.found \cup R
        /\ x.pc = "walk" /\ x.frontier = N /\ x.next = {}
    BY <1>3, <2>1 DEF ReportFields
  <2> QED
    BY <1>1, <1>5, <2>2, <2>3
<1>6. CASE S = {} /\ ~(k.deep /\ N # {})
  <2>1. PICK v : v = k.allowed \cup w.found
    OBVIOUS
  <2>2. PICK x : x = [w EXCEPT !.pc = "narrow", !.visible = v]
    OBVIOUS
  <2>3. l = x
    BY <1>1, <1>2, <1>6, <2>1, <2>2 DEF WalkOn
  <2>4. /\ DOMAIN x = ReportFields /\ x.by = k.by /\ x.asked = k.asked /\ x.actor = k.actor
        /\ x.deep = k.deep /\ x.stirred = k.stirred /\ x.found = k.found \cup R
        /\ x.pc = "narrow"
    BY <1>3, <2>2 DEF ReportFields
  <2> QED
    BY <1>1, <1>6, <2>3, <2>4
<1> QED
  BY <1>4, <1>5, <1>6

LEMMA WalkOnFits ==
  ASSUME NEW k, DOMAIN k = ReportFields, k.pc = "walk", NEW m \in k.frontier, ~k.stirred,
         WalkFits(k, enabled, manager)
  PROVE  WalkFits(WalkOn(k, m), enabled, manager)
<1>1. PICK R, S, N : R = DirectReports(m) /\ S = k.frontier \ {m} /\ N = k.next \cup (R \ k.found)
  OBVIOUS
<1>2. PICK l : l = WalkOn(k, m)
  OBVIOUS
<1>3. /\ DOMAIN l = ReportFields /\ l.by = k.by /\ l.asked = k.asked /\ l.actor = k.actor
      /\ l.deep = k.deep /\ l.stirred = k.stirred /\ l.found = k.found \cup R
      /\ \/ l.pc = "walk" /\ l.frontier = S /\ l.next = N
         \/ l.pc = "walk" /\ k.deep /\ S = {} /\ l.frontier = N /\ l.next = {}
         \/ l.pc = "narrow" /\ S = {} /\ (k.deep => N = {})
  BY <1>1, <1>2, WalkOnIs
<1>4. /\ k.actor \in k.found /\ k.frontier \cup k.next \subseteq k.found
      /\ ~k.deep => k.frontier \subseteq {k.actor}
      /\ \A x \in k.found \ (k.frontier \cup k.next) : Under(enabled, manager, x) \subseteq k.found
      /\ \A X : LineClosed(enabled, manager, k.actor, X, k.deep) => k.found \subseteq X
  BY DEF WalkFits
<1>5. R = Under(enabled, manager, m)
  BY <1>1 DEF DirectReports, Under
<1>6. \A X : LineClosed(enabled, manager, l.actor, X, l.deep) => l.found \subseteq X
  BY <1>3, <1>4, <1>5 DEF LineClosed
<1>7. \A x \in l.found \ (S \cup N) : Under(enabled, manager, x) \subseteq l.found
  BY <1>1, <1>3, <1>4, <1>5
<1>8. CASE l.pc = "walk"
  <2>1. l.frontier \cup l.next = S \cup N
    BY <1>3, <1>8
  <2>2. S \cup N \subseteq l.found /\ l.actor \in l.found
    BY <1>1, <1>3, <1>4
  <2>3. ~l.deep => l.frontier \subseteq {l.actor}
    BY <1>1, <1>3, <1>4, <1>8
  <2> QED
    BY <1>2, <1>6, <1>7, <1>8, <2>1, <2>2, <2>3 DEF WalkFits
<1>9. CASE l.pc = "narrow"
  <2>1. l.actor \in l.found
    BY <1>3, <1>4
  <2>2. CASE k.deep
    <3>1. \A x \in l.found : Under(enabled, manager, x) \subseteq l.found
      BY <1>3, <1>7, <1>9, <2>2
    <3>2. LineClosed(enabled, manager, l.actor, l.found, l.deep)
      BY <1>3, <2>1, <2>2, <3>1 DEF LineClosed
    <3> QED
      BY <1>2, <1>6, <1>9, <3>2 DEF WalkFits
  <2>3. CASE ~k.deep
    <3>1. m = l.actor
      BY <1>3, <1>4, <2>3
    <3>2. LineClosed(enabled, manager, l.actor, l.found, l.deep)
      BY <1>3, <1>5, <2>1, <2>3, <3>1 DEF LineClosed
    <3> QED
      BY <1>2, <1>6, <1>9, <3>2 DEF WalkFits
  <2> QED
    BY <2>2, <2>3
<1> QED
  BY <1>3, <1>8, <1>9

LEMMA WalkLineKeeps ==
  ASSUME ReportInv, NEW c \in ReportCalls, WalkLine(c)
  PROVE  ReportInv'
<1>1. PICK old : /\ old = reportCall[c] /\ DOMAIN old = ReportFields /\ ReportFits(old)
                 /\ WalkFits(old, enabled, manager)
  BY DEF ReportInv, ReportType
<1>2. /\ old.pc = "walk"
      /\ UNCHANGED <<manager, enabled, lineHistory, viewed, shown, unexplained>>
  BY <1>1 DEF WalkLine
<1>3. PICK m \in old.frontier : reportCall' = [reportCall EXCEPT ![c] = WalkOn(old, m)]
  BY <1>1 DEF WalkLine
<1>4. PICK l : l = WalkOn(old, m)
  OBVIOUS
<1>5. /\ DOMAIN l = ReportFields /\ l.by = old.by /\ l.asked = old.asked
      /\ l.stirred = old.stirred /\ l.pc \in {"walk", "narrow"}
  BY <1>1, <1>2, <1>4, WalkOnIs
<1>6. WalkFits(l, enabled, manager)
  <2>1. CASE old.stirred
    BY <1>5, <2>1 DEF WalkFits
  <2>2. CASE ~old.stirred
    BY <1>1, <1>2, <1>4, <2>2, WalkOnFits
  <2> QED
    BY <2>1, <2>2
<1>7. ReportFits(l)
  BY <1>1, <1>2, <1>5 DEF ReportFits
<1>8. reportCall' = [reportCall EXCEPT ![c] = l]
  BY <1>3, <1>4
<1> QED
  BY <1>1, <1>2, <1>5, <1>6, <1>7, <1>8, ShownStays, ReportMoves

LEMMA NarrowReportKeeps ==
  ASSUME ReportInv, NEW c \in ReportCalls, NarrowReport(c)
  PROVE  ReportInv'
<1>1. PICK old : old = reportCall[c] /\ DOMAIN old = ReportFields /\ ReportFits(old)
  BY DEF ReportInv, ReportType
<1>2. /\ old.pc = "narrow"
      /\ UNCHANGED <<manager, enabled, lineHistory, viewed, shown, unexplained>>
  BY <1>1 DEF NarrowReport
<1>3. PICK ids, asked, team : /\ ids = ResolveUserIds(old) /\ team = DirectReports(old.actor)
                              /\ asked = IF old.by = "team" THEN team ELSE old.asked
  OBVIOUS
<1>4. PICK k : k = [old EXCEPT !.pc = "query", !.ids = ids, !.asked = asked]
  OBVIOUS
<1>5. /\ DOMAIN k = ReportFields /\ k.pc = "query" /\ k.by = old.by /\ k.visible = old.visible
      /\ k.ids = ids /\ k.asked = asked
  BY <1>1, <1>4 DEF ReportFields
<1>6. team \subseteq People
  BY <1>3 DEF DirectReports, ReportInv, ReportType
<1>7. /\ old.by \in Narrowing /\ asked \subseteq People
  BY <1>1, <1>2, <1>3, <1>6 DEF ReportFits
<1>8. \A s \in SUBSET People : s # Everyone
  BY ReportsAssumption
<1>9. /\ old.by = "none" => ids = old.visible
      /\ old.by # "none" => ids = Narrowed(old.visible, asked)
  BY <1>3, <1>7 DEF ResolveUserIds, Narrowing
<1>10. old.by # "none" => /\ ids # Everyone /\ ids \subseteq asked
                          /\ old.visible # Everyone => ids \subseteq old.visible
  BY <1>7, <1>8, <1>9 DEF Narrowed
<1>11. IdsFit(k)
  BY <1>5, <1>9, <1>10 DEF IdsFit
<1>12. ReportFits(k) /\ WalkFits(k, enabled, manager)
  BY <1>5, <1>7, <1>11 DEF ReportFits, WalkFits
<1>13. reportCall' = [reportCall EXCEPT ![c] = k]
  BY <1>1, <1>3, <1>4 DEF NarrowReport
<1> QED
  BY <1>1, <1>2, <1>5, <1>12, <1>13, ShownStays, ReportMoves

LEMMA QueryRowsKeeps ==
  ASSUME ReportInv, NEW c \in ReportCalls, QueryRows(c)
  PROVE  ReportInv'
<1>1. PICK old : old = reportCall[c] /\ DOMAIN old = ReportFields /\ ReportFits(old)
  BY DEF ReportInv, ReportType
<1>2. /\ old.pc = "query"
      /\ UNCHANGED <<manager, enabled, lineHistory, viewed, shown, unexplained>>
  BY <1>1 DEF QueryRows
<1>3. PICK rows : rows = IF old.ids \in {Everyone, {}} THEN People ELSE old.ids
  OBVIOUS
<1>4. PICK k : k = [old EXCEPT !.pc = "tell", !.rows = rows]
  OBVIOUS
<1>5. /\ DOMAIN k = ReportFields /\ k.pc = "tell" /\ k.by = old.by /\ k.visible = old.visible
      /\ k.ids = old.ids /\ k.asked = old.asked /\ k.rows = rows
  BY <1>1, <1>4 DEF ReportFields
<1>6. IdsFit(old) /\ old.by \in Narrowing
  BY <1>1, <1>2 DEF ReportFits
<1>7. RowsFit(k)
  BY <1>3, <1>5, <1>6 DEF IdsFit, RowsFit
<1>8. ReportFits(k) /\ WalkFits(k, enabled, manager)
  BY <1>5, <1>6, <1>7 DEF ReportFits, WalkFits
<1>9. reportCall' = [reportCall EXCEPT ![c] = k]
  BY <1>1, <1>3, <1>4 DEF QueryRows
<1> QED
  BY <1>1, <1>2, <1>5, <1>8, <1>9, ShownStays, ReportMoves

LEMMA RecordAndShowKeeps ==
  ASSUME ReportInv, NEW c \in ReportCalls, RecordAndShow(c)
  PROVE  ReportInv'
<1>1. PICK old : old = reportCall[c] /\ DOMAIN old = ReportFields /\ ReportFits(old)
  BY DEF ReportInv, ReportType
<1>2. /\ old.pc = "tell" /\ reportCall' = [reportCall EXCEPT ![c] = NoReportCall]
      /\ UNCHANGED <<manager, enabled, lineHistory, unexplained>>
  BY <1>1 DEF RecordAndShow
<1>3. PICK v : v = [actor |-> old.actor, by |-> old.by, rows |-> old.rows]
  OBVIOUS
<1>4. PICK s : s = [actor |-> old.actor, by |-> old.by, rows |-> old.rows,
                    visible |-> old.visible, asked |-> old.asked, ids |-> old.ids]
  OBVIOUS
<1>5. viewed' = viewed \cup {v} /\ shown' = shown \cup {s}
  BY <1>1, <1>3, <1>4 DEF RecordAndShow, View
<1>6. RowsFit(old)
  BY <1>1, <1>2 DEF ReportFits
<1>7. /\ [actor |-> s.actor, by |-> s.by, rows |-> s.rows] = v
      /\ s.ids # {} => /\ s.visible # Everyone => s.rows \subseteq s.visible
                       /\ s.by # "none" => s.rows \subseteq s.asked
  BY <1>3, <1>4, <1>6 DEF RowsFit
<1>8. ReportBounded'
  BY <1>5, <1>7 DEF ReportInv, ReportBounded
<1>9. PICK k : k = NoReportCall
  OBVIOUS
<1>10. /\ DOMAIN k = ReportFields /\ ReportFits(k) /\ WalkFits(k, enabled, manager)
       /\ k.pc # "history" /\ reportCall' = [reportCall EXCEPT ![c] = k]
  BY <1>2, <1>9, NoReportCallIs
<1> QED
  BY <1>1, <1>2, <1>8, <1>10, ReportMoves

LEMMA BeginAssignKeeps ==
  ASSUME ReportInv, NEW c \in ReportCalls, NEW u \in People, NEW m, BeginAssign(c, u, m)
  PROVE  ReportInv'
<1>1. PICK k : k = [NoReportCall EXCEPT !.op = "assign", !.pc = "save", !.user = u,
                                        !.old = manager[u], !.new = m]
  OBVIOUS
<1>2. DOMAIN k = ReportFields /\ k.pc = "save" /\ k.user = u /\ k.new = m
  BY <1>1 DEF NoReportCall, ReportFields
<1>3. m \in People \cup {NoManager}
  BY DEF BeginAssign, ReportInv, ReportType
<1>4. ReportFits(k) /\ WalkFits(k, enabled, manager)
  BY <1>2, <1>3 DEF ReportFits, WalkFits
<1>5. /\ reportCall' = [reportCall EXCEPT ![c] = k] /\ reportCall[c].pc = "idle"
      /\ UNCHANGED <<manager, enabled, lineHistory, viewed, shown, unexplained>>
  BY <1>1 DEF BeginAssign, BeginReportCall
<1> QED
  BY <1>2, <1>4, <1>5, ShownStays, ReportMoves

(* The line moves: every walk is marked.                                   *)
LEMMA LineMoves ==
  ASSUME ReportInv, NEW calls, DOMAIN calls = ReportCalls,
         \A i \in ReportCalls : DOMAIN calls[i] = ReportFields /\ ReportFits(calls[i]),
         reportCall' = Stirred(calls),
         enabled' \subseteq People, manager' \in [People -> People \cup {NoManager}],
         UNCHANGED <<viewed, shown>>, LineFits'
  PROVE  ReportInv'
<1>1. ASSUME NEW i \in ReportCalls
      PROVE  DOMAIN reportCall'[i] = ReportFields /\ ReportFits(reportCall'[i]) /\ reportCall'[i].stirred
  <2>1. PICK k : k = calls[i] /\ DOMAIN k = ReportFields /\ ReportFits(k)
    OBVIOUS
  <2>2. PICK l : l = [k EXCEPT !.stirred = TRUE]
    OBVIOUS
  <2>3. /\ DOMAIN l = ReportFields /\ l.stirred = TRUE /\ l.pc = k.pc /\ l.found = k.found
        /\ l.next = k.next /\ l.by = k.by /\ l.asked = k.asked /\ l.ids = k.ids
        /\ l.visible = k.visible /\ l.rows = k.rows /\ l.user = k.user /\ l.new = k.new
    BY <2>1, <2>2 DEF ReportFields
  <2>4. ReportFits(l)
    BY <2>1, <2>3 DEF ReportFits, IdsFit, RowsFit
  <2>5. reportCall'[i] = l
    BY <2>1, <2>2 DEF Stirred
  <2> QED
    BY <2>3, <2>4, <2>5
<1>2. ReportType'
  BY <1>1 DEF ReportType, Stirred
<1>3. \A i \in ReportCalls : (ReportFits(reportCall[i]) /\ WalkFits(reportCall[i], enabled, manager))'
  BY <1>1 DEF WalkFits
<1> QED
  BY <1>2, <1>3, ShownStays DEF ReportInv

LEMMA CallsFitNow ==
  ASSUME ReportInv
  PROVE  /\ DOMAIN reportCall = ReportCalls
         /\ \A i \in ReportCalls : DOMAIN reportCall[i] = ReportFields /\ ReportFits(reportCall[i])
BY DEF ReportInv, ReportType

(* Calls that are stirred tell the same of the line.                       *)
LEMMA StirredTells ==
  ASSUME ReportInv, NEW calls, \A i \in ReportCalls : DOMAIN calls[i] = ReportFields
  PROVE  \A i \in ReportCalls : /\ Stirred(calls)[i].pc = calls[i].pc
                                /\ Stirred(calls)[i].user = calls[i].user
                                /\ Stirred(calls)[i].new = calls[i].new
<1> SUFFICES ASSUME NEW i \in ReportCalls
             PROVE  /\ Stirred(calls)[i].pc = calls[i].pc
                    /\ Stirred(calls)[i].user = calls[i].user
                    /\ Stirred(calls)[i].new = calls[i].new
  OBVIOUS
<1>1. PICK k : k = calls[i] /\ DOMAIN k = ReportFields
  OBVIOUS
<1>2. Stirred(calls)[i] = [k EXCEPT !.stirred = TRUE]
  BY <1>1 DEF Stirred
<1> QED
  BY <1>1, <1>2 DEF ReportFields

LEMMA EditManagerKeeps ==
  ASSUME ReportInv, NEW c, NEW u \in People, NEW m \in People \cup {NoManager}, EditManager(c, u, m)
  PROVE  ReportInv'
<1>1. /\ manager' = [manager EXCEPT ![u] = m] /\ reportCall' = Stirred(reportCall)
      /\ unexplained' = unexplained \cup {u}
      /\ UNCHANGED <<enabled, lineHistory, viewed, shown>>
  BY DEF EditManager
<1>2. enabled' \subseteq People /\ manager' \in [People -> People \cup {NoManager}]
  BY <1>1 DEF ReportInv, ReportType
<1>3. \A i \in ReportCalls : /\ reportCall'[i].pc = reportCall[i].pc
                             /\ reportCall'[i].user = reportCall[i].user
                             /\ reportCall'[i].new = reportCall[i].new
  BY <1>1, CallsFitNow, StirredTells
<1>4. LineFits'
  <2> SUFFICES ASSUME NEW v \in People \ unexplained', NEW n, manager'[v] = n
               PROVE  LineUntold(v)' \/ LineTold(v, n)'
    BY DEF LineFits
  <2>1. v # u /\ v \in People \ unexplained /\ manager[v] = n
    BY <1>1 DEF ReportInv, ReportType
  <2>2. LineUntold(v) \/ LineTold(v, n)
    BY <2>1 DEF ReportInv, LineFits
  <2> QED
    BY <1>1, <1>3, <2>2 DEF LineUntold, LineTold
<1> QED
  BY <1>1, <1>2, <1>4, CallsFitNow, LineMoves

LEMMA FlipStatusKeeps ==
  ASSUME ReportInv, NEW u \in People, FlipStatus(u)
  PROVE  ReportInv'
<1>1. /\ enabled' \subseteq enabled \cup {u} /\ reportCall' = Stirred(reportCall)
      /\ UNCHANGED <<manager, lineHistory, viewed, shown, unexplained>>
  BY DEF FlipStatus
<1>2. enabled' \subseteq People /\ manager' \in [People -> People \cup {NoManager}]
  BY <1>1 DEF ReportInv, ReportType
<1>3. \A i \in ReportCalls : /\ reportCall'[i].pc = reportCall[i].pc
                             /\ reportCall'[i].user = reportCall[i].user
                             /\ reportCall'[i].new = reportCall[i].new
  BY <1>1, CallsFitNow, StirredTells
<1>4. LineFits'
  BY <1>1, <1>3 DEF LineFits, LineUntold, LineTold, ReportInv
<1> QED
  BY <1>1, <1>2, <1>4, CallsFitNow, LineMoves

(* A manager is saved, and the entry is still to come.                     *)
LEMMA SaveManagerKeeps ==
  ASSUME ReportInv, NEW c \in ReportCalls, SaveManager(c)
  PROVE  ReportInv'
<1>1. PICK old : old = reportCall[c] /\ DOMAIN old = ReportFields /\ ReportFits(old)
  BY DEF ReportInv, ReportType
<1>2. PICK u \in People, m \in People \cup {NoManager} : u = old.user /\ m = old.new
  BY <1>1 DEF SaveManager, ReportFits
<1>3. PICK k : k = [old EXCEPT !.pc = "history"]
  OBVIOUS
<1>4. PICK calls : calls = [reportCall EXCEPT ![c] = k]
  OBVIOUS
<1>5. /\ old.pc = "save" /\ manager' = [manager EXCEPT ![u] = m] /\ reportCall' = Stirred(calls)
      /\ UNCHANGED <<enabled, lineHistory, viewed, shown, unexplained>>
  BY <1>1, <1>2, <1>3, <1>4 DEF SaveManager
<1>6. DOMAIN k = ReportFields /\ k.pc = "history" /\ k.user = u /\ k.new = m
  BY <1>1, <1>2, <1>3 DEF ReportFields
<1>7. ReportFits(k)
  BY <1>6 DEF ReportFits
<1>8. /\ DOMAIN calls = ReportCalls
      /\ \A i \in ReportCalls : calls[i] = IF i = c THEN k ELSE reportCall[i]
  BY <1>4, CallsFitNow
<1>9. \A i \in ReportCalls : DOMAIN calls[i] = ReportFields /\ ReportFits(calls[i])
  BY <1>6, <1>7, <1>8, CallsFitNow
<1>10. enabled' \subseteq People /\ manager' \in [People -> People \cup {NoManager}]
  BY <1>2, <1>5 DEF ReportInv, ReportType
<1>11. \A i \in ReportCalls : /\ reportCall'[i].pc = calls[i].pc
                              /\ reportCall'[i].user = calls[i].user
                              /\ reportCall'[i].new = calls[i].new
  BY <1>5, <1>9, StirredTells
<1>12. reportCall'[c].pc = "history" /\ reportCall'[c].user = u /\ reportCall'[c].new = m
  BY <1>6, <1>8, <1>11
<1>13. \A i \in ReportCalls : i # c => /\ reportCall'[i].pc = reportCall[i].pc
                                       /\ reportCall'[i].user = reportCall[i].user
                                       /\ reportCall'[i].new = reportCall[i].new
  BY <1>8, <1>11
<1>14. LineFits'
  <2> SUFFICES ASSUME NEW v \in People \ unexplained', NEW n, manager'[v] = n
               PROVE  LineUntold(v)' \/ LineTold(v, n)'
    BY DEF LineFits
  <2>1. CASE v = u
    <3>1. n = m
      BY <1>5, <2>1 DEF ReportInv, ReportType
    <3> QED
      BY <1>12, <2>1, <3>1 DEF LineTold
  <2>2. CASE v # u
    <3>1. manager[v] = n /\ v \in People \ unexplained
      BY <1>5, <2>2 DEF ReportInv, ReportType
    <3>2. LineUntold(v) \/ LineTold(v, n)
      BY <3>1 DEF ReportInv, LineFits
    <3>3. LineUntold(v) => LineUntold(v)'
      BY <1>5, <1>12, <1>13, <2>2 DEF LineUntold
    <3>4. LineTold(v, n) => LineTold(v, n)'
      BY <1>1, <1>5, <1>13 DEF LineTold
    <3> QED
      BY <3>2, <3>3, <3>4
  <2> QED
    BY <2>1, <2>2
<1> QED
  BY <1>5, <1>8, <1>9, <1>10, <1>14, LineMoves

(* The entry is written: it says what the call was about to say.           *)
LEMMA AppendHistoryKeeps ==
  ASSUME ReportInv, NEW c \in ReportCalls, AppendHistory(c)
  PROVE  ReportInv'
<1>1. PICK old : old = reportCall[c]
  OBVIOUS
<1>2. /\ old.pc = "history" /\ reportCall' = [reportCall EXCEPT ![c] = NoReportCall]
      /\ UNCHANGED <<manager, enabled, viewed, shown, unexplained>>
  BY <1>1 DEF AppendHistory
<1>3. PICK h : h = [user |-> old.user, old |-> old.old, new |-> old.new]
  OBVIOUS
<1>4. lineHistory' = lineHistory \cup {h} /\ h.user = old.user /\ h.new = old.new
  BY <1>1, <1>3 DEF AppendHistory
<1>5. /\ DOMAIN reportCall' = ReportCalls
      /\ \A i \in ReportCalls : reportCall'[i] = IF i = c THEN NoReportCall ELSE reportCall[i]
  BY <1>2, CallsFitNow
<1>6. LineFits'
  <2> SUFFICES ASSUME NEW v \in People \ unexplained', NEW n, manager'[v] = n
               PROVE  LineUntold(v)' \/ LineTold(v, n)'
    BY DEF LineFits
  <2>1. LineUntold(v) \/ LineTold(v, n)
    BY <1>2 DEF ReportInv, LineFits
  <2>2. LineUntold(v) => LineUntold(v)'
    BY <1>1, <1>2, <1>4, <1>5, NoReportCallIs DEF LineUntold
  <2>3. LineTold(v, n) => LineTold(v, n)'
    BY <1>1, <1>4, <1>5 DEF LineTold
  <2> QED
    BY <2>1, <2>2, <2>3
<1>7. ReportType'
  BY <1>2, <1>5, NoReportCallIs DEF ReportInv, ReportType
<1>8. \A i \in ReportCalls : ReportFits(reportCall'[i]) /\ WalkFits(reportCall'[i], enabled, manager)
  BY <1>5, NoReportCallIs DEF ReportInv
<1>9. \A i \in ReportCalls : (ReportFits(reportCall[i]) /\ WalkFits(reportCall[i], enabled, manager))'
  BY <1>2, <1>8
<1> QED
  BY <1>2, <1>6, <1>7, <1>9, ShownStays DEF ReportInv

LEMMA CutReportKeeps ==
  ASSUME ReportInv, NEW c \in ReportCalls, CutReport(c)
  PROVE  ReportInv'
<1>1. /\ reportCall' = [reportCall EXCEPT ![c] = NoReportCall]
      /\ unexplained \subseteq unexplained'
      /\ reportCall[c].pc = "history" => reportCall[c].user \in unexplained'
      /\ UNCHANGED <<manager, enabled, lineHistory, viewed, shown>>
  BY DEF CutReport
<1>2. PICK k : k = NoReportCall
  OBVIOUS
<1>3. /\ DOMAIN k = ReportFields /\ ReportFits(k) /\ WalkFits(k, enabled, manager)
      /\ k.pc # "history" /\ reportCall' = [reportCall EXCEPT ![c] = k]
  BY <1>1, <1>2, NoReportCallIs
<1> QED
  BY <1>1, <1>3, ShownStays, ReportMoves

LEMMA ReportInvInit == ReportsInit => ReportInv
<1> SUFFICES ASSUME ReportsInit PROVE ReportInv
  OBVIOUS
<1>1. PICK seed \in LineSeeds : manager = seed.manager
  BY DEF ReportsInit
<1>2. /\ enabled = People /\ reportCall = [c \in ReportCalls |-> NoReportCall]
      /\ lineHistory = {} /\ shown = {}
  BY DEF ReportsInit
<1>3. ReportType /\ ReportBounded
  BY <1>1, <1>2, NoReportCallIs, ReportsAssumption DEF ReportType, ReportBounded
<1>4. LineFits
  BY <1>2, NoReportCallIs DEF LineFits, LineUntold
<1> QED
  BY <1>2, <1>3, <1>4, NoReportCallIs DEF ReportInv

LEMMA ReportInvStep == ReportInv /\ [ReportsNext]_reportVars => ReportInv'
<1> SUFFICES ASSUME ReportInv, [ReportsNext]_reportVars PROVE ReportInv'
  OBVIOUS
<1>1. CASE \E c \in ReportCalls, a \in People, by \in Narrowing, asked \in Searches \cup {{}} :
             BeginReport(c, a, by, asked)
  BY <1>1, BeginReportKeeps
<1>2. CASE \E c \in ReportCalls, u \in People, m \in People \cup {NoManager} :
             BeginAssign(c, u, m) \/ EditManager(c, u, m)
  BY <1>2, BeginAssignKeeps, EditManagerKeeps
<1>3. CASE \E c \in ReportCalls : \/ ReadScopes(c) \/ WalkLine(c) \/ NarrowReport(c)
                                  \/ QueryRows(c) \/ RecordAndShow(c)
  BY <1>3, ReadScopesKeeps, WalkLineKeeps, NarrowReportKeeps, QueryRowsKeeps, RecordAndShowKeeps
<1>4. CASE \E c \in ReportCalls : SaveManager(c) \/ AppendHistory(c) \/ CutReport(c)
  BY <1>4, SaveManagerKeeps, AppendHistoryKeeps, CutReportKeeps
<1>5. CASE \E u \in People : FlipStatus(u)
  BY <1>5, FlipStatusKeeps
<1>6. CASE UNCHANGED reportVars
  BY <1>6 DEF reportVars, ReportInv, ReportType, LineFits, LineUntold, LineTold, ReportBounded
<1> QED
  BY <1>1, <1>2, <1>3, <1>4, <1>5, <1>6 DEF ReportsNext

(* The inductive invariant of reports: a walk that no change of the line   *)
(* disturbed has found part of the actor's team and nobody else, and every *)
(* change of the line is told, in the history or by a call under way       *)
(* (hierarchy-scope.service.js, reporting-line.service.js).                *)
THEOREM ReportsInvariant == ReportsSpec => []ReportInv
BY ReportInvInit, ReportInvStep, PTL DEF ReportsSpec

(* A walk finds the actor's line, whatever its shape, the history explains *)
(* every manager, and the rows shown are bounded by a list of users that   *)
(* is not empty (hierarchy-scope.service.js, reporting-line.service.js,    *)
(* report.service.js).                                                     *)
THEOREM ReportsAreBounded == ReportsSpec => []ReportsHold
<1>1. ReportInv => WalkFindsLine
  <2> SUFFICES ASSUME ReportInv, NEW c \in ReportCalls, reportCall[c].pc = "narrow",
                      reportCall[c].found # {}, ~reportCall[c].stirred
               PROVE  LET call == reportCall[c] IN
                      /\ ClosedLine(call.actor, call.found, call.deep)
                      /\ \A X \in SUBSET call.found :
                           ClosedLine(call.actor, X, call.deep) => X = call.found
    BY DEF WalkFindsLine
  <2>1. PICK a, F, d : a = reportCall[c].actor /\ F = reportCall[c].found /\ d = reportCall[c].deep
    OBVIOUS
  <2>2. /\ LineClosed(enabled, manager, a, F, d)
        /\ \A X : LineClosed(enabled, manager, a, X, d) => F \subseteq X
    BY <2>1 DEF ReportInv, WalkFits
  <2>3. \A X : ClosedLine(a, X, d) <=> LineClosed(enabled, manager, a, X, d)
    BY DEF ClosedLine, LineClosed, DirectReports, Under
  <2> QED
    BY <2>1, <2>2, <2>3
<1>2. ReportInv => LineExplained
  BY DEF ReportInv, LineFits, LineUntold, LineTold, LineExplained
<1>3. ReportInv => ReportsHold
  BY <1>1, <1>2 DEF ReportInv, ReportsHold
<1> QED
  BY <1>3, ReportsInvariant, PTL

----------------------------------------------------------------------------
(* The types of the state of reports.                                      *)
ReportPlaces == {"idle", "scope", "walk", "narrow", "query", "tell", "save", "history"}
LineEntry == [user : People, old : People \cup {NoManager}, new : People \cup {NoManager}]
OfPeople(X) == X = Everyone \/ X \subseteq People

ReportTyped(k) ==
  /\ k.pc \in ReportPlaces /\ k.frontier \subseteq k.found /\ k.next \subseteq k.found
  /\ k.allowed \subseteq People /\ k.found \subseteq People /\ k.rows \subseteq People
  /\ OfPeople(k.visible) /\ OfPeople(k.ids)
  /\ k.pc = "scope" => k.actor \in People
  /\ k.pc \in {"save", "history"} =>
       k.user \in People /\ k.old \in People \cup {NoManager} /\ k.new \in People \cup {NoManager}

LineTyped ==
  (\A c \in ReportCalls : ReportTyped(reportCall[c])) /\ lineHistory \subseteq LineEntry

(* One call moves.                                                         *)
LEMMA ReportMovesTyped ==
  ASSUME ReportInv, LineTyped, NEW c \in ReportCalls, NEW k,
         reportCall' = [reportCall EXCEPT ![c] = k], ReportTyped(k), lineHistory' \subseteq LineEntry
  PROVE  LineTyped'
<1>1. \A i \in ReportCalls : reportCall'[i] = IF i = c THEN k ELSE reportCall[i]
  BY CallsFitNow
<1>2. \A i \in ReportCalls : ReportTyped(reportCall'[i])
  BY <1>1 DEF LineTyped
<1>3. \A i \in ReportCalls : ReportTyped(reportCall[i])'
  BY <1>2 DEF ReportTyped, OfPeople
<1> QED
  BY <1>3 DEF LineTyped

LEMMA NoReportTyped == ReportTyped(NoReportCall)
BY DEF NoReportCall, ReportTyped, ReportPlaces, OfPeople

LEMMA ReportEndsTyped ==
  ASSUME ReportInv, LineTyped, NEW c \in ReportCalls,
         reportCall' = [reportCall EXCEPT ![c] = NoReportCall], lineHistory' \subseteq LineEntry
  PROVE  LineTyped'
<1>1. PICK k : k = NoReportCall /\ ReportTyped(k)
  BY NoReportTyped
<1> QED
  BY <1>1, ReportMovesTyped

LEMMA BeginReportTyped ==
  ASSUME ReportInv, LineTyped, NEW c \in ReportCalls, NEW a \in People, NEW by, NEW asked,
         BeginReport(c, a, by, asked)
  PROVE  LineTyped'
<1>1. PICK k : k = [NoReportCall EXCEPT !.op = "report", !.pc = "scope", !.actor = a,
                                        !.by = by, !.asked = asked]
  OBVIOUS
<1>2. ReportTyped(k)
  BY <1>1 DEF NoReportCall, ReportTyped, ReportPlaces, OfPeople
<1>3. reportCall' = [reportCall EXCEPT ![c] = k] /\ lineHistory' = lineHistory
  BY <1>1 DEF BeginReport, BeginReportCall
<1> QED
  BY <1>2, <1>3, ReportMovesTyped DEF LineTyped

LEMMA BeginAssignTyped ==
  ASSUME ReportInv, LineTyped, NEW c \in ReportCalls, NEW u \in People, NEW m, BeginAssign(c, u, m)
  PROVE  LineTyped'
<1>1. PICK old \in People \cup {NoManager} : old = manager[u]
  BY DEF ReportInv, ReportType
<1>2. PICK k : k = [NoReportCall EXCEPT !.op = "assign", !.pc = "save", !.user = u,
                                        !.old = old, !.new = m]
  OBVIOUS
<1>3. m \in People \cup {NoManager}
  BY DEF BeginAssign, ReportInv, ReportType
<1>4. ReportTyped(k)
  BY <1>1, <1>2, <1>3 DEF NoReportCall, ReportTyped, ReportPlaces, OfPeople
<1>5. reportCall' = [reportCall EXCEPT ![c] = k] /\ lineHistory' = lineHistory
  BY <1>1, <1>2 DEF BeginAssign, BeginReportCall
<1> QED
  BY <1>4, <1>5, ReportMovesTyped DEF LineTyped

LEMMA ReadScopesTyped ==
  ASSUME ReportInv, LineTyped, NEW c \in ReportCalls, ReadScopes(c)
  PROVE  LineTyped'
<1>1. PICK old : /\ old = reportCall[c] /\ DOMAIN old = ReportFields /\ ReportFits(old)
                 /\ ReportTyped(old)
  BY DEF ReportInv, ReportType, LineTyped
<1>2. PICK a \in People : a = old.actor
  BY <1>1 DEF ReadScopes, ReportTyped
<1>3. PICK w \in SUBSET People :
        w = {a} \cup (IF "DEPARTMENT" \in org.scopes[a] THEN Colleagues(a) ELSE {})
  BY DEF Colleagues, ReportInv, ReportType
<1>4. PICK under \in SUBSET People :
        under = Subordinates(a, Widest(org.scopes[a]) = "DIRECT_AND_INDIRECT_SUBORDINATES")
  BY DEF Subordinates
<1>5. PICK d : d = (Widest(org.scopes[a]) = "DIRECT_AND_INDIRECT_SUBORDINATES")
  OBVIOUS
<1>6. \/ \E v : /\ OfPeople(v)
                /\ reportCall' = [reportCall EXCEPT ![c] = [old EXCEPT !.pc = "narrow", !.visible = v]]
      \/ reportCall' = [reportCall EXCEPT ![c] =
            [old EXCEPT !.pc = "walk", !.allowed = w, !.found = {a}, !.frontier = {a},
                        !.deep = d, !.stirred = FALSE]]
  <2>1. OfPeople(Everyone) /\ OfPeople(w) /\ OfPeople(w \cup under)
    BY DEF OfPeople
  <2>2. \/ \E v \in {Everyone, w, w \cup under} :
             reportCall' = [reportCall EXCEPT ![c] = [old EXCEPT !.pc = "narrow", !.visible = v]]
        \/ reportCall' = [reportCall EXCEPT ![c] =
              [old EXCEPT !.pc = "walk", !.allowed = w, !.found = {a}, !.frontier = {a},
                          !.deep = d, !.stirred = FALSE]]
    BY <1>1, <1>2, <1>3, <1>4, <1>5 DEF ReadScopes
  <2> QED
    BY <2>1, <2>2, Zenon
<1>7. old.pc = "scope" /\ lineHistory' = lineHistory
  BY <1>1 DEF ReadScopes
<1>8. ASSUME NEW v, OfPeople(v),
             reportCall' = [reportCall EXCEPT ![c] = [old EXCEPT !.pc = "narrow", !.visible = v]]
      PROVE  LineTyped'
  <2>1. PICK k : k = [old EXCEPT !.pc = "narrow", !.visible = v]
    OBVIOUS
  <2>2. ReportTyped(k)
    BY <1>1, <1>8, <2>1 DEF ReportTyped, ReportPlaces, ReportFields
  <2>3. reportCall' = [reportCall EXCEPT ![c] = k]
    BY <1>8, <2>1
  <2> QED
    BY <1>7, <2>2, <2>3, ReportMovesTyped DEF LineTyped
<1>9. ASSUME reportCall' = [reportCall EXCEPT ![c] =
               [old EXCEPT !.pc = "walk", !.allowed = w, !.found = {a}, !.frontier = {a},
                           !.deep = d, !.stirred = FALSE]]
      PROVE  LineTyped'
  <2>1. PICK k : k = [old EXCEPT !.pc = "walk", !.allowed = w, !.found = {a}, !.frontier = {a},
                                 !.deep = d, !.stirred = FALSE]
    OBVIOUS
  <2>2. old.next = {}
    BY <1>1, <1>7 DEF ReportFits
  <2>3. ReportTyped(k)
    BY <1>1, <2>1, <2>2 DEF ReportTyped, ReportPlaces, ReportFields
  <2>4. reportCall' = [reportCall EXCEPT ![c] = k]
    BY <1>9, <2>1
  <2> QED
    BY <1>7, <2>3, <2>4, ReportMovesTyped DEF LineTyped
<1> QED
  BY <1>6, <1>8, <1>9, Zenon

LEMMA WalkOnTyped ==
  ASSUME NEW k, DOMAIN k = ReportFields, k.pc = "walk", ReportTyped(k), NEW m,
         DirectReports(m) \subseteq People
  PROVE  ReportTyped(WalkOn(k, m))
<1>1. PICK R, S, N : /\ R = DirectReports(m) /\ S = k.frontier \ {m}
                     /\ N = k.next \cup (DirectReports(m) \ k.found)
  OBVIOUS
<1>2. PICK w : w = [k EXCEPT !.found = k.found \cup R, !.frontier = S, !.next = N]
  OBVIOUS
<1>3. /\ DOMAIN w = ReportFields /\ w.found = k.found \cup R /\ w.pc = "walk"
      /\ w.frontier = S /\ w.next = N /\ w.allowed = k.allowed /\ w.visible = k.visible
      /\ w.ids = k.ids /\ w.rows = k.rows
  BY <1>2 DEF ReportFields
<1>4. /\ w.found \subseteq People /\ S \subseteq w.found /\ N \subseteq w.found
      /\ k.allowed \subseteq People /\ k.rows \subseteq People
      /\ OfPeople(k.visible) /\ OfPeople(k.ids)
  BY <1>1, <1>3 DEF ReportTyped
<1>5. CASE S # {}
  <2>1. WalkOn(k, m) = w
    BY <1>1, <1>2, <1>5 DEF WalkOn
  <2>2. ReportTyped(w)
    BY <1>3, <1>4 DEF ReportTyped, ReportPlaces
  <2> QED
    BY <2>1, <2>2
<1>6. CASE S = {} /\ k.deep /\ N # {}
  <2>1. PICK x : x = [w EXCEPT !.frontier = N, !.next = {}]
    OBVIOUS
  <2>2. WalkOn(k, m) = x
    BY <1>1, <1>2, <1>6, <2>1 DEF WalkOn
  <2>3. /\ x.found = w.found /\ x.pc = "walk" /\ x.frontier = N /\ x.next = {}
        /\ x.allowed = k.allowed /\ x.visible = k.visible /\ x.ids = k.ids /\ x.rows = k.rows
    BY <1>3, <2>1 DEF ReportFields
  <2>4. ReportTyped(x)
    BY <1>4, <2>3 DEF ReportTyped, ReportPlaces
  <2> QED
    BY <2>2, <2>4
<1>7. CASE S = {} /\ ~(k.deep /\ N # {})
  <2>1. PICK v : v = k.allowed \cup w.found
    OBVIOUS
  <2>2. PICK x : x = [w EXCEPT !.pc = "narrow", !.visible = v]
    OBVIOUS
  <2>3. WalkOn(k, m) = x
    BY <1>1, <1>2, <1>7, <2>1, <2>2 DEF WalkOn
  <2>4. /\ x.found = w.found /\ x.pc = "narrow" /\ x.frontier = S /\ x.next = N
        /\ x.allowed = k.allowed /\ x.visible = v /\ x.ids = k.ids /\ x.rows = k.rows
    BY <1>3, <2>2 DEF ReportFields
  <2>5. OfPeople(v)
    BY <1>4, <2>1 DEF OfPeople
  <2>6. ReportTyped(x)
    BY <1>4, <2>4, <2>5 DEF ReportTyped, ReportPlaces
  <2> QED
    BY <2>3, <2>6
<1> QED
  BY <1>5, <1>6, <1>7

LEMMA WalkLineTyped ==
  ASSUME ReportInv, LineTyped, NEW c \in ReportCalls, WalkLine(c)
  PROVE  LineTyped'
<1>1. PICK old : old = reportCall[c] /\ DOMAIN old = ReportFields /\ ReportTyped(old)
  BY DEF ReportInv, ReportType, LineTyped
<1>2. PICK m \in old.frontier : reportCall' = [reportCall EXCEPT ![c] = WalkOn(old, m)]
  BY <1>1 DEF WalkLine
<1>3. PICK k : k = WalkOn(old, m)
  OBVIOUS
<1>4. old.pc = "walk" /\ lineHistory' = lineHistory
  BY <1>1 DEF WalkLine
<1>5. DirectReports(m) \subseteq People
  BY DEF DirectReports, ReportInv, ReportType
<1>6. ReportTyped(k)
  BY <1>1, <1>3, <1>4, <1>5, WalkOnTyped
<1>7. reportCall' = [reportCall EXCEPT ![c] = k]
  BY <1>2, <1>3
<1> QED
  BY <1>4, <1>6, <1>7, ReportMovesTyped DEF LineTyped

LEMMA NarrowReportTyped ==
  ASSUME ReportInv, LineTyped, NEW c \in ReportCalls, NarrowReport(c)
  PROVE  LineTyped'
<1>1. PICK old : /\ old = reportCall[c] /\ DOMAIN old = ReportFields /\ ReportFits(old)
                 /\ ReportTyped(old)
  BY DEF ReportInv, ReportType, LineTyped
<1>2. PICK ids, team : ids = ResolveUserIds(old) /\ team = DirectReports(old.actor)
  OBVIOUS
<1>3. PICK asked : asked = IF old.by = "team" THEN team ELSE old.asked
  OBVIOUS
<1>4. old.pc = "narrow" /\ lineHistory' = lineHistory
  BY <1>1 DEF NarrowReport
<1>5. team \subseteq People /\ old.asked \subseteq People /\ old.by \in Narrowing
  BY <1>1, <1>2, <1>4 DEF DirectReports, ReportInv, ReportType, ReportFits
<1>6. OfPeople(ids)
  <2>1. ids = old.visible \/ ids = Narrowed(old.visible, old.asked) \/ ids = Narrowed(old.visible, team)
    BY <1>2, <1>5 DEF ResolveUserIds, Narrowing
  <2>2. OfPeople(old.visible)
    BY <1>1 DEF ReportTyped
  <2> QED
    BY <1>5, <2>1, <2>2 DEF Narrowed, OfPeople
<1>7. PICK k : k = [old EXCEPT !.pc = "query", !.ids = ids, !.asked = asked]
  OBVIOUS
<1>8. ReportTyped(k)
  BY <1>1, <1>6, <1>7 DEF ReportTyped, ReportPlaces, ReportFields
<1>9. reportCall' = [reportCall EXCEPT ![c] = k]
  BY <1>1, <1>2, <1>3, <1>7 DEF NarrowReport
<1> QED
  BY <1>4, <1>8, <1>9, ReportMovesTyped DEF LineTyped

LEMMA QueryRowsTyped ==
  ASSUME ReportInv, LineTyped, NEW c \in ReportCalls, QueryRows(c)
  PROVE  LineTyped'
<1>1. PICK old : old = reportCall[c] /\ DOMAIN old = ReportFields /\ ReportTyped(old)
  BY DEF ReportInv, ReportType, LineTyped
<1>2. PICK rows : rows = IF old.ids \in {Everyone, {}} THEN People ELSE old.ids
  OBVIOUS
<1>3. rows \subseteq People
  BY <1>1, <1>2 DEF ReportTyped, OfPeople
<1>4. PICK k : k = [old EXCEPT !.pc = "tell", !.rows = rows]
  OBVIOUS
<1>5. ReportTyped(k)
  BY <1>1, <1>3, <1>4 DEF ReportTyped, ReportPlaces, ReportFields
<1>6. reportCall' = [reportCall EXCEPT ![c] = k] /\ lineHistory' = lineHistory
  BY <1>1, <1>2, <1>4 DEF QueryRows
<1> QED
  BY <1>5, <1>6, ReportMovesTyped DEF LineTyped

(* Every walk is marked.                                                   *)
LEMMA StirredTyped ==
  ASSUME NEW calls, reportCall' = Stirred(calls), lineHistory' \subseteq LineEntry,
         \A i \in ReportCalls : DOMAIN calls[i] = ReportFields /\ ReportTyped(calls[i])
  PROVE  LineTyped'
<1>1. ASSUME NEW i \in ReportCalls  PROVE  ReportTyped(reportCall'[i])
  <2>1. PICK k : k = calls[i] /\ DOMAIN k = ReportFields /\ ReportTyped(k)
    OBVIOUS
  <2>2. PICK l : l = [k EXCEPT !.stirred = TRUE]
    OBVIOUS
  <2>3. reportCall'[i] = l
    BY <2>1, <2>2 DEF Stirred
  <2>4. ReportTyped(l)
    BY <2>1, <2>2 DEF ReportTyped, ReportFields
  <2> QED
    BY <2>3, <2>4
<1>2. \A i \in ReportCalls : ReportTyped(reportCall[i])'
  BY <1>1 DEF ReportTyped, OfPeople
<1> QED
  BY <1>2 DEF LineTyped

LEMMA LineChangesTyped ==
  ASSUME ReportInv, LineTyped, reportCall' = Stirred(reportCall), lineHistory' = lineHistory
  PROVE  LineTyped'
BY StirredTyped, CallsFitNow DEF LineTyped

LEMMA SaveManagerTyped ==
  ASSUME ReportInv, LineTyped, NEW c \in ReportCalls, SaveManager(c)
  PROVE  LineTyped'
<1>1. PICK old : old = reportCall[c] /\ DOMAIN old = ReportFields /\ ReportTyped(old)
  BY DEF ReportInv, ReportType, LineTyped
<1>2. PICK k : k = [old EXCEPT !.pc = "history"]
  OBVIOUS
<1>3. PICK calls : calls = [reportCall EXCEPT ![c] = k]
  OBVIOUS
<1>4. old.pc = "save" /\ reportCall' = Stirred(calls) /\ lineHistory' = lineHistory
  BY <1>1, <1>2, <1>3 DEF SaveManager
<1>5. DOMAIN k = ReportFields /\ ReportTyped(k)
  BY <1>1, <1>2, <1>4 DEF ReportTyped, ReportPlaces, ReportFields
<1>6. \A i \in ReportCalls : calls[i] = IF i = c THEN k ELSE reportCall[i]
  BY <1>3, CallsFitNow
<1>7. \A i \in ReportCalls : DOMAIN calls[i] = ReportFields /\ ReportTyped(calls[i])
  BY <1>5, <1>6, CallsFitNow DEF LineTyped
<1> QED
  BY <1>4, <1>7, StirredTyped DEF LineTyped

LEMMA AppendHistoryTyped ==
  ASSUME ReportInv, LineTyped, NEW c \in ReportCalls, AppendHistory(c)
  PROVE  LineTyped'
<1>1. PICK old : old = reportCall[c] /\ ReportTyped(old)
  BY DEF LineTyped
<1>2. PICK h : h = [user |-> old.user, old |-> old.old, new |-> old.new]
  OBVIOUS
<1>3. /\ old.pc = "history" /\ lineHistory' = lineHistory \cup {h}
      /\ reportCall' = [reportCall EXCEPT ![c] = NoReportCall]
  BY <1>1, <1>2 DEF AppendHistory
<1>4. h \in LineEntry
  BY <1>1, <1>2, <1>3 DEF ReportTyped, LineEntry
<1> QED
  BY <1>3, <1>4, ReportEndsTyped DEF LineTyped

LEMMA LineTypedInit == ReportsInit => LineTyped
BY NoReportTyped DEF ReportsInit, LineTyped

LEMMA LineTypedStep == ReportInv /\ LineTyped /\ [ReportsNext]_reportVars => LineTyped'
<1> SUFFICES ASSUME ReportInv, LineTyped, [ReportsNext]_reportVars PROVE LineTyped'
  OBVIOUS
<1>1. CASE \E c \in ReportCalls, a \in People, by \in Narrowing, asked \in Searches \cup {{}} :
             BeginReport(c, a, by, asked)
  BY <1>1, BeginReportTyped
<1>2. CASE \E c \in ReportCalls, u \in People, m \in People \cup {NoManager} :
             BeginAssign(c, u, m) \/ EditManager(c, u, m)
  BY <1>2, BeginAssignTyped, LineChangesTyped DEF EditManager
<1>3. CASE \E c \in ReportCalls : \/ ReadScopes(c) \/ WalkLine(c) \/ NarrowReport(c)
                                  \/ QueryRows(c) \/ SaveManager(c) \/ AppendHistory(c)
  BY <1>3, ReadScopesTyped, WalkLineTyped, NarrowReportTyped, QueryRowsTyped, SaveManagerTyped,
     AppendHistoryTyped
<1>4. CASE \E c \in ReportCalls : RecordAndShow(c) \/ CutReport(c)
  BY <1>4, ReportEndsTyped DEF RecordAndShow, CutReport, LineTyped
<1>5. CASE \E u \in People : FlipStatus(u)
  BY <1>5, LineChangesTyped DEF FlipStatus
<1>6. CASE UNCHANGED reportVars
  BY <1>6 DEF reportVars, LineTyped
<1> QED
  BY <1>1, <1>2, <1>3, <1>4, <1>5, <1>6 DEF ReportsNext

LEMMA LineTypedIsTypeOK ==
  ASSUME ReportInv, LineTyped
  PROVE  ReportsTypeOK
BY DEF ReportInv, ReportType, LineTyped, ReportTyped, ReportPlaces, OfPeople, LineEntry, ReportsTypeOK

LEMMA GeocoderTyped ==
  ASSUME GeoInv
  PROVE  GeocoderTypeOK
<1>1. lastAt \subseteq 0 .. MaxClock /\ Cardinality(lastAt) <= 1
  <2>1. askedAt \in Seq(0 .. MaxClock)
    BY DEF GeoInv, Spaced
  <2>2. CASE askedAt = <<>>
    <3>1. lastAt = {}
      BY <2>2 DEF GeoInv, Spaced
    <3> QED
      BY <3>1, FS_EmptySet
  <2>3. CASE askedAt # <<>>
    <3>1. Len(askedAt) \in DOMAIN askedAt
      BY <2>1, <2>3, EmptySeq, LenProperties
    <3>2. PICK t \in 0 .. MaxClock : t = askedAt[Len(askedAt)]
      BY <2>1, <3>1, ElementOfSeq, LenProperties
    <3>3. lastAt = {t}
      BY <2>3, <3>2 DEF GeoInv, Spaced
    <3>4. Cardinality({t}) = 1
      BY FS_Singleton
    <3> QED
      BY <3>2, <3>3, <3>4
  <2> QED
    BY <2>2, <2>3
<1>2. ASSUME NEW g \in GeoCalls
      PROVE  /\ geo[g].pc \in {"idle", "queued", "loop", "wait", "asked", "store", "done"}
             /\ geo[g].missing \subseteq geo[g].wanted /\ geo[g].at \subseteq geo[g].missing
  BY DEF GeoInv, GeoType, GeoCall, GeoPlaces, LookupFits
<1> QED
  BY <1>1, <1>2 DEF GeocoderTypeOK, GeoInv, GeoType

----------------------------------------------------------------------------
(* All services of MCServices: the one of the scene takes its steps, the   *)
(* others stay.                                                            *)
ServicesInv ==
  /\ CredInv /\ CredTyped /\ FilesInv /\ OrgInv /\ EditInv
  /\ ReportInv /\ LineTyped /\ GeoInv

LEMMA ServicesStep == ServicesInv /\ [Next]_<<scene, credentialVars, fileVars, chartVars,
                                              reportVars, geoVars>> => ServicesInv'
<1> SUFFICES ASSUME ServicesInv, [Next]_<<scene, credentialVars, fileVars, chartVars,
                                          reportVars, geoVars>>
             PROVE  ServicesInv'
  OBVIOUS
<1>1. [CredentialsNext]_credentialVars
  BY DEF Next, Others
<1>2. [StoredFilesNext]_fileVars
  BY DEF Next, Others
<1>3. [OrgChartNext]_chartVars
  BY DEF Next, Others
<1>4. [ReportsNext]_reportVars
  BY DEF Next, Others
<1>5. [GeocoderNext]_geoVars
  BY DEF Next, Others
<1>6. CredInv' /\ CredTyped'
  BY <1>1, CredNext, CredTypedNext DEF ServicesInv
<1>7. FilesInv'
  BY <1>2, FilesNext DEF ServicesInv
<1>8. OrgInv' /\ EditInv'
  BY <1>3, OrgInvStep, EditsStep DEF ServicesInv
<1>9. ReportInv' /\ LineTyped'
  BY <1>4, ReportInvStep, LineTypedStep DEF ServicesInv
<1>10. GeoInv'
  BY <1>5, GeoNext DEF ServicesInv
<1> QED
  BY <1>6, <1>7, <1>8, <1>9, <1>10 DEF ServicesInv

(* The services keep the types of their state, whichever runs and whatever *)
(* their constants (auth.service.js, attachment.service.js,                *)
(* hierarchy.service.js, reporting-line.service.js, reverse-geocoder.js).  *)
THEOREM ServicesTypeCorrect == Spec => []TypeOK
<1>1. Init => ServicesInv
  BY CredInit, CredTypedInit, FilesInit, OrgInvInit, EditsInit, ReportInvInit, LineTypedInit, GeoInit
  DEF Init, ServicesInv
<1>2. ServicesInv /\ [Next]_<<scene, credentialVars, fileVars, chartVars, reportVars, geoVars>>
        => ServicesInv'
  BY ServicesStep
<1>3. ServicesInv => TypeOK
  BY TypedIsTypeOK, FilesTyped, ChartsTyped, LineTypedIsTypeOK, GeocoderTyped DEF ServicesInv, TypeOK
<1> QED
  BY <1>1, <1>2, <1>3, PTL DEF Spec
=============================================================================
