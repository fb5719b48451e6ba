----------------------------- MODULE StoredFiles -----------------------------
(***************************************************************************)
(* Files on the disk and the records that name them: attachments of        *)
(* requests (attachment.service.js), salary slips (salary-slip.service.js) *)
(* and the logo of the branding setting with the settings panels it is     *)
(* edited on (branding.service.js, BrandingSettingsPanel.tsx).             *)
(*                                                                         *)
(* A file is written before its record, a record is struck out before its  *)
(* file is removed, and between any two of these writes other calls run    *)
(* and the call itself may fail.  A storage key is the number of the file: *)
(* keys are random, so two files never share one.                          *)
(***************************************************************************)
EXTENDS Naturals, FiniteSets, Sequences

CONSTANTS
  FileCalls,      \* handler slots
  Panels,         \* open branding panels
  MaxFiles,       \* bound: files written
  MaxFileCalls,   \* bound: calls made
  FilesMayFail    \* may a call fail half way, or the process stop?

ASSUME StoredFilesAssumption ==
  MaxFiles \in Nat /\ MaxFileCalls \in Nat /\ FilesMayFail \in BOOLEAN

VARIABLES
  disk,        \* keys of the files there are
  lastKey,     \* keys given out
  docs,        \* attachment and slip documents, in order of creation
  announced,   \* slips whose salary.slip_uploaded was published
  logo,        \* the key in the branding setting; 0 when there is none
  panel,       \* panel[p]: the logo loaded, the logo shown, is there a draft?
  fileCall,    \* fileCall[c]: what a handler is at
  fileCalls,   \* calls made so far
  broken       \* observer: keys a failed call was at

fileVars == <<disk, lastKey, docs, announced, logo, panel, fileCall, fileCalls, broken>>

NoFileCall == [op |-> "none", pc |-> "idle", key |-> 0, doc |-> 0, at |-> {}]

StoredFilesInit ==
  /\ disk = {} /\ lastKey = 0 /\ docs = <<>> /\ announced = {}
  /\ logo = 0
  /\ panel = [p \in Panels |-> [seen |-> 0, shown |-> 0, draft |-> FALSE, named |-> FALSE]]
  /\ fileCall = [c \in FileCalls |-> NoFileCall]
  /\ fileCalls = 0 /\ broken = {}

----------------------------------------------------------------------------
FileStarts(c, op, pc, doc, at) ==
  /\ fileCall[c] = NoFileCall /\ fileCalls < MaxFileCalls
  /\ fileCalls' = fileCalls + 1
  /\ fileCall' = [fileCall EXCEPT ![c] =
       [NoFileCall EXCEPT !.op = op, !.pc = pc, !.doc = doc, !.at = at]]

FileTo(c, pc) == fileCall' = [fileCall EXCEPT ![c].pc = pc]
FileEnds(c) == fileCall' = [fileCall EXCEPT ![c] = NoFileCall]
Busy(p) == \E c \in FileCalls : p \in fileCall[c].at

(* upload of either service, past its checks.                              *)
UploadCall(c, kind) ==
  /\ kind \in {"attachment", "slip"}
  /\ FileStarts(c, kind, "save", 0, {})
  /\ UNCHANGED <<disk, lastKey, docs, announced, logo, panel, broken>>

(* mutant of SaveFile: the file is written with the record, after it.      *)
SaveLater(c) ==
  /\ fileCall[c].pc = "save" /\ lastKey < MaxFiles
  /\ lastKey' = lastKey + 1
  /\ fileCall' = [fileCall EXCEPT ![c].key = lastKey + 1,
       ![c].pc = IF fileCall[c].op = "logo" THEN "audit" ELSE "create"]
  /\ UNCHANGED <<disk, docs, announced, logo, panel, fileCalls, broken>>

SaveFile(c) ==
  /\ fileCall[c].pc = "save" /\ lastKey < MaxFiles
  /\ lastKey' = lastKey + 1 /\ disk' = disk \cup {lastKey + 1}
  /\ fileCall' = [fileCall EXCEPT ![c].key = lastKey + 1,
       ![c].pc = IF fileCall[c].op = "logo" THEN "audit" ELSE "create"]
  /\ UNCHANGED <<docs, announced, logo, panel, fileCalls, broken>>

CreateDoc(c) ==
  /\ fileCall[c].pc = "create"
  /\ docs' = Append(docs, [kind |-> fileCall[c].op, key |-> fileCall[c].key, live |-> TRUE])
  /\ fileCall' = [fileCall EXCEPT ![c].pc = "audit", ![c].doc = Len(docs) + 1]
  /\ UNCHANGED <<disk, lastKey, announced, logo, panel, fileCalls, broken>>

(* mutant of FileAudit: every upload is announced, whatever its kind.      *)
AuditAndPublish(c) ==
  /\ fileCall[c].pc = "audit"
  /\ CASE fileCall[c].op \in {"slip", "attachment"} -> FileTo(c, "publish")
       [] fileCall[c].op \in {"logo", "unlogo", "brand"} -> FileTo(c, "answer")
       [] OTHER -> FileEnds(c)
  /\ UNCHANGED <<disk, lastKey, docs, announced, logo, panel, fileCalls, broken>>

(* mutant of FileAudit: a slip's upload answers without its event.         *)
AuditAndAnswer(c) ==
  /\ fileCall[c].pc = "audit"
  /\ IF fileCall[c].op \in {"logo", "unlogo", "brand"} THEN FileTo(c, "answer") ELSE FileEnds(c)
  /\ UNCHANGED <<disk, lastKey, docs, announced, logo, panel, fileCalls, broken>>

(* recordAudit; what follows it is the event of a slip, or the answer.     *)
FileAudit(c) ==
  /\ fileCall[c].pc = "audit"
  /\ CASE fileCall[c].op = "slip" -> FileTo(c, "publish")
       [] fileCall[c].op \in {"logo", "unlogo", "brand"} -> FileTo(c, "answer")
       [] OTHER -> FileEnds(c)
  /\ UNCHANGED <<disk, lastKey, docs, announced, logo, panel, fileCalls, broken>>

PublishSlip(c) ==
  /\ fileCall[c].pc = "publish"
  /\ announced' = announced \cup {fileCall[c].doc}
  /\ FileEnds(c)
  /\ UNCHANGED <<disk, lastKey, docs, logo, panel, fileCalls, broken>>

(* delete of an attachment that findById still finds.                      *)
DeleteCall(c, d) ==
  /\ docs[d].kind = "attachment" /\ docs[d].live
  /\ FileStarts(c, "delete", "strike", d, {})
  /\ UNCHANGED <<disk, lastKey, docs, announced, logo, panel, broken>>

(* softDelete: the second of two deletes finds nothing and answers 404.    *)
SoftDelete(c) ==
  /\ fileCall[c].pc = "strike"
  /\ LET d == fileCall[c].doc IN
     IF docs[d].live
     THEN /\ docs' = [docs EXCEPT ![d].live = FALSE]
          /\ fileCall' = [fileCall EXCEPT ![c].pc = "unlink", ![c].key = docs[d].key]
     ELSE FileEnds(c) /\ UNCHANGED docs
  /\ UNCHANGED <<disk, lastKey, announced, logo, panel, fileCalls, broken>>

(* mutant of Unlink: the file is kept.                                     *)
KeepFile(c) ==
  /\ fileCall[c].pc = "unlink"
  /\ FileTo(c, "audit")
  /\ UNCHANGED <<disk, lastKey, docs, announced, logo, panel, fileCalls, broken>>

(* storage.delete: a file that is not there is no error.                   *)
Unlink(c) ==
  /\ fileCall[c].pc = "unlink"
  /\ disk' = disk \ {fileCall[c].key}
  /\ FileTo(c, "audit")
  /\ UNCHANGED <<lastKey, docs, announced, logo, panel, fileCalls, broken>>

----------------------------------------------------------------------------
(* The branding panel.  A draft holds the whole identity, name and logo.   *)
Dirty(p) == panel[p].draft /\ (panel[p].named \/ panel[p].shown # panel[p].seen)

Drafted(p, shown) == [panel EXCEPT ![p].shown = shown, ![p].draft = TRUE]

(* The query of the panel is answered; a draft is shown in its place.      *)
LoadPanel(p) ==
  /\ panel[p].seen # logo
  /\ panel' = [panel EXCEPT ![p].seen = logo, ![p].shown = IF panel[p].draft THEN @ ELSE logo]
  /\ UNCHANGED <<disk, lastKey, docs, announced, logo, fileCall, fileCalls, broken>>

EditName(p) ==
  /\ ~panel[p].named
  /\ panel' = [Drafted(p, panel[p].shown) EXCEPT ![p].named = TRUE]
  /\ UNCHANGED <<disk, lastKey, docs, announced, logo, fileCall, fileCalls, broken>>

DiscardDraft(p) ==
  /\ Dirty(p)
  /\ panel' = [panel EXCEPT ![p].shown = panel[p].seen, ![p].draft = FALSE, ![p].named = FALSE]
  /\ UNCHANGED <<disk, lastKey, docs, announced, logo, fileCall, fileCalls, broken>>

(* uploadLogo stages a file and answers with its key.                      *)
UploadLogo(c, p) ==
  /\ ~Busy(p)
  /\ FileStarts(c, "logo", "save", 0, {p})
  /\ UNCHANGED <<disk, lastKey, docs, announced, logo, panel, broken>>

(* removeLogo reads the setting, removes the file it names, and leaves the *)
(* setting alone.                                                          *)
RemoveLogo(c, p) ==
  /\ ~Busy(p) /\ panel[p].shown # 0
  /\ FileStarts(c, "unlogo", "setting", 0, {p})
  /\ UNCHANGED <<disk, lastKey, docs, announced, logo, panel, broken>>

ReadLogo(c) ==
  /\ fileCall[c].pc = "setting"
  /\ fileCall' = [fileCall EXCEPT ![c].key = logo, ![c].pc = IF logo = 0 THEN "audit" ELSE "unlink"]
  /\ UNCHANGED <<disk, lastKey, docs, announced, logo, panel, fileCalls, broken>>

(* updateBranding stores the identity of the panel's draft as it is shown  *)
(* when the button is pressed.                                             *)
SaveBranding(c, p) ==
  /\ ~Busy(p) /\ Dirty(p)
  /\ fileCall[c] = NoFileCall /\ fileCalls < MaxFileCalls
  /\ fileCalls' = fileCalls + 1
  /\ fileCall' = [fileCall EXCEPT ![c] =
       [op |-> "brand", pc |-> "store", key |-> panel[p].shown, doc |-> 0, at |-> {p}]]
  /\ UNCHANGED <<disk, lastKey, docs, announced, logo, panel, broken>>

StoreBranding(c) ==
  /\ fileCall[c].pc = "store"
  /\ logo' = fileCall[c].key
  /\ FileTo(c, "audit")
  /\ UNCHANGED <<disk, lastKey, docs, announced, panel, fileCalls, broken>>

(* The answer reaches the panel: a staged logo, none, or the saved one.    *)
PanelAnswer(c) ==
  /\ fileCall[c].pc = "answer"
  /\ LET p == CHOOSE q \in Panels : q \in fileCall[c].at IN
     panel' = CASE fileCall[c].op = "logo" -> Drafted(p, fileCall[c].key)
                [] fileCall[c].op = "unlogo" -> Drafted(p, 0)
                [] OTHER -> [panel EXCEPT ![p] = [seen |-> logo, shown |-> logo,
                                                  draft |-> FALSE, named |-> FALSE]]
  /\ FileEnds(c)
  /\ UNCHANGED <<disk, lastKey, docs, announced, logo, fileCalls, broken>>

(* A call of the handler fails, or the process stops.                      *)
FileCallFails(c) ==
  /\ FilesMayFail /\ fileCall[c] # NoFileCall
  /\ broken' = broken \cup ({fileCall[c].key} \ {0})
  /\ FileEnds(c)
  /\ UNCHANGED <<disk, lastKey, docs, announced, logo, panel, fileCalls>>

StoredFilesNext ==
  \/ \E c \in FileCalls :
       \/ \E kind \in {"attachment", "slip"} : UploadCall(c, kind)
       \/ \E d \in DOMAIN docs : DeleteCall(c, d)
       \/ \E p \in Panels : UploadLogo(c, p) \/ RemoveLogo(c, p) \/ SaveBranding(c, p)
       \/ SaveFile(c) \/ CreateDoc(c) \/ FileAudit(c) \/ PublishSlip(c) \/ SoftDelete(c)
       \/ Unlink(c) \/ ReadLogo(c) \/ StoreBranding(c) \/ PanelAnswer(c) \/ FileCallFails(c)
  \/ \E p \in Panels : LoadPanel(p) \/ EditName(p) \/ DiscardDraft(p)

StoredFilesSpec == StoredFilesInit /\ [][StoredFilesNext]_fileVars

----------------------------------------------------------------------------
(* The types of the state, and of every call what it has in hand.          *)
StoredFilesTypeOK ==
  /\ lastKey \in 0 .. MaxFiles /\ disk \subseteq 1 .. lastKey /\ broken \subseteq 1 .. lastKey
  /\ docs \in Seq([kind : {"attachment", "slip"}, key : 1 .. lastKey, live : BOOLEAN])
  /\ announced \subseteq {d \in DOMAIN docs : docs[d].kind = "slip"}
  /\ logo \in 0 .. lastKey
  /\ panel \in [Panels -> [seen : 0 .. lastKey, shown : 0 .. lastKey,
                           draft : BOOLEAN, named : BOOLEAN]]
  /\ \A c \in FileCalls : LET j == fileCall[c] IN
       /\ j.key \in 0 .. lastKey /\ j.doc \in 0 .. Len(docs) /\ j.at \subseteq Panels
       /\ j.pc \in {"strike", "publish"} => j.doc # 0
       /\ j.pc \in {"create", "unlink"} => j.key # 0
       /\ j.pc = "answer" => Cardinality(j.at) = 1
  /\ fileCalls \in 0 .. MaxFileCalls

(* An attachment or a slip that can be found has its file: the file is     *)
(* saved first and removed last, by attachment.service.js and              *)
(* salary-slip.service.js, whatever else runs or fails in between.         *)
FileOfRecord == \A d \in DOMAIN docs : docs[d].live => docs[d].key \in disk

(* No call that ran to its end leaves a half behind: the file of an        *)
(* attachment that was deleted is gone (of two deletes of one attachment,  *)
(* the one that struck out the record removes it), and a slip on record    *)
(* has been announced to its receiver.                                     *)
NothingLeft ==
  \A d \in DOMAIN docs :
    \/ docs[d].key \in broken
    \/ \E c \in FileCalls : fileCall[c].key = docs[d].key \/ fileCall[c].doc = d
    \/ /\ docs[d].key \in disk => docs[d].live
       /\ docs[d].kind = "slip" => d \in announced

(* "The persisted branding is NOT changed until updateBranding is called": *)
(* the logo the setting names can be served.                               *)
LogoServed == logo # 0 => logo \in disk
=============================================================================
