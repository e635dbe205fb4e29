---------------------------- MODULE MessageFiles ----------------------------
(***************************************************************************)
(* interfaz/core/views.py, mensajes, with enviar_mensaje, subir_archivo,   *)
(* obtener_mensajes and GetArchivos of utils.py: messages and their files  *)
(* live in two services that know nothing of each other.  A POST stores    *)
(* the message in one and then, one by one, its files in the other; a GET  *)
(* lists the messages, then the files of the thread, asks for a link for   *)
(* each file and joins the two lists by position.  One thread is modelled, *)
(* and a window that shows it: its script asks again every 3 seconds,      *)
(* without waiting for the answers, and shows whichever comes last.        *)
(*                                                                         *)
(* pc of a post:  "idle" -> ["uploading" ->] "done", or "stopped"          *)
(* pc of a GET:   "idle" -> "messages" -> "files" -> "links" -> "answered" *)
(*                and then, or if it fails, "idle" again                   *)
(***************************************************************************)
EXTENDS Naturals, Sequences

CONSTANTS
  Posts,     \* POSTs of a message; its message has the same name
  Attached,  \* post |-> how many files it has
  Gets,      \* GETs of the window that may be under way together
  Limit,     \* messages on a page: 50
  None

ASSUME FilesAssumption ==
  /\ Attached \in [Posts -> Nat]
  /\ Limit \in Nat
  /\ Posts \cap Gets = {}
  /\ None \notin Posts

(* A file is known by its post and its place among the post's files.       *)
FilesOf(p) == {<<p, i>> : i \in 1..Attached[p]}

VARIABLES
  thread,    \* the messages service: messages stored, oldest first
  files,     \* the files service: files stored, each with a message id
  pc,        \* post or GET |-> where it is
  id,        \* post |-> the message id it was told
  next,      \* post |-> the file it uploads next
  tried,     \* files whose upload was attempted
  reported,  \* files whose upload was reported (to the log) as done
  ids,       \* GET |-> the messages listed, newest first
  group,     \* GET |-> message listed |-> its files
  rows,      \* GET |-> its answer, oldest message first
  since,     \* GET |-> files reported or shown when it was asked for
  box        \* what the window shows

vars == <<thread, files, pc, id, next, tried, reported, ids, group, rows, since, box>>
postVars == <<thread, files, id, next, tried, reported>>
pageVars == <<ids, group, rows, since, box>>

NoFiles == [m \in {} |-> {}]

Init ==
  /\ thread = <<>> /\ files = {}
  /\ pc = [x \in Posts \cup Gets |-> "idle"]
  /\ id = [p \in Posts |-> None]
  /\ next = [p \in Posts |-> 1]
  /\ tried = {} /\ reported = {}
  /\ ids = [r \in Gets |-> <<>>]
  /\ group = [r \in Gets |-> NoFiles]
  /\ rows = [r \in Gets |-> <<>>]
  /\ since = [r \in Gets |-> {}]
  /\ box = <<>>

Goto(x, label) == pc' = [pc EXCEPT ![x] = label]

-----------------------------------------------------------------------------
(* POST *)

(* enviar_mensaje: the service stored the message and said so,             *)
Send(p) ==
  /\ pc[p] = "idle"
  /\ thread' = Append(thread, p)
  /\ id' = [id EXCEPT ![p] = p]
  /\ Goto(p, IF Attached[p] > 0 THEN "uploading" ELSE "done")
  /\ UNCHANGED <<files, next, tried, reported, pageVars>>

(* ... or it did not say so, or without an id, whether it stored it or     *)
(* not: the files are left out.                                            *)
SendFails_GoesOn(p) ==
  /\ pc[p] = "idle"
  /\ thread' \in {thread, Append(thread, p)}
  /\ id' = [id EXCEPT ![p] = p]
  /\ Goto(p, IF Attached[p] > 0 THEN "uploading" ELSE "done")
  /\ UNCHANGED <<files, next, tried, reported, pageVars>>
SendFails(p) ==
  /\ pc[p] = "idle"
  /\ thread' \in {thread, Append(thread, p)}
  /\ Goto(p, "done")
  /\ UNCHANGED <<files, id, next, tried, reported, pageVars>>

(* subir_archivo for one file; the next one follows, whatever came of it.  *)
Try(p) ==
  /\ pc[p] = "uploading"
  /\ tried' = tried \cup {<<p, next[p]>>}
  /\ next' = [next EXCEPT ![p] = @ + 1]
  /\ UNCHANGED <<thread, id, pageVars>>
NextFile_Stops(p) == Goto(p, IF next[p] < Attached[p] /\ <<p, next[p]>> \in reported'
                             THEN "uploading" ELSE "done")
NextFile_Beyond(p) == Goto(p, IF next[p] <= Attached[p] THEN "uploading" ELSE "done")
NextFile(p) == Goto(p, IF next[p] < Attached[p] THEN "uploading" ELSE "done")

Stored_Last(p) == [file |-> <<p, next[p]>>, message |-> thread[Len(thread)]]
Stored(p) == [file |-> <<p, next[p]>>, message |-> id[p]]

Upload(p) ==
  /\ Try(p)
  /\ files' = files \cup {Stored(p)}
  /\ reported' = reported \cup {<<p, next[p]>>}
  /\ NextFile(p)

(* A timeout or an error, which the service may have answered in vain.     *)
UploadFails_Unseen(p) ==
  /\ Try(p)
  /\ files' \in {files, files \cup {Stored(p)}}
  /\ reported' = reported \cup {<<p, next[p]>>}
  /\ NextFile(p)
UploadFails(p) ==
  /\ Try(p)
  /\ files' \in {files, files \cup {Stored(p)}}
  /\ UNCHANGED reported
  /\ NextFile(p)

(* The process stops.                                                      *)
Stop(p) ==
  /\ pc[p] = "uploading"
  /\ Goto(p, "stopped")
  /\ UNCHANGED <<postVars, pageVars>>

-----------------------------------------------------------------------------
(* GET *)

FilesIn(shown) == UNION {shown[i].files : i \in DOMAIN shown}

(* refreshMessages, or the page being opened.                              *)
Ask(r) ==
  /\ pc[r] = "idle"
  /\ Goto(r, "messages")
  /\ since' = [since EXCEPT ![r] = reported \cup FilesIn(box)]
  /\ UNCHANGED <<postVars, ids, group, rows, box>>

(* The GET is over, and with it all that it knew.                          *)
End(r) ==
  /\ Goto(r, "idle")
  /\ ids' = [ids EXCEPT ![r] = <<>>]
  /\ group' = [group EXCEPT ![r] = NoFiles]
  /\ rows' = [rows EXCEPT ![r] = <<>>]
  /\ since' = [since EXCEPT ![r] = {}]
  /\ UNCHANGED postVars

(* The newest messages of the thread, newest first, or of the thread as it *)
(* was some time ago: the service has a cache (MessagesAPI).               *)
Recent(s) ==
  LET shown == IF Len(s) < Limit THEN Len(s) ELSE Limit
  IN [i \in 1..shown |-> s[Len(s) + 1 - i]]
ListMessages(r) ==
  /\ pc[r] = "messages"
  /\ \E n \in 0..Len(thread) :
       ids' = [ids EXCEPT ![r] = Recent(SubSeq(thread, 1, n))]
  /\ Goto(r, "files")
  /\ UNCHANGED <<postVars, group, rows, since, box>>

(* An error is an empty page.                                              *)
ListMessagesFails(r) ==
  /\ pc[r] = "messages"
  /\ Goto(r, "answered")
  /\ UNCHANGED <<postVars, pageVars>>

(* obtener_archivos_por_mensajes: all files of the thread, grouped under   *)
(* the messages listed; other files are ignored.                           *)
Listed(r) == {ids[r][i] : i \in DOMAIN ids[r]}
ListFiles(r) ==
  /\ pc[r] = "files"
  /\ group' = [group EXCEPT ![r] =
       [m \in Listed(r) |-> {f.file : f \in {g \in files : g.message = m}}]]
  /\ Goto(r, "links")
  /\ UNCHANGED <<postVars, ids, rows, since, box>>

Reverse(s) == [i \in DOMAIN s |-> s[Len(s) + 1 - i]]
Row(message, fs, error) == [message |-> message, files |-> fs, error |-> error]

(* The page, oldest message first, is all that is left of the lists.       *)
Answer(r, mensajes) ==
  /\ rows' = [rows EXCEPT ![r] = Reverse(mensajes)]
  /\ ids' = [ids EXCEPT ![r] = <<>>]
  /\ group' = [group EXCEPT ![r] = NoFiles]
  /\ Goto(r, "answered")
  /\ UNCHANGED <<postVars, since, box>>

(* An error of the list goes to every message.                             *)
ListFilesFails_Again(r) ==
  /\ pc[r] = "files"
  /\ Goto(r, "messages")
  /\ UNCHANGED <<postVars, pageVars>>
ListFilesFails(r) ==
  /\ pc[r] = "files"
  /\ Answer(r, [i \in DOMAIN ids[r] |-> Row(ids[r][i], {}, TRUE)])

(* GetArchivos: for each message, in the order of ids, its files; each has *)
(* a link or, if asking for it failed, the error in the link's place.      *)
GetArchivos_Turned(r) == Reverse([i \in DOMAIN ids[r] |-> group[r][ids[r][i]]])
GetArchivos(r) == [i \in DOMAIN ids[r] |-> group[r][ids[r][i]]]

Grouped(r) == UNION {group[r][m] : m \in Listed(r)}

Links(r) ==
  /\ pc[r] = "links"
  /\ LET archivos == GetArchivos(r) IN
     Answer(r, [i \in DOMAIN ids[r] |-> Row(ids[r][i], archivos[i], FALSE)])

(* entry["url"]["url"] raises if a link came as text: no page, and the     *)
(* script ignores the answer.                                              *)
LinksFail(r) ==
  /\ pc[r] = "links" /\ Grouped(r) # {}
  /\ End(r)
  /\ UNCHANGED box

(* The script replaces what the window shows.                              *)
Arrive(r) ==
  /\ pc[r] = "answered"
  /\ box' = rows[r]
  /\ End(r)

(* The answer is lost, or the window was left before it came.              *)
Lost(r) ==
  /\ pc[r] # "idle"
  /\ End(r)
  /\ UNCHANGED box

PostStep(p) == Send(p) \/ SendFails(p) \/ Upload(p) \/ UploadFails(p) \/ Stop(p)
PageStep(r) ==
  \/ ListMessages(r) \/ ListMessagesFails(r) \/ ListFiles(r) \/ ListFilesFails(r)
  \/ Links(r) \/ LinksFail(r) \/ Arrive(r)

Next ==
  \/ \E p \in Posts : PostStep(p)
  \/ \E r \in Gets : Ask(r) \/ PageStep(r) \/ Lost(r)

Spec == Init /\ [][Next]_vars

(* The calls of a GET have timeouts; enviar_mensaje has none.              *)
FairSpec == Spec /\ \A r \in Gets : WF_vars(PageStep(r))

-----------------------------------------------------------------------------
(* Properties. *)

AllFiles == UNION {FilesOf(p) : p \in Posts}
Records == [file : AllFiles, message : Posts]
Rows == [message : Posts, files : SUBSET AllFiles, error : BOOLEAN]

(* Types; a post never uploads a file that it does not have.               *)
TypeOK ==
  /\ thread \in Seq(Posts) /\ files \subseteq Records
  /\ \A p \in Posts : pc[p] \in {"idle", "uploading", "done", "stopped"}
  /\ \A r \in Gets : pc[r] \in {"idle", "messages", "files", "links", "answered"}
  /\ id \in [Posts -> Posts \cup {None}]
  /\ \A p \in Posts : next[p] \in 1..(Attached[p] + 1)
  /\ tried \subseteq AllFiles /\ reported \subseteq tried
  /\ ids \in [Gets -> Seq(Posts)] /\ rows \in [Gets -> Seq(Rows)]
  /\ \A r \in Gets : pc[r] = "links" => group[r] \in [Listed(r) -> SUBSET AllFiles]
  /\ since \in [Gets -> SUBSET tried]
  /\ box \in Seq(Rows)

(* No file is stored for a message that was not, whichever service failed  *)
(* and whatever either of them concealed.                                  *)
NoOrphans == \A f \in files : \E i \in DOMAIN thread : thread[i] = f.message

(* The window shows files under the message they were sent with, although  *)
(* messages and files are read at different times and joined by position,  *)
(* and an answer that was overtaken may replace a later one.               *)
FilesWithTheirMessage ==
  \A i \in DOMAIN box : box[i].files \subseteq FilesOf(box[i].message)

(* An answer whose files could be listed has, under each of its messages,  *)
(* at least the files that were reported as uploaded, or that the window   *)
(* showed, when it was asked for: nothing disappears but by an error or by *)
(* an answer that another one overtook.                                    *)
PageCarriesFiles ==
  \A r \in Gets : \A i \in DOMAIN rows[r] :
    ~rows[r][i].error =>
      since[r] \cap FilesOf(rows[r][i].message) \subseteq rows[r][i].files

(* The failure of a file's upload does not keep the others from theirs:    *)
(* a post that was told its message's id, and was not stopped, tries all.  *)
AllTried == \A p \in Posts : pc[p] = "done" /\ id[p] # None => FilesOf(p) \subseteq tried

(* A page that was asked for comes, or an error does: the script's GETs do *)
(* not pile up.                                                            *)
PagesEnd == \A r \in Gets : pc[r] = "messages" ~> pc[r] = "idle"
=============================================================================
