-------------------------- MODULE MessageFilesProofs --------------------------
(***************************************************************************)
(* MessageFiles for any number of posts, files, polls and any page length: *)
(* which files are stored, for which messages, and what a window shows of  *)
(* them.                                                                   *)
(***************************************************************************)
EXTENDS MessageFiles, SequenceTheorems, TLAPS

StoredFiles == {f.file : f \in files}
InThread(p) == \E i \in DOMAIN thread : thread[i] = p

Labels == {"idle", "uploading", "done", "stopped", "messages", "files", "links", "answered"}
Groupings == UNION {[S -> SUBSET AllFiles] : S \in SUBSET Posts}

(* The posts' part of the type invariant, and the pages'.                  *)
PostTypes ==
  /\ pc \in [Posts \cup Gets -> Labels]
  /\ thread \in Seq(Posts) /\ files \subseteq Records
  /\ \A p \in Posts : pc[p] \in {"idle", "uploading", "done", "stopped"}
  /\ id \in [Posts -> Posts \cup {None}]
  /\ next \in [Posts -> Nat]
  /\ \A p \in Posts : next[p] \in 1..(Attached[p] + 1)
  /\ tried \subseteq AllFiles /\ reported \subseteq tried

PageTypes ==
  /\ \A r \in Gets : pc[r] \in {"idle", "messages", "files", "links", "answered"}
  /\ ids \in [Gets -> Seq(Posts)] /\ rows \in [Gets -> Seq(Rows)]
  /\ group \in [Gets -> Groupings]
  /\ \A r \in Gets : pc[r] = "links" => group[r] \in [Listed(r) -> SUBSET AllFiles]
  /\ since \in [Gets -> SUBSET AllFiles]
  /\ box \in Seq(Rows)

(* A post that has an id has its message in the thread, and it uploads     *)
(* only while it has one and a file is left.                               *)
IdInvOf(p) ==
  /\ pc[p] = "idle" => id[p] = None /\ next[p] = 1
  /\ id[p] # None => id[p] = p /\ InThread(p)
  /\ pc[p] = "uploading" => id[p] = p /\ next[p] <= Attached[p]
  /\ pc[p] = "done" /\ id[p] # None => next[p] > Attached[p]
IdInv == \A p \in Posts : IdInvOf(p)

(* Files were tried in their order.                                        *)
TriedInv == \A p \in Posts : \A i \in 1..Attached[p] : i < next[p] => <<p, i>> \in tried

(* A file stored is one of its message's, and was tried.                   *)
FileInv ==
  /\ \A f \in files : f.file \in FilesOf(f.message) /\ InThread(f.message)
  /\ StoredFiles \subseteq tried
  /\ reported \subseteq StoredFiles

(* What a page, a window and the lists in hand show is stored, under its   *)
(* message; what was reported before is in the lists and the page.         *)
Shows(row) == row.files \subseteq FilesOf(row.message) \cap StoredFiles

PageInv ==
  /\ \A r \in Gets : since[r] \subseteq StoredFiles
  /\ \A r \in Gets : pc[r] # "answered" => rows[r] = <<>>
  /\ \A r \in Gets : pc[r] = "links" => \A m \in Listed(r) :
       /\ group[r][m] \subseteq FilesOf(m) \cap StoredFiles
       /\ since[r] \cap FilesOf(m) \subseteq group[r][m]
  /\ \A r \in Gets : \A i \in DOMAIN rows[r] :
       /\ Shows(rows[r][i])
       /\ ~rows[r][i].error => since[r] \cap FilesOf(rows[r][i].message) \subseteq rows[r][i].files
  /\ \A i \in DOMAIN box : Shows(box[i])

PostInv == PostTypes /\ IdInv /\ TriedInv /\ FileInv
IInv == PostInv /\ PageTypes /\ PageInv

-----------------------------------------------------------------------------
(* A file belongs to one post.                                             *)
LEMMA OneOwner ==
  ASSUME NEW p, NEW q, NEW x, x \in FilesOf(p), x \in FilesOf(q)
  PROVE  p = q
BY DEF FilesOf

LEMMA FilesOfTypes ==
  ASSUME NEW p \in Posts
  PROVE  FilesOf(p) \subseteq AllFiles
BY DEF AllFiles

LEMMA GroupingIs ==
  ASSUME NEW S \in SUBSET Posts, NEW g \in [S -> SUBSET AllFiles]
  PROVE  g \in Groupings
BY DEF Groupings

LEMMA NoFilesIs == NoFiles \in Groupings
<1>1. NoFiles \in [{} -> SUBSET AllFiles]
  BY DEF NoFiles
<1> QED BY <1>1, GroupingIs

LEMMA ReverseIs ==
  ASSUME NEW S, NEW s \in Seq(S)
  PROVE  /\ Reverse(s) \in Seq(S) /\ DOMAIN Reverse(s) = DOMAIN s
         /\ \A i \in DOMAIN s : \E j \in DOMAIN s : Reverse(s)[i] = s[j]
<1>1. Len(s) \in Nat /\ DOMAIN s = 1..Len(s) /\ \A i \in 1..Len(s) : s[i] \in S
  BY LenProperties, ElementOfSeq
<1>2. \A i \in 1..Len(s) : Len(s) + 1 - i \in 1..Len(s)
  BY <1>1
<1>3. Reverse(s) \in [1..Len(s) -> S]
  BY <1>1, <1>2 DEF Reverse
<1>4. Reverse(s) \in Seq(S)
  BY <1>1, <1>3, SeqDef
<1> QED BY <1>1, <1>2, <1>4 DEF Reverse

LEMMA RecentIs ==
  ASSUME NEW s \in Seq(Posts)
  PROVE  Recent(s) \in Seq(Posts)
<1> DEFINE shown == IF Len(s) < Limit THEN Len(s) ELSE Limit
<1>1. Len(s) \in Nat /\ \A i \in 1..Len(s) : s[i] \in Posts
  BY LenProperties, ElementOfSeq
<1>2. shown \in Nat /\ shown <= Len(s)
  BY <1>1, FilesAssumption DEF FilesAssumption
<1>3. Recent(s) = [i \in 1..shown |-> s[Len(s) + 1 - i]]
  BY DEF Recent
<1> HIDE DEF shown
<1>4. \A i \in 1..shown : Len(s) + 1 - i \in 1..Len(s)
  BY <1>1, <1>2
<1>5. Recent(s) \in [1..shown -> Posts]
  BY <1>1, <1>3, <1>4
<1> QED BY <1>2, <1>5, SeqDef

-----------------------------------------------------------------------------
LEMMA InitIInv == Init => IInv
<1> SUFFICES ASSUME Init PROVE IInv
  OBVIOUS
<1> USE FilesAssumption DEF FilesAssumption, Init
<1>1. PostTypes
  BY EmptySeq DEF PostTypes, Labels
<1>2. IdInv /\ TriedInv /\ FileInv
  BY DEF IdInv, IdInvOf, TriedInv, FileInv, StoredFiles
<1>3. PageTypes
  BY EmptySeq, NoFilesIs DEF PageTypes
<1>4. PageInv
  BY DEF PageInv, StoredFiles
<1> QED BY <1>1, <1>2, <1>3, <1>4 DEF IInv, PostInv

(* A post's step leaves the pages what they were if no stored file goes.   *)
LEMMA PagesKept ==
  ASSUME PageTypes, PageInv, UNCHANGED pageVars,
         \A r \in Gets : pc'[r] = pc[r], files \subseteq files'
  PROVE  PageTypes' /\ PageInv'
<1> USE DEF pageVars
<1>1. StoredFiles \subseteq StoredFiles'
  BY DEF StoredFiles
<1>2. PageTypes'
  <2>1. \A r \in Gets : Listed(r)' = Listed(r)
    BY DEF Listed
  <2>2. \A r \in Gets : pc'[r] = "links" => group'[r] \in [Listed(r)' -> SUBSET AllFiles]
    BY <2>1 DEF PageTypes
  <2> QED BY <2>2 DEF PageTypes
<1>3. PageInv'
  BY <1>1 DEF PageInv, Shows, Listed
<1> QED BY <1>2, <1>3

(* The thread of a post's step.                                            *)
LEMMA ThreadGrows ==
  ASSUME PostTypes, NEW p \in Posts, thread' \in {thread, Append(thread, p)}
  PROVE  /\ thread' \in Seq(Posts)
         /\ \A q \in Posts : InThread(q) => InThread(q)'
         /\ thread' = Append(thread, p) => InThread(p)'
<1>1. thread \in Seq(Posts)
  BY DEF PostTypes
<1>2. CASE thread' = thread /\ thread' # Append(thread, p)
  BY <1>1, <1>2 DEF InThread
<1>3. CASE thread' = Append(thread, p)
  <2>1. /\ thread' \in Seq(Posts) /\ Len(thread') = Len(thread) + 1
        /\ \A i \in 1..Len(thread) : thread'[i] = thread[i]
        /\ thread'[Len(thread) + 1] = p
    BY <1>1, <1>3, AppendProperties
  <2>2. Len(thread) \in Nat /\ DOMAIN thread = 1..Len(thread) /\ DOMAIN thread' = 1..Len(thread')
    BY <1>1, <2>1, LenProperties
  <2> QED BY <2>1, <2>2 DEF InThread
<1> QED BY <1>2, <1>3

LEMMA StepSend ==
  ASSUME IInv, NEW p \in Posts, Send(p) \/ SendFails(p)
  PROVE  IInv'
<1> USE FilesAssumption DEF FilesAssumption
<1>1. PostTypes /\ IdInv /\ TriedInv /\ FileInv
  BY DEF IInv, PostInv
<1>2. /\ thread' \in {thread, Append(thread, p)} /\ pc[p] = "idle"
      /\ UNCHANGED <<files, next, tried, reported, pageVars>>
      /\ \/ id' = id /\ pc' = [pc EXCEPT ![p] = "done"]
         \/ /\ id' = [id EXCEPT ![p] = p] /\ thread' = Append(thread, p)
            /\ pc' = [pc EXCEPT ![p] = IF Attached[p] > 0 THEN "uploading" ELSE "done"]
  BY DEF Send, SendFails, Goto
<1>3. /\ thread' \in Seq(Posts)
      /\ \A q \in Posts : InThread(q) => InThread(q)'
      /\ thread' = Append(thread, p) => InThread(p)'
  BY <1>1, <1>2, ThreadGrows
<1>4. pc \in [Posts \cup Gets -> Labels] /\ id \in [Posts -> Posts \cup {None}]
  BY <1>1 DEF PostTypes
<1>5. /\ \A r \in Gets : pc'[r] = pc[r]
      /\ \A q \in Posts \ {p} : pc'[q] = pc[q] /\ id'[q] = id[q]
      /\ pc'[p] \in {"uploading", "done"}
      /\ \/ id'[p] = None /\ pc'[p] = "done"
         \/ /\ id'[p] = p /\ InThread(p)'
            /\ pc'[p] = IF Attached[p] > 0 THEN "uploading" ELSE "done"
  <2>1. id[p] = None
    BY <1>1, <1>2 DEF IdInv, IdInvOf
  <2>2. /\ \A r \in Gets : pc'[r] = pc[r]
        /\ \A q \in Posts \ {p} : pc'[q] = pc[q] /\ id'[q] = id[q]
    BY <1>2, <1>4
  <2>3. CASE id' = id /\ pc' = [pc EXCEPT ![p] = "done"]
    BY <2>1, <2>2, <2>3, <1>4
  <2>4. CASE /\ id' = [id EXCEPT ![p] = p] /\ thread' = Append(thread, p)
             /\ pc' = [pc EXCEPT ![p] = IF Attached[p] > 0 THEN "uploading" ELSE "done"]
    <3>1. id'[p] = p /\ pc'[p] = IF Attached[p] > 0 THEN "uploading" ELSE "done"
      BY <2>4, <1>4
    <3> QED BY <3>1, <2>2, <2>4, <1>3
  <2> QED BY <2>3, <2>4, <1>2
<1>6. PostTypes'
  <2>1. pc' \in [Posts \cup Gets -> Labels] /\ id' \in [Posts -> Posts \cup {None}]
    BY <1>2, <1>4 DEF Labels
  <2>2. \A q \in Posts : pc'[q] \in {"idle", "uploading", "done", "stopped"}
    <3>1. ASSUME NEW q \in Posts \ {p} PROVE pc'[q] \in {"idle", "uploading", "done", "stopped"}
      BY <1>1, <1>5 DEF PostTypes
    <3> QED BY <3>1, <1>5
  <2> QED BY <2>1, <2>2, <1>1, <1>2, <1>3 DEF PostTypes
<1>7. IdInv'
  <2>1. next[p] = 1 /\ Attached[p] \in Nat /\ next'[p] = next[p]
    BY <1>1, <1>2 DEF IdInv, IdInvOf
  <2>2. ASSUME NEW q \in Posts \ {p} PROVE IdInvOf(q)'
    BY <1>1, <1>2, <1>3, <1>5 DEF IdInv, IdInvOf
  <2>3. IdInvOf(p)'
    BY <2>1, <1>5 DEF IdInvOf
  <2> QED BY <2>2, <2>3 DEF IdInv, IdInvOf
<1>8. TriedInv' /\ FileInv'
  <2>1. TriedInv' /\ StoredFiles' = StoredFiles
    BY <1>1, <1>2 DEF TriedInv, StoredFiles
  <2>2. \A f \in files : f.message \in Posts
    BY <1>1 DEF PostTypes, Records
  <2> QED BY <2>1, <2>2, <1>1, <1>2, <1>3 DEF FileInv
<1>9. PageTypes' /\ PageInv'
  BY <1>2, <1>5, PagesKept DEF IInv
<1> QED BY <1>6, <1>7, <1>8, <1>9 DEF IInv, PostInv

(* An upload, whatever came of it.                                         *)
LEMMA StepUpload ==
  ASSUME IInv, NEW p \in Posts, Upload(p) \/ UploadFails(p)
  PROVE  IInv'
<1> USE FilesAssumption DEF FilesAssumption
<1> DEFINE x == <<p, next[p]>>
<1>1. PostTypes /\ IdInv /\ TriedInv /\ FileInv
  BY DEF IInv, PostInv
<1>2. /\ pc[p] = "uploading" /\ tried' = tried \cup {x}
      /\ next' = [next EXCEPT ![p] = @ + 1]
      /\ UNCHANGED <<thread, id, pageVars>>
      /\ files' \in {files, files \cup {Stored(p)}}
      /\ \/ files' = files \cup {Stored(p)} /\ reported' = reported \cup {x}
         \/ reported' = reported
      /\ pc' = [pc EXCEPT ![p] = IF next[p] < Attached[p] THEN "uploading" ELSE "done"]
  BY DEF Upload, UploadFails, Try, NextFile, Goto
<1>3. /\ pc \in [Posts \cup Gets -> Labels] /\ next \in [Posts -> Nat]
      /\ Attached[p] \in Nat /\ next[p] \in 1..Attached[p] /\ id[p] = p /\ InThread(p)
  BY <1>1, <1>2 DEF PostTypes, IdInv, IdInvOf
<1>4. /\ \A r \in Gets : pc'[r] = pc[r]
      /\ \A q \in Posts \ {p} : pc'[q] = pc[q] /\ next'[q] = next[q]
      /\ next'[p] = next[p] + 1
      /\ pc'[p] = IF next[p] < Attached[p] THEN "uploading" ELSE "done"
  BY <1>2, <1>3
<1>5. x \in FilesOf(p) /\ x \in AllFiles
  BY <1>3, FilesOfTypes DEF FilesOf
<1>6. Stored(p) \in Records /\ Stored(p).file = x /\ Stored(p).message = p
  BY <1>3, <1>5 DEF Stored, Records
<1> HIDE DEF x
<1>7. PostTypes'
  <2>1. pc' \in [Posts \cup Gets -> Labels] /\ next' \in [Posts -> Nat]
    BY <1>2, <1>3 DEF Labels
  <2>2. \A q \in Posts : /\ pc'[q] \in {"idle", "uploading", "done", "stopped"}
                         /\ next'[q] \in 1..(Attached[q] + 1)
    <3>1. ASSUME NEW q \in Posts \ {p}
          PROVE  /\ pc'[q] \in {"idle", "uploading", "done", "stopped"}
                 /\ next'[q] \in 1..(Attached[q] + 1)
      BY <1>1, <1>4 DEF PostTypes
    <3>2. /\ pc'[p] \in {"idle", "uploading", "done", "stopped"}
          /\ next'[p] \in 1..(Attached[p] + 1)
      BY <1>3, <1>4
    <3> QED BY <3>1, <3>2
  <2>3. files' \subseteq Records /\ tried' \subseteq AllFiles /\ reported' \subseteq tried'
    BY <1>1, <1>2, <1>5, <1>6 DEF PostTypes
  <2> QED BY <2>1, <2>2, <2>3, <1>1, <1>2 DEF PostTypes
<1>8. IdInv'
  <2>1. \A q \in Posts : InThread(q)' = InThread(q)
    BY <1>2 DEF InThread
  <2> QED BY <2>1, <1>1, <1>2, <1>3, <1>4 DEF IdInv, IdInvOf
<1>9. TriedInv'
  <2> SUFFICES ASSUME NEW q \in Posts, NEW i \in 1..Attached[q], i < next'[q]
               PROVE  <<q, i>> \in tried'
    BY DEF TriedInv
  <2>1. CASE q = p /\ i = next[p]
    BY <2>1, <1>2 DEF x
  <2>2. CASE ~(q = p /\ i = next[p])
    BY <2>2, <1>1, <1>2, <1>3, <1>4 DEF TriedInv
  <2> QED BY <2>1, <2>2
<1>10. FileInv'
  <2>1. \A f \in files' : f \in files \/ (f.file = x /\ f.message = p)
    BY <1>2, <1>6
  <2>2. \A f \in files' : f.file \in FilesOf(f.message) /\ InThread(f.message)'
    BY <2>1, <1>1, <1>2, <1>3, <1>5 DEF FileInv, InThread
  <2>3. StoredFiles' \subseteq tried'
    BY <2>1, <1>1, <1>2 DEF FileInv, StoredFiles
  <2>4. reported' \subseteq StoredFiles'
    BY <1>1, <1>2, <1>6 DEF FileInv, StoredFiles
  <2> QED BY <2>2, <2>3, <2>4 DEF FileInv
<1>11. PageTypes' /\ PageInv'
  BY <1>2, <1>4, PagesKept DEF IInv
<1> QED BY <1>7, <1>8, <1>9, <1>10, <1>11 DEF IInv, PostInv

LEMMA StepStop ==
  ASSUME IInv, NEW p \in Posts, Stop(p)
  PROVE  IInv'
<1> USE FilesAssumption DEF FilesAssumption
<1>1. /\ pc' = [pc EXCEPT ![p] = "stopped"] /\ pc[p] = "uploading"
      /\ UNCHANGED <<thread, files, id, next, tried, reported, pageVars>>
  BY DEF Stop, Goto, postVars
<1>2. PostTypes /\ IdInv /\ TriedInv /\ FileInv
  BY DEF IInv, PostInv
<1>3. PostTypes' /\ IdInv'
  BY <1>1, <1>2 DEF PostTypes, IdInv, IdInvOf, InThread, Labels
<1>4. TriedInv' /\ FileInv'
  BY <1>1, <1>2 DEF TriedInv, FileInv, InThread, StoredFiles
<1>5. PageTypes' /\ PageInv'
  <2>1. \A r \in Gets : pc'[r] = pc[r]
    BY <1>1, <1>2 DEF PostTypes
  <2> QED BY <2>1, <1>1, PagesKept DEF IInv
<1> QED BY <1>3, <1>4, <1>5 DEF IInv, PostInv

-----------------------------------------------------------------------------
(* A page's step leaves the posts what they were.                          *)
LEMMA PostsKept ==
  ASSUME PostInv, NEW r \in Gets, NEW label \in {"idle", "messages", "files", "links", "answered"},
         Goto(r, label), UNCHANGED postVars
  PROVE  /\ PostInv' /\ StoredFiles' = StoredFiles
         /\ pc'[r] = label /\ \A q \in Gets \ {r} : pc'[q] = pc[q]
<1> USE FilesAssumption DEF FilesAssumption, postVars, Goto
<1>1. pc \in [Posts \cup Gets -> Labels]
  BY DEF PostInv, PostTypes
<1>2. /\ pc' \in [Posts \cup Gets -> Labels] /\ \A p \in Posts : pc'[p] = pc[p]
      /\ pc'[r] = label /\ \A q \in Gets \ {r} : pc'[q] = pc[q]
  BY <1>1 DEF Labels
<1>3. PostTypes' /\ IdInv'
  BY <1>2 DEF PostInv, PostTypes, IdInv, IdInvOf, InThread
<1>4. TriedInv' /\ FileInv' /\ StoredFiles' = StoredFiles
  BY DEF PostInv, TriedInv, FileInv, InThread, StoredFiles
<1> QED BY <1>2, <1>3, <1>4 DEF PostInv

(* What one GET must keep for the pages to stay right: all others' have    *)
(* what they had.                                                          *)
PageRight(r) ==
  /\ since[r] \subseteq StoredFiles /\ since[r] \subseteq AllFiles
  /\ ids[r] \in Seq(Posts) /\ rows[r] \in Seq(Rows) /\ group[r] \in Groupings
  /\ pc[r] # "answered" => rows[r] = <<>>
  /\ pc[r] = "links" => /\ group[r] \in [Listed(r) -> SUBSET AllFiles]
                        /\ \A m \in Listed(r) :
                             /\ group[r][m] \subseteq FilesOf(m) \cap StoredFiles
                             /\ since[r] \cap FilesOf(m) \subseteq group[r][m]
  /\ \A i \in DOMAIN rows[r] :
       /\ Shows(rows[r][i])
       /\ ~rows[r][i].error => since[r] \cap FilesOf(rows[r][i].message) \subseteq rows[r][i].files

BoxRight == box \in Seq(Rows) /\ \A i \in DOMAIN box : Shows(box[i])

Only(r, f, g) == DOMAIN g = DOMAIN f /\ \A q \in Gets \ {r} : g[q] = f[q]

LEMMA PagesRight ==
  PageTypes /\ PageInv <=>
    /\ \A r \in Gets : PageRight(r) /\ pc[r] \in {"idle", "messages", "files", "links", "answered"}
    /\ ids = [r \in Gets |-> ids[r]] /\ rows = [r \in Gets |-> rows[r]]
    /\ group = [r \in Gets |-> group[r]] /\ since = [r \in Gets |-> since[r]]
    /\ BoxRight
BY DEF PageTypes, PageInv, PageRight, BoxRight

LEMMA OnePage ==
  ASSUME IInv, NEW r \in Gets, NEW label \in {"idle", "messages", "files", "links", "answered"},
         Goto(r, label), UNCHANGED postVars,
         NEW i, ids' = [ids EXCEPT ![r] = i],
         NEW g, group' = [group EXCEPT ![r] = g],
         NEW a, rows' = [rows EXCEPT ![r] = a],
         NEW s, since' = [since EXCEPT ![r] = s],
         PageRight(r)', BoxRight'
  PROVE  IInv'
<1>1. PostInv' /\ StoredFiles' = StoredFiles
  BY PostsKept DEF IInv
<1>2. pc'[r] = label /\ \A q \in Gets \ {r} : pc'[q] = pc[q]
  BY PostsKept DEF IInv
<1>3. /\ \A q \in Gets : PageRight(q) /\ pc[q] \in {"idle", "messages", "files", "links", "answered"}
      /\ ids = [q \in Gets |-> ids[q]] /\ rows = [q \in Gets |-> rows[q]]
      /\ group = [q \in Gets |-> group[q]] /\ since = [q \in Gets |-> since[q]]
  BY PagesRight DEF IInv
<1>4. /\ ids' = [q \in Gets |-> ids'[q]] /\ rows' = [q \in Gets |-> rows'[q]]
      /\ group' = [q \in Gets |-> group'[q]] /\ since' = [q \in Gets |-> since'[q]]
  BY <1>3
<1>5. ASSUME NEW q \in Gets \ {r} PROVE PageRight(q)'
  <2>1. ids'[q] = ids[q] /\ rows'[q] = rows[q] /\ group'[q] = group[q] /\ since'[q] = since[q]
    BY <1>3
  <2>2. PageRight(q) /\ pc'[q] = pc[q]
    BY <1>2, <1>3
  <2>3. Listed(q)' = Listed(q) /\ \A row : Shows(row)' = Shows(row)
    BY <1>1, <2>1 DEF Listed, Shows
  <2>4. \A m \in Listed(q) : FilesOf(m) \cap StoredFiles' = FilesOf(m) \cap StoredFiles
    BY <1>1
  <2> HIDE DEF PageRight
  <2>5. (pc[q] = "links" => /\ group[q] \in [Listed(q) -> SUBSET AllFiles]
                            /\ \A m \in Listed(q) :
                                 /\ group[q][m] \subseteq FilesOf(m) \cap StoredFiles
                                 /\ since[q] \cap FilesOf(m) \subseteq group[q][m])'
    BY <1>1, <2>1, <2>2, <2>3, <2>4 DEF PageRight
  <2>6. (\A k \in DOMAIN rows[q] :
           /\ Shows(rows[q][k])
           /\ ~rows[q][k].error =>
                since[q] \cap FilesOf(rows[q][k].message) \subseteq rows[q][k].files)'
    BY <2>1, <2>2, <2>3 DEF PageRight
  <2> QED BY <1>1, <2>1, <2>2, <2>5, <2>6 DEF PageRight
<1>6. (PageTypes /\ PageInv)'
  <2>1. \A q \in Gets : PageRight(q)' /\ pc'[q] \in {"idle", "messages", "files", "links", "answered"}
    BY <1>2, <1>3, <1>5
  <2> QED BY <2>1, <1>4 DEF PageTypes, PageInv, PageRight, BoxRight
<1> QED BY <1>1, <1>6 DEF IInv

LEMMA FilesInBox ==
  ASSUME BoxRight
  PROVE  FilesIn(box) \subseteq StoredFiles
BY DEF BoxRight, Shows, FilesIn

LEMMA StepAsk ==
  ASSUME IInv, NEW r \in Gets, Ask(r)
  PROVE  IInv'
<1>1. /\ Goto(r, "messages") /\ pc[r] = "idle"
      /\ since' = [since EXCEPT ![r] = reported \cup FilesIn(box)]
      /\ UNCHANGED postVars /\ UNCHANGED <<ids, group, rows, box>>
  BY DEF Ask
<1>2. PostInv /\ PageRight(r) /\ BoxRight
  BY PagesRight DEF IInv
<1>3. pc'[r] = "messages" /\ StoredFiles' = StoredFiles
  BY <1>1, <1>2, PostsKept
<1>4. /\ ids' = [ids EXCEPT ![r] = ids[r]] /\ rows' = [rows EXCEPT ![r] = rows[r]]
      /\ group' = [group EXCEPT ![r] = group[r]]
  BY <1>1, PagesRight DEF IInv
<1>5. since'[r] = reported \cup FilesIn(box)
  BY <1>1 DEF IInv, PageTypes
<1>6. since'[r] \subseteq StoredFiles /\ since'[r] \subseteq AllFiles
  BY <1>2, <1>5, FilesInBox DEF PostInv, FileInv, PostTypes
<1>7. PageRight(r)'
  <2>1. rows'[r] = <<>> /\ rows'[r] \in Seq(Rows) /\ ids'[r] \in Seq(Posts) /\ group'[r] \in Groupings
    BY <1>1, <1>2 DEF PageRight
  <2> QED BY <2>1, <1>3, <1>6 DEF PageRight
<1>8. BoxRight'
  BY <1>1, <1>2, <1>3 DEF BoxRight, Shows
<1> QED BY <1>1, <1>4, <1>7, <1>8, OnePage

LEMMA StepEnd ==
  ASSUME IInv, NEW r \in Gets, End(r), box' = box \/ box' = rows[r]
  PROVE  IInv'
<1>1. /\ Goto(r, "idle") /\ UNCHANGED postVars
      /\ ids' = [ids EXCEPT ![r] = <<>>] /\ group' = [group EXCEPT ![r] = NoFiles]
      /\ rows' = [rows EXCEPT ![r] = <<>>] /\ since' = [since EXCEPT ![r] = {}]
  BY DEF End
<1>2. PostInv /\ PageRight(r) /\ BoxRight
  BY PagesRight DEF IInv
<1>3. pc'[r] = "idle" /\ StoredFiles' = StoredFiles
  BY <1>1, <1>2, PostsKept
<1>4. ids'[r] = <<>> /\ group'[r] = NoFiles /\ rows'[r] = <<>> /\ since'[r] = {}
  BY <1>1 DEF IInv, PageTypes
<1>5. PageRight(r)'
  BY <1>3, <1>4, NoFilesIs, EmptySeq DEF PageRight
<1>6. BoxRight'
  BY <1>2, <1>3 DEF BoxRight, PageRight, Shows
<1> QED BY <1>1, <1>5, <1>6, OnePage

(* A page that is going on and whose answer is not there yet.              *)
LEMMA StepListMessages ==
  ASSUME IInv, NEW r \in Gets, ListMessages(r) \/ ListMessagesFails(r)
  PROVE  IInv'
<1>1. PICK label \in {"files", "answered"}, i \in Seq(Posts) :
        /\ Goto(r, label) /\ UNCHANGED postVars
        /\ ids' = [ids EXCEPT ![r] = i]
        /\ pc[r] = "messages" /\ UNCHANGED <<group, rows, since, box>>
  <2>1. CASE ListMessages(r)
    <3>1. PICK n \in 0..Len(thread) : ids' = [ids EXCEPT ![r] = Recent(SubSeq(thread, 1, n))]
      BY <2>1 DEF ListMessages
    <3>2. thread \in Seq(Posts) /\ Len(thread) \in Nat
      BY LenProperties DEF IInv, PostInv, PostTypes
    <3>3. SubSeq(thread, 1, n) \in Seq(Posts)
      BY <3>1, <3>2, SubSeqProperties, ElementOfSeq
    <3> QED BY <2>1, <3>1, <3>3, RecentIs DEF ListMessages
  <2>2. CASE ListMessagesFails(r)
    <3>1. ids' = [ids EXCEPT ![r] = ids[r]] /\ ids[r] \in Seq(Posts)
      BY <2>2 DEF ListMessagesFails, pageVars, IInv, PageTypes
    <3> QED BY <2>2, <3>1 DEF ListMessagesFails, pageVars
  <2> QED BY <2>1, <2>2
<1>2. PostInv /\ PageRight(r) /\ BoxRight
  BY PagesRight DEF IInv
<1>3. pc'[r] = label /\ StoredFiles' = StoredFiles
  BY <1>1, <1>2, PostsKept
<1>4. /\ group' = [group EXCEPT ![r] = group[r]] /\ rows' = [rows EXCEPT ![r] = rows[r]]
      /\ since' = [since EXCEPT ![r] = since[r]]
  BY <1>1, PagesRight DEF IInv
<1>5. ids'[r] = i
  BY <1>1 DEF IInv, PageTypes
<1>6. PageRight(r)'
  <2>1. rows'[r] = <<>> /\ rows'[r] \in Seq(Rows) /\ group'[r] \in Groupings
        /\ since'[r] \subseteq StoredFiles /\ since'[r] \subseteq AllFiles
    BY <1>1, <1>2 DEF PageRight
  <2> QED BY <2>1, <1>1, <1>3, <1>5 DEF PageRight
<1>7. BoxRight'
  BY <1>1, <1>2, <1>3 DEF BoxRight, Shows
<1> QED BY <1>1, <1>4, <1>6, <1>7, OnePage

LEMMA StepListFiles ==
  ASSUME IInv, NEW r \in Gets, ListFiles(r)
  PROVE  IInv'
<1> DEFINE g == [m \in Listed(r) |-> {f.file : f \in {h \in files : h.message = m}}]
<1>1. /\ Goto(r, "links") /\ UNCHANGED postVars /\ pc[r] = "files"
      /\ group' = [group EXCEPT ![r] = g]
      /\ UNCHANGED <<ids, rows, since, box>>
  BY DEF ListFiles
<1>2. PostInv /\ PageRight(r) /\ BoxRight
  BY PagesRight DEF IInv
<1>3. pc'[r] = "links" /\ StoredFiles' = StoredFiles
  BY <1>1, <1>2, PostsKept
<1>4. /\ ids' = [ids EXCEPT ![r] = ids[r]] /\ rows' = [rows EXCEPT ![r] = rows[r]]
      /\ since' = [since EXCEPT ![r] = since[r]]
  BY <1>1, PagesRight DEF IInv
<1>5. group'[r] = g
  BY <1>1 DEF IInv, PageTypes
<1>6. Listed(r) \in SUBSET Posts
  <2>1. ids[r] \in Seq(Posts)
    BY <1>2 DEF PageRight
  <2>2. \A k \in DOMAIN ids[r] : ids[r][k] \in Posts
    BY <2>1, ElementOfSeq, LenProperties
  <2> QED BY <2>2 DEF Listed
<1>7. \A m \in Listed(r) : /\ g[m] \subseteq FilesOf(m) \cap StoredFiles
                           /\ since[r] \cap FilesOf(m) \subseteq g[m]
  <2> SUFFICES ASSUME NEW m \in Listed(r)
               PROVE  /\ g[m] \subseteq FilesOf(m) \cap StoredFiles
                      /\ since[r] \cap FilesOf(m) \subseteq g[m]
    OBVIOUS
  <2>1. g[m] = {f.file : f \in {h \in files : h.message = m}}
    OBVIOUS
  <2>2. \A f \in files : f.file \in FilesOf(f.message)
    BY <1>2 DEF PostInv, FileInv
  <2>3. g[m] \subseteq FilesOf(m) \cap StoredFiles
    BY <2>1, <2>2 DEF StoredFiles
  <2>4. ASSUME NEW x \in since[r], x \in FilesOf(m) PROVE x \in g[m]
    <3>1. PICK f \in files : f.file = x
      BY <2>4, <1>2 DEF PageRight, StoredFiles
    <3>2. f.message = m
      BY <3>1, <2>2, <2>4, OneOwner
    <3> QED BY <3>1, <3>2, <2>1
  <2> QED BY <2>3, <2>4
<1>8. g \in [Listed(r) -> SUBSET AllFiles]
  <2>1. \A f \in files : f.file \in AllFiles
    BY <1>2 DEF PostInv, PostTypes, Records
  <2> QED BY <2>1
<1> HIDE DEF g
<1>9. g \in Groupings
  BY <1>6, <1>8, GroupingIs
<1>10. PageRight(r)'
  <2>1. /\ rows'[r] = <<>> /\ rows'[r] \in Seq(Rows) /\ ids'[r] \in Seq(Posts)
        /\ since'[r] = since[r] /\ since[r] \subseteq StoredFiles /\ since[r] \subseteq AllFiles
    BY <1>1, <1>2 DEF PageRight
  <2>2. Listed(r)' = Listed(r)
    BY <1>1 DEF Listed
  <2> QED BY <2>1, <2>2, <1>3, <1>5, <1>7, <1>8, <1>9 DEF PageRight
<1>11. BoxRight'
  BY <1>1, <1>2, <1>3 DEF BoxRight, Shows
<1> QED BY <1>1, <1>4, <1>10, <1>11, OnePage

(* The answer has a row for each message listed, each right by itself.     *)
RowRight(r, row) ==
  /\ row \in Rows /\ Shows(row)
  /\ ~row.error => since[r] \cap FilesOf(row.message) \subseteq row.files

LEMMA StepAnswer ==
  ASSUME IInv, NEW r \in Gets, NEW mensajes \in Seq(Rows), Answer(r, mensajes),
         \A k \in DOMAIN mensajes : RowRight(r, mensajes[k])
  PROVE  IInv'
<1> DEFINE a == Reverse(mensajes)
<1>1. /\ Goto(r, "answered") /\ UNCHANGED postVars
      /\ ids' = [ids EXCEPT ![r] = <<>>] /\ group' = [group EXCEPT ![r] = NoFiles]
      /\ rows' = [rows EXCEPT ![r] = a] /\ UNCHANGED <<since, box>>
  BY DEF Answer
<1>2. PostInv /\ PageRight(r) /\ BoxRight
  BY PagesRight DEF IInv
<1>3. pc'[r] = "answered" /\ StoredFiles' = StoredFiles
  BY <1>1, <1>2, PostsKept
<1>4. ids'[r] = <<>> /\ group'[r] = NoFiles /\ rows'[r] = a
  BY <1>1 DEF IInv, PageTypes
<1>5. since' = [since EXCEPT ![r] = since[r]]
  BY <1>1, PagesRight DEF IInv
<1>6. a \in Seq(Rows) /\ \A k \in DOMAIN a : RowRight(r, a[k])
  BY ReverseIs
<1> HIDE DEF a
<1>7. PageRight(r)'
  <2>1. \A row : Shows(row)' = Shows(row)
    BY <1>3 DEF Shows
  <2>2. since'[r] = since[r] /\ since[r] \subseteq StoredFiles /\ since[r] \subseteq AllFiles
    BY <1>1, <1>2 DEF PageRight
  <2> QED BY <2>1, <2>2, <1>3, <1>4, <1>6, NoFilesIs, EmptySeq DEF PageRight, RowRight
<1>8. BoxRight'
  BY <1>1, <1>2, <1>3 DEF BoxRight, Shows
<1> QED BY <1>1, <1>5, <1>7, <1>8, OnePage

LEMMA StepListFilesFails ==
  ASSUME IInv, NEW r \in Gets, ListFilesFails(r)
  PROVE  IInv'
<1> DEFINE mensajes == [k \in DOMAIN ids[r] |-> Row(ids[r][k], {}, TRUE)]
<1>1. Answer(r, mensajes)
  BY DEF ListFilesFails
<1>2. ids[r] \in Seq(Posts)
  BY DEF IInv, PageTypes
<1>3. Len(ids[r]) \in Nat /\ DOMAIN ids[r] = 1..Len(ids[r]) /\ \A k \in 1..Len(ids[r]) : ids[r][k] \in Posts
  BY <1>2, LenProperties, ElementOfSeq
<1>4. \A k \in DOMAIN ids[r] : RowRight(r, Row(ids[r][k], {}, TRUE))
  BY <1>3 DEF RowRight, Row, Rows, Shows
<1>5. mensajes \in [1..Len(ids[r]) -> Rows] /\ \A k \in DOMAIN mensajes : RowRight(r, mensajes[k])
  BY <1>3, <1>4 DEF RowRight
<1> HIDE DEF mensajes
<1>6. mensajes \in Seq(Rows)
  BY <1>3, <1>5, SeqDef
<1> QED BY <1>1, <1>5, <1>6, StepAnswer

LEMMA StepLinks ==
  ASSUME IInv, NEW r \in Gets, Links(r)
  PROVE  IInv'
<1> DEFINE mensajes == [k \in DOMAIN ids[r] |-> Row(ids[r][k], group[r][ids[r][k]], FALSE)]
<1>1. GetArchivos(r) = [k \in DOMAIN ids[r] |-> group[r][ids[r][k]]]
  BY DEF GetArchivos
<1>2. Answer(r, mensajes) /\ pc[r] = "links"
  <2>1. Answer(r, [k \in DOMAIN ids[r] |-> Row(ids[r][k], GetArchivos(r)[k], FALSE)]) /\ pc[r] = "links"
    BY DEF Links
  <2>2. [k \in DOMAIN ids[r] |-> Row(ids[r][k], GetArchivos(r)[k], FALSE)] = mensajes
    BY <1>1
  <2> QED BY <2>1, <2>2
<1>3. ids[r] \in Seq(Posts)
  BY DEF IInv, PageTypes
<1>4. Len(ids[r]) \in Nat /\ DOMAIN ids[r] = 1..Len(ids[r]) /\ \A k \in 1..Len(ids[r]) : ids[r][k] \in Posts
  BY <1>3, LenProperties, ElementOfSeq
<1>5. /\ group[r] \in [Listed(r) -> SUBSET AllFiles]
      /\ \A m \in Listed(r) : /\ group[r][m] \subseteq FilesOf(m) \cap StoredFiles
                              /\ since[r] \cap FilesOf(m) \subseteq group[r][m]
  BY <1>2 DEF IInv, PageTypes, PageInv
<1>6. \A k \in DOMAIN ids[r] : ids[r][k] \in Listed(r)
  BY DEF Listed
<1>7. ASSUME NEW k \in DOMAIN ids[r] PROVE RowRight(r, Row(ids[r][k], group[r][ids[r][k]], FALSE))
  <2>1. ids[r][k] \in Posts /\ ids[r][k] \in Listed(r)
    BY <1>4, <1>6
  <2> QED BY <2>1, <1>5 DEF RowRight, Row, Rows, Shows
<1>8. mensajes \in [1..Len(ids[r]) -> Rows] /\ \A k \in DOMAIN mensajes : RowRight(r, mensajes[k])
  BY <1>4, <1>7 DEF RowRight
<1> HIDE DEF mensajes
<1>9. mensajes \in Seq(Rows)
  BY <1>4, <1>8, SeqDef
<1> QED BY <1>2, <1>8, <1>9, StepAnswer

-----------------------------------------------------------------------------
(* Every step of a post or of a page, and stuttering.                      *)
LEMMA StepIInv == IInv /\ [Next]_vars => IInv'
<1> SUFFICES ASSUME IInv, [Next]_vars PROVE IInv'
  OBVIOUS
<1>1. ASSUME NEW p \in Posts, PostStep(p) PROVE IInv'
  BY <1>1, StepSend, StepUpload, StepStop DEF PostStep
<1>2. ASSUME NEW r \in Gets, Ask(r) \/ PageStep(r) \/ Lost(r) PROVE IInv'
  <2>1. CASE Ask(r)
    BY <2>1, StepAsk
  <2>2. CASE LinksFail(r) \/ Arrive(r) \/ Lost(r)
    BY <2>2, StepEnd DEF LinksFail, Arrive, Lost
  <2>3. CASE ListMessages(r) \/ ListMessagesFails(r)
    BY <2>3, StepListMessages
  <2>4. CASE ListFiles(r) \/ ListFilesFails(r) \/ Links(r)
    BY <2>4, StepListFiles, StepListFilesFails, StepLinks
  <2> QED BY <1>2, <2>1, <2>2, <2>3, <2>4 DEF PageStep
<1>3. CASE UNCHANGED vars
  <2>1. PostTypes' /\ IdInv'
    BY <1>3 DEF vars, IInv, PostInv, PostTypes, IdInv, IdInvOf, InThread
  <2>2. TriedInv' /\ FileInv'
    BY <1>3 DEF vars, IInv, PostInv, TriedInv, FileInv, InThread, StoredFiles
  <2>3. PageTypes' /\ PageInv'
    BY <1>3, PagesKept DEF vars, pageVars, IInv
  <2> QED BY <2>1, <2>2, <2>3 DEF IInv, PostInv
<1> QED BY <1>1, <1>2, <1>3 DEF Next

(* The invariant holds in every reachable state.                           *)
THEOREM Invariance == Spec => []IInv
BY InitIInv, StepIInv, PTL DEF Spec

(* Every variable keeps its type, and no upload is of a file a post lacks. *)
THEOREM TypeCorrect == Spec => []TypeOK
<1>1. IInv => TypeOK
  BY DEF IInv, PostInv, PostTypes, PageTypes, PageInv, FileInv, TypeOK
<1> QED BY <1>1, Invariance, PTL

(* No file is stored for a message that was not.                           *)
THEOREM FilesHaveMessages == Spec => []NoOrphans
<1>1. IInv => NoOrphans
  BY DEF IInv, PostInv, FileInv, InThread, NoOrphans
<1> QED BY <1>1, Invariance, PTL

(* A window shows files under the message they came with, however many     *)
(* polls overlap.                                                          *)
THEOREM WindowJoinsRightly == Spec => []FilesWithTheirMessage
<1>1. IInv => FilesWithTheirMessage
  BY DEF IInv, PageInv, Shows, FilesWithTheirMessage
<1> QED BY <1>1, Invariance, PTL

(* A page without an error has every file that was known when it was asked *)
(* for, under the messages it lists.                                       *)
THEOREM PagesForgetNothing == Spec => []PageCarriesFiles
<1>1. IInv => PageCarriesFiles
  BY DEF IInv, PageInv, PageCarriesFiles
<1> QED BY <1>1, Invariance, PTL

(* A post that has an id and was not stopped tries all its files, whatever *)
(* fails.                                                                  *)
THEOREM EveryFileTried == Spec => []AllTried
<1>1. IInv => AllTried
  <2> SUFFICES ASSUME IInv, NEW p \in Posts, pc[p] = "done", id[p] # None, NEW i \in 1..Attached[p]
               PROVE  <<p, i>> \in tried
    BY DEF AllTried, FilesOf
  <2>1. next[p] > Attached[p] /\ next[p] \in Nat /\ Attached[p] \in Nat
    BY FilesAssumption DEF FilesAssumption, IInv, PostInv, PostTypes, IdInv, IdInvOf
  <2>2. i < next[p]
    BY <2>1
  <2> QED BY <2>2 DEF IInv, PostInv, TriedInv
<1> QED BY <1>1, Invariance, PTL
=============================================================================
