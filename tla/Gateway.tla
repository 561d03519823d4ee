------------------------------- MODULE Gateway -------------------------------
(***************************************************************************)
(* A request for content, from the route to what is sent: getBag, getPath  *)
(* and serveFile (pkg/httpServer), the choice between a file and a listing *)
(* in the local and the remote branch of services/files, the links of a    *)
(* listing and the content types (pkg/templates).  How a branch is come to *)
(* is module FilesService, how a stream is sent module RemoteStream.       *)
(*                                                                         *)
(* Local files are read from a directory the storage daemon writes to.     *)
(* There a file may be absent, unreadable (denied), or of any size; small, *)
(* page and huge are below MaxHTMLFileSize, below and above                *)
(* MaxFileServeSize.                                                       *)
(***************************************************************************)
EXTENDS BagPaths

CONSTANTS
  Bags,       \* the bags considered: sets of files
  Queries,    \* requests: a path, with QueryUnescape done, the query's direct=1,
              \* Sec-Fetch-Dest and whether Accept has text/html
  Unescaped,  \* a name after html/template, a browser and QueryUnescape
  EndsIn,     \* EndsIn[n]: the names that n ends in
  FormatsOf,  \* FormatsOf[n]: the known extensions that n's extension ends in
  FormatLists, HtmlFormats, \* imageFormats, videoFormats, audioFormats, textFormats
  Dir,        \* the folder a bag is in, from the root of the disk
  TooLong     \* paths from the root, by their names, above MaxPathLength

ASSUME GatewayAssumption ==
  /\ Unescaped \in [Names -> Names]
  /\ \A n \in Names : n \in EndsIn[n] /\ FormatsOf[n] \subseteq UNION Range(FormatLists)
  /\ Len(FormatLists) = 4 /\ HtmlFormats \subseteq FormatLists[4]
  /\ Dir \in Seq(Names \ Unfit) /\ Len(Dir) > 1 /\ TooLong \subseteq Seq(Names)

Sizes == {"small", "page", "huge"}

(* A bag is what a directory holds: a file has one size, and is no folder. *)
ASSUME BagsAssumption ==
  /\ \A b \in Bags :
       /\ IsFiniteSet(b) /\ b \subseteq [path : Seq(Names) \ {<<>>}, size : Sizes]
       /\ \A f, g \in b : IsPrefix(f.path, g.path) => f = g
  /\ Queries \subseteq [path : Seq(Segments) \ {<<>>}, direct : BOOLEAN,
                        dest : {"none", "document", "other"}, html : BOOLEAN]
OnDisk == {"absent", "denied"} \cup Sizes

VARIABLES
  bag,     \* the files of the bag asked for
  disk,    \* what the daemon has on disk at the path looked at
  seen,    \* what it has had there since serveFile began
  pc,      \* the step the request is at
  query,   \* the request: its path and what says where it comes from
  path,    \* the path after sanitizePath
  found,   \* what GetPathInfo returned
  ct,      \* the content type chosen: its class, and whether to download
  stat,    \* the size last looked at
  answer,
  link     \* the listed entry this request's link was for, or NoLink

request == <<query, path, found, ct, stat, link>>
vars == <<bag, disk, seen, pc, answer, request>>

NoQuery == [path |-> <<"">>, direct |-> TRUE, dest |-> "none", html |-> FALSE]
NoLink == [at |-> <<>>, name |-> "none"]
Nothing == [kind |-> "none", entries |-> {}]
Unset == [class |-> "none", download |-> FALSE]
NoAnswer == [code |-> 0, body |-> "none", class |-> "none", size |-> "none"]
Steps == {"idle", "ask", "serve", "lstat", "read", "stat", "open", "down"}

TypeOK ==
  /\ bag \in Bags /\ disk \in seen /\ seen \subseteq OnDisk /\ pc \in Steps
  /\ path.names \in Seq(Names \cup {"refused"})
  /\ found.kind \in {"none", "local", "stream", "listing"}
  /\ ct.class \in {"none", "image", "video", "audio", "text", "html", "other"}
  /\ stat \in Sizes \cup {"none", "dir"}
  /\ answer.code \in {0, 200, 400, 404, 406, 408, 413, 500}
  /\ answer.body \in {"none", "shell", "listing", "file", "wrapped"}

Init ==
  /\ bag \in Bags /\ disk = "absent" /\ seen = {disk}
  /\ pc = "idle" /\ answer = NoAnswer /\ query = NoQuery /\ path = Root
  /\ found = Nothing /\ ct = Unset /\ stat = "none" /\ link = NoLink

Reply(code, body, class, size) ==
  /\ pc' = "idle"
  /\ answer' = [code |-> code, body |-> body, class |-> class, size |-> size]
Fail(code) == Reply(code, "none", "none", "none")

-----------------------------------------------------------------------------
(* shouldServeLoadingShell *)
LoadingShell(q) == ~q.direct /\ (q.dest = "document" \/ (q.dest = "none" /\ q.html))

(* getBag, getPath and getBagInfoResponse up to GetPathInfo. *)
Receive(q, from) ==
  /\ query' = q /\ path' = Sanitize(q.path) /\ link' = from
  /\ found' = Nothing /\ ct' = Unset /\ stat' = "none"
  /\ IF path' = Refused THEN Fail(400)
     ELSE IF LoadingShell(q) THEN Reply(200, "shell", "html", "none")
     ELSE pc' = "ask" /\ answer' = NoAnswer
  /\ UNCHANGED <<bag, disk, seen>>

Get(q) == pc = "idle" /\ answer = NoAnswer /\ Receive(q, NoLink)

(* The client is done with the answer, or the container has started the    *)
(* program again.                                                          *)
Over ==
  /\ answer # NoAnswer \/ pc = "down"
  /\ pc \in {"idle", "down"}
  /\ disk' = "absent" /\ seen' = {disk'}
  /\ pc' = "idle" /\ answer' = NoAnswer /\ query' = NoQuery /\ path' = Root
  /\ found' = Nothing /\ ct' = Unset /\ stat' = "none" /\ link' = NoLink
  /\ UNCHANGED bag

(* An escape that cannot be decoded, a bag id that is none. *)
GetMalformed ==
  /\ pc = "idle" /\ answer = NoAnswer /\ Fail(400)
  /\ UNCHANGED <<bag, disk, seen, request>>

(* The loading page asks again, with direct=1. *)
Reload ==
  /\ pc = "idle" /\ answer.body = "shell"
  /\ Receive([query EXCEPT !.direct = TRUE], link)

(* A client follows a listing's link, built from the path and the name by  *)
(* filepath.Join.  Faulty variant: from the name alone.                    *)
Request(names) == [NoQuery EXCEPT !.path = [i \in DOMAIN names |-> Unescaped[names[i]]]]
FollowName(e) ==
  /\ pc = "idle" /\ answer.body = "listing" /\ e \in found.entries
  /\ Receive(Request(<<e.name>>), [at |-> path.names, name |-> e.name])
Follow(e) ==
  /\ pc = "idle" /\ answer.body = "listing" /\ e \in found.entries
  /\ Receive(Request(Append(path.names, e.name)), [at |-> path.names, name |-> e.name])

-----------------------------------------------------------------------------
(* getFromLocalStorage: one of the entries is a file of the path's last    *)
(* name.  Faulty variant: any file will do.                                *)
MatchesAny(entries) == \E e \in entries : ~e.folder
Matches(entries) ==
  path.names # <<>> /\ \E e \in entries : ~e.folder /\ e.name = Last(path.names)
Listing(entries) == [kind |-> "listing", entries |-> entries]

Info(kind, entries) ==
  /\ found' = [kind |-> kind, entries |-> entries]
  /\ pc' = "serve" /\ UNCHANGED answer

AskLocal ==
  /\ pc = "ask"
  /\ LET entries == Ls(bag, path.names) IN
     IF Matches(entries) /\ IsSingleFile(entries) THEN Info("local", entries)
     ELSE IF entries # {} THEN Info("listing", entries)
     ELSE Fail(404) /\ UNCHANGED found
  /\ UNCHANGED <<bag, disk, seen, query, path, ct, stat, link>>

(* getFromRemoteStorage: the path ends in the name of one of the files.    *)
(* StreamFile then has to know the very path.                              *)
Ends(entries) ==
  path.names # <<>> /\ \E e \in entries : ~e.folder /\ e.name \in EndsIn[Last(path.names)]
Known == ~path.rooted /\ IsFile(bag, path.names)

AskRemote ==
  /\ pc = "ask"
  /\ LET entries == Ls(bag, path.names) IN
     IF Ends(entries) /\ IsSingleFile(entries)
     THEN IF \E e \in entries : e.size = "huge" THEN Fail(413) /\ UNCHANGED found
          ELSE IF Known THEN Info("stream", entries)
          ELSE Fail(500) /\ UNCHANGED found
     ELSE IF entries # {} THEN Info("listing", entries)
     ELSE Fail(404) /\ UNCHANGED found
  /\ UNCHANGED <<bag, disk, seen, query, path, ct, stat, link>>

(* The bag is banned, or neither branch has it. *)
AskFails(code) ==
  /\ pc = "ask" /\ Fail(code)
  /\ UNCHANGED <<bag, disk, seen, request>>

-----------------------------------------------------------------------------
(* ContentType: by the first list with an extension that n's ends in. *)
ListsOf(n) == {k \in 1..4 : FormatsOf[n] \cap FormatLists[k] # {}}
ContentType(n) ==
  IF ListsOf(n) = {} THEN [class |-> "other", download |-> TRUE]
  ELSE IF Min(ListsOf(n)) = 4 /\ FormatsOf[n] \cap HtmlFormats # {}
       THEN [class |-> "html", download |-> FALSE]
  ELSE [class |-> <<"image", "video", "audio", "text">>[Min(ListsOf(n))], download |-> FALSE]

(* SingleFilePath, after the second sanitizePath: the path joined to the   *)
(* bag's folder loses the blanks it ends in, or is refused.  Place is what *)
(* that is below the folder.                                               *)
Opened == Sanitize(<<"">> \o Dir \o path.names)
Opens == Opened # Refused /\ Opened.names \notin TooLong
Place == SubSeq(Opened.names, Len(Dir) + 1, Len(Opened.names))

(* What a look at it meets: a file, a folder, or nothing the bag has. *)
Met ==
  IF IsFile(bag, Place) \/ disk \in {"absent", "denied"} THEN disk
  ELSE IF IsFolder(bag, Place) THEN "dir" ELSE "absent"

(* A listing is rendered. *)
SendListing ==
  /\ pc = "serve" /\ found.kind = "listing"
  /\ Reply(200, "listing", "html", "none")
  /\ UNCHANGED <<bag, disk, seen, request>>

(* serveFile begins.  A stream is sent, or wrapped whatever its size; of a *)
(* local file anything may be on disk.                                     *)
ServeStream ==
  /\ pc = "serve" /\ found.kind = "stream"
  /\ ct' = ContentType(Last(path.names))
  /\ \E e \in found.entries :
       Reply(200, IF ct'.class = "html" THEN "wrapped" ELSE "file", ct'.class, e.size)
  /\ UNCHANGED <<bag, disk, seen, query, path, found, stat, link>>

ServeLocal ==
  /\ pc = "serve" /\ found.kind = "local"
  /\ IF Opens
     THEN /\ ct' = ContentType(Last(Opened.names))
          /\ pc' = IF ct'.class = "html" THEN "lstat" ELSE "stat"
          /\ disk' \in OnDisk /\ seen' = {disk'}
          /\ UNCHANGED answer
     ELSE Fail(400) /\ UNCHANGED <<ct, disk, seen>>
  /\ UNCHANGED <<bag, query, path, found, stat, link>>

(* os.Lstat: a large page becomes a download.  Faulty variants: it is no   *)
(* longer wrapped, but keeps its type; only one too large to be sent is    *)
(* large.                                                                  *)
Download == [class |-> "other", download |-> TRUE]
LstatKeepsType ==
  /\ pc = "lstat"
  /\ IF Met \in {"absent", "denied"} THEN Fail(404)
     ELSE pc' = (IF Met \in {"page", "huge"} THEN "stat" ELSE "read") /\ UNCHANGED answer
  /\ UNCHANGED <<bag, disk, seen, request>>
LstatHuge ==
  /\ pc = "lstat"
  /\ IF Met \in {"absent", "denied"} THEN Fail(404) /\ UNCHANGED ct
     ELSE IF Met = "huge" THEN ct' = Download /\ pc' = "stat" /\ UNCHANGED answer
     ELSE pc' = "read" /\ UNCHANGED <<answer, ct>>
  /\ UNCHANGED <<bag, disk, seen, query, path, found, stat, link>>
Lstat ==
  /\ pc = "lstat"
  /\ IF Met \in {"absent", "denied"} THEN Fail(404) /\ UNCHANGED ct
     ELSE IF Met \in {"page", "huge"} THEN ct' = Download /\ pc' = "stat" /\ UNCHANGED answer
     ELSE pc' = "read" /\ UNCHANGED <<answer, ct>>
  /\ UNCHANGED <<bag, disk, seen, query, path, found, stat, link>>

(* serveHTMLFile: os.ReadFile. *)
ReadFile ==
  /\ pc = "read"
  /\ IF Met \in Sizes THEN Reply(200, "wrapped", "html", Met) ELSE Fail(500)
  /\ UNCHANGED <<bag, disk, seen, request>>

(* os.Stat: a file that is gone is told from one that cannot be looked at, *)
(* where the size is then read from no FileInfo and the process ends.      *)
Stat ==
  /\ pc = "stat"
  /\ IF Met = "absent" THEN Fail(404) /\ UNCHANGED stat
     ELSE IF Met = "denied" THEN pc' = "down" /\ UNCHANGED <<answer, stat>>
     ELSE IF Met = "huge" THEN Fail(413) /\ UNCHANGED stat
     ELSE pc' = "open" /\ stat' = Met /\ UNCHANGED answer
  /\ UNCHANGED <<bag, disk, seen, query, path, found, ct, link>>

(* os.Open, and the stream of what is there now. *)
Open ==
  /\ pc = "open"
  /\ IF Met \in {"absent", "denied"} THEN Fail(500) ELSE Reply(200, "file", ct.class, Met)
  /\ UNCHANGED <<bag, disk, seen, request>>

(* The daemon writes, completes or removes the file meanwhile. *)
DiskChanges ==
  /\ pc \in {"lstat", "read", "stat", "open"}
  /\ disk' \in OnDisk \ {disk} /\ seen' = seen \cup {disk'}
  /\ UNCHANGED <<bag, pc, answer, request>>

Next ==
  \/ \E q \in Queries : Get(q)
  \/ GetMalformed \/ Reload
  \/ \E e \in found.entries : Follow(e)
  \/ AskLocal \/ AskRemote
  \/ \E code \in {404, 406, 408, 500} : AskFails(code)
  \/ SendListing \/ ServeStream \/ ServeLocal
  \/ Lstat \/ ReadFile \/ Stat \/ Open
  \/ DiskChanges \/ Over

Spec == Init /\ [][Next]_vars

-----------------------------------------------------------------------------
(* A path is refused exactly when it climbs above the bag at some point or *)
(* names something unfit; else it is the names that nothing after them     *)
(* takes back, in their order (sanitizePath).                              *)
PathStaysInside ==
  LET p == TrimSpace(query.path) IN
  IF Climbs(p) \/ \E i \in Kept(p) : p[i] \in Unfit THEN path = Refused
  ELSE /\ path # Refused
       /\ \E kept \in [DOMAIN path.names -> Kept(p)] :
            /\ Range(kept) = Kept(p)
            /\ \A k \in DOMAIN kept :
                 path.names[k] = p[kept[k]] /\ \A j \in 1..k - 1 : kept[j] < kept[k]

(* Local and remote, a file is answered with a file and a folder with what *)
(* is in it, but for this.  Local: a folder whose one file has its name is *)
(* taken for that file.  Remote: a folder whose name ends in that of its   *)
(* one file fails, and so does a file asked for with a slash in front (ls, *)
(* isSingleFile and the branches of GetPathInfo).                          *)
OneFile(q, n) == Children(bag, q) = {[name |-> n, folder |-> FALSE]}
OwnName(q) == q # <<>> /\ OneFile(q, Last(q))
EndsInOneFile(q) == q # <<>> /\ \E n \in EndsIn[Last(q)] : OneFile(q, n)
FoundIsThere ==
  LET q == path.names IN
  /\ AskLocal => found'.kind =
       IF IsFile(bag, q) \/ OwnName(q) THEN "local"
       ELSE IF IsFolder(bag, q) THEN "listing" ELSE "none"
  /\ AskRemote /\ answer'.code # 413 => found'.kind =
       IF IsFile(bag, q) /\ ~path.rooted THEN "stream"
       ELSE IF IsFolder(bag, q) /\ ~EndsInOneFile(q) THEN "listing" ELSE "none"
  /\ found'.kind = "listing" =>
       {[name |-> e.name, folder |-> e.folder] : e \in found'.entries} = Children(bag, q)
AnswersTheBag == [][FoundIsThere]_vars

(* A link of a listing leads to the entry it stands for, as long as no     *)
(* name on the way is changed by QueryUnescape, none at its ends by        *)
(* TrimSpace and none is unfit (HtmlFilesListWithTemplate, getPath).       *)
Survives(names) ==
  /\ \A i \in DOMAIN names : Unescaped[names[i]] = names[i] /\ names[i] \notin Unfit
  /\ TrimSpace(names) = names
LinksLead ==
  link # NoLink /\ Survives(Append(link.at, link.name)) =>
    /\ path = [rooted |-> FALSE, names |-> Append(link.at, link.name)]
    /\ IsFile(bag, path.names) \/ IsFolder(bag, path.names)

(* No file of a bag goes out as HTML by itself: it is wrapped, or a        *)
(* download (serveFile, serveHTMLFile).                                    *)
PagesAreWrapped == answer.body = "file" => answer.class # "html"

(* A local file that stays as it is while a request looks at it, reads it  *)
(* or opens it is sent as what it is, or refused for what it is; a large   *)
(* page is sent as a download; the process ends over a file only when the  *)
(* file was there and could not be looked at (serveFile).                  *)
Promised(s) ==
  LET page == ContentType(Last(Opened.names)).class = "html" IN
  CASE s = "absent" -> 404
    [] s = "denied" -> IF page THEN 404 ELSE 0
    [] s = "huge"   -> 413
    [] OTHER        -> 200
StillFileIsSent ==
  /\ pc = "idle" /\ found.kind = "local" /\ Opens /\ IsFile(bag, Place) /\ seen = {disk} =>
       /\ answer.code = Promised(disk)
       /\ answer.code = 200 =>
            /\ answer.size = disk
            /\ answer.body = "wrapped" <=>
                 disk = "small" /\ ContentType(Last(Opened.names)).class = "html"
  /\ pc = "idle" /\ found.kind = "local" /\ ~Opens => answer.code = 400
  /\ pc = "down" => "denied" \in seen

(* What is looked at is what was found, without the blanks its name ends   *)
(* in: with none it is the very file, else whatever else has that name     *)
(* (getBagInfoResponse, sanitizePath of SingleFilePath).                   *)
TheFoundIsOpened ==
  LET name == RightTrimmed[Last(path.names)] IN
  found.kind = "local" /\ name \in Names \ Unfit =>
    Opened # Refused /\ Place = Append(Front(path.names), name)

(* All three, while files come, go and change under the request            *)
(* (serveFile): what was found is opened, and sent as it is.               *)
ServedAsItIs == PagesAreWrapped /\ StillFileIsSent /\ TheFoundIsOpened
=============================================================================
