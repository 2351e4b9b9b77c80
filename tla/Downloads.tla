----------------------------- MODULE Downloads -----------------------------
(***************************************************************************)
(* The children whose file is on a server: an intermediate object stands   *)
(* for each one while its data are downloaded (IUrlIntermediateObject),    *)
(* and is replaced when a message tells it that they have come.  The reply *)
(* of the network comes between two ticks (QFileDownloader); the message   *)
(* it posts is addressed by name, and waits on the message stack while     *)
(* other messages cancel, change or delete the object.  The children are   *)
(* those of SyncGraph; redirections, the cache and the events of the       *)
(* downloads are left out.                                                 *)
(***************************************************************************)
EXTENDS SyncGraph, Sequences

CONSTANTS
  Url,        \* addresses that intermediate objects may be allocated at
  Path,       \* urls of files
  NoPath,     \* the file of an object that has no url
  Asked,      \* bound: the types that are asked for the data
  MaxPosted   \* bound: messages of the downloads on the stack

ASSUME UrlAssumption == Url \subseteq Obj
ASSUME PathAssumption == NoPath \notin Path /\ MaxPosted \in Nat

VARIABLES
  fFile,        \* the path of each object
  fData,        \* where the data of an object come from
  downloader,   \* fDownloaderThread: the path it was given, its progress, and fType
  posted,       \* the messages of the downloads that wait on the message stack
  crashed       \* a null downloader was read

downloads    == <<fFile, fData, downloader, posted, crashed>>
downloadTree == <<children, graph, work, phase, sorting>>

Paths(x)     == IF x \in Url THEN Path ELSE {NoPath}
NoDownloader == [state |-> "none", url |-> NoPath, type |-> "none"]

\* What set is asked to make of the data, unchecked: an object that has a file, one that has
\* none, another intermediate object, or nothing that IObjectFactory knows.
Types == {"file", "graphic", "url", "unknown"}
ASSUME AskedAssumption == Asked \subseteq Types

\* The data have come, a success has not told it yet ("data") or has ("told", a history).
\* fType is set with the downloader, and only read with it.
States      == {"none", "waiting", "data", "told", "nothing", "failed"}
Downloaders == [state : States, url : Path \union {NoPath}, type : Types \union {"none"}]
HasData(x)  == downloader[x].state \in {"data", "told"}

\* A new downloader, for objects that need one.
Downloader(p, type) ==
  IF p = NoPath THEN NoDownloader ELSE [state |-> "waiting", url |-> p, type |-> type]

DownloadsTypeOK ==
  /\ fFile \in [Obj -> Path \union {NoPath}]
  /\ fData \in [Obj -> Path \union {NoPath}]
  /\ downloader \in [Obj -> Downloaders]
  /\ posted \in Seq([to : Name, msg : {"success", "error"}]) /\ Len(posted) <= MaxPosted
  /\ crashed \in BOOLEAN

DownloadsInit ==
  /\ fFile = [x \in Obj |-> NoPath]
  /\ fData = [x \in Obj |-> NoPath]
  /\ downloader = [x \in Obj |-> NoDownloader]
  /\ posted = <<>>
  /\ crashed = FALSE

-----------------------------------------------------------------------------
(* Messages to an intermediate object.                                     *)

Downloading(x) == Handling /\ x \in Live \intersect Url

Mut_setUrl(x, p, type) ==
  /\ Downloading(x)
  /\ fFile' = [fFile EXCEPT ![x] = p]
  /\ downloader' = [downloader EXCEPT ![x] = IF @.state = "none" THEN Downloader(p, type) ELSE @]
  /\ UNCHANGED <<fData, posted, crashed>>
  /\ subModified' = TRUE
  /\ UNCHANGED downloadTree

\* set url type path: the download that was started, if any, is abandoned.
setUrl(x, p, type) ==
  /\ Downloading(x)
  /\ fFile' = [fFile EXCEPT ![x] = p]
  /\ downloader' = [downloader EXCEPT ![x] = Downloader(p, type)]
  /\ UNCHANGED <<fData, posted, crashed>>
  /\ subModified' = TRUE
  /\ UNCHANGED downloadTree

\* The cancel message, or a set with another type that fails, which changes nothing else.
updateFileCanceled(x) ==
  /\ Downloading(x)
  /\ downloader' = [downloader EXCEPT ![x] = NoDownloader]
  /\ UNCHANGED <<fFile, fData, posted, crashed>>
  /\ subModified' \in {subModified, TRUE}
  /\ UNCHANGED downloadTree

-----------------------------------------------------------------------------
(* The network.                                                            *)

Mut_fileDownloaded(x, outcome) ==
  /\ Handling /\ ~subModified
  /\ ~Free(x)
  /\ downloader[x].state = "waiting"
  /\ Len(posted) < MaxPosted
  /\ downloader' = [downloader EXCEPT ![x].state = outcome]
  /\ posted' = IF \E i \in DOMAIN posted : posted[i].to = NameOf[x] THEN posted
               ELSE Append(posted, [to |-> NameOf[x],
                                    msg |-> IF outcome = "failed" THEN "error" ELSE "success"])
  /\ UNCHANGED <<fFile, fData, crashed, downloadTree, subModified>>

\* The reply comes: data, no data, or an error that the cache could not help.  The
\* object may be a deleted one that something still refers to.  Between two ticks the
\* messages have been processed and nothing waits for a cleanup.
fileDownloaded(x, outcome) ==
  /\ Handling /\ ~subModified
  /\ ~Free(x)
  /\ downloader[x].state = "waiting"
  /\ Len(posted) < MaxPosted
  /\ downloader' = [downloader EXCEPT ![x].state = outcome]
  /\ posted' = Append(posted, [to |-> NameOf[x],
                               msg |-> IF outcome = "failed" THEN "error" ELSE "success"])
  /\ UNCHANGED <<fFile, fData, crashed, downloadTree, subModified>>

-----------------------------------------------------------------------------
(* The messages of the downloads.                                          *)

Targets(n) == Matched({n}) \intersect Url

\* The next message, and the intermediate objects it reaches: other children have no
\* handler for it.  Bound: one intermediate object of a name at most is not deleted.
OneUrl == \A x, y \in Live \intersect Url : NameOf[x] = NameOf[y] => x = y
Delivered(targets) == Handling /\ posted # <<>> /\ Targets(Head(posted).to) = targets
Success(x) == Delivered({x}) /\ Head(posted).msg = "success"

\* A message that reaches no intermediate object is refused; error, and a success that
\* finds no data, send an event and leave the object as it is.
Told ==
  \E x \in Url :
    /\ Delivered({x})
    /\ Head(posted).msg = "success" => downloader[x].state # "none" /\ ~HasData(x)
    /\ subModified' = TRUE

Refused ==
  /\ Delivered({})
  /\ UNCHANGED subModified

NothingNew ==
  /\ Told \/ Refused
  /\ posted' = Tail(posted)
  /\ UNCHANGED <<fFile, fData, downloader, crashed, downloadTree>>

\* A success that was posted before a cancel: updateFileSucceded reads the size of the
\* data of a null downloader.
NullDownloader ==
  /\ \E x \in Url : Success(x) /\ downloader[x].state = "none"
  /\ crashed' = TRUE
  /\ UNCHANGED <<fFile, fData, downloader, posted, downloadTree, subModified>>

\* A success with data for a type that IObjectFactory does not know: the intermediate object
\* stays, with its data.
UnknownType ==
  /\ \E x \in Url :
       /\ Success(x) /\ HasData(x) /\ downloader[x].type = "unknown"
       /\ downloader' = [downloader EXCEPT ![x].state = "told"]
  /\ posted' = Tail(posted)
  /\ subModified' = TRUE
  /\ UNCHANGED <<fFile, fData, crashed, downloadTree>>

\* The part of updateFileSucceded that concerns the data: y is the real object, which takes
\* them when it is a TFile.  When x is locked it stays beside y, and a later success makes
\* another object.
updateFileSucceded(x, y) ==
  LET type == downloader[x].type
  IN /\ Success(x) /\ HasData(x) /\ type # "unknown"
     /\ y \in Url <=> type = "url"
     /\ fFile' = [fFile EXCEPT ![y] = IF type = "graphic" THEN NoPath ELSE fFile[x]]
     /\ fData' = [fData EXCEPT ![y] = IF type = "graphic" THEN NoPath ELSE downloader[x].url]
     /\ downloader' = [downloader EXCEPT ![x].state = "told", ![y] = NoDownloader]
     /\ posted' = Tail(posted)
     /\ UNCHANGED crashed

-----------------------------------------------------------------------------
(* The parts of the operations of the container that concern the downloads. *)

\* set on a new object: the one of a url starts its download.
NewDownload(x) ==
  /\ \E p \in Paths(x), type \in Asked :
       /\ fFile' = [fFile EXCEPT ![x] = p]
       /\ downloader' = [downloader EXCEPT ![x] = Downloader(p, type)]
  /\ fData' = [fData EXCEPT ![x] = NoPath]
  /\ UNCHANGED <<posted, crashed>>

\* set with another type: the intermediate object x abandons its download.
ChangedType(x, y) ==
  /\ ~(x \in Url /\ y \in Url)
  /\ \E p \in Paths(y), type \in Asked :
       /\ fFile' = [fFile EXCEPT ![y] = p]
       /\ downloader' = [downloader EXCEPT ![x] = NoDownloader, ![y] = Downloader(p, type)]
  /\ fData' = [fData EXCEPT ![y] = NoPath]
  /\ UNCHANGED <<posted, crashed>>

\* The objects that are freed delete their downloader.
DropDownloads(gone) ==
  /\ downloader' = [x \in Obj |-> IF x \in gone THEN NoDownloader ELSE downloader[x]]
  /\ fFile' = [x \in Obj |-> IF x \in gone THEN NoPath ELSE fFile[x]]
  /\ fData' = [x \in Obj |-> IF x \in gone THEN NoPath ELSE fData[x]]
  /\ UNCHANGED <<posted, crashed>>

-----------------------------------------------------------------------------
(* Properties.                                                             *)

\* An object gets the data of its own path, whatever replies, cancels and changes of
\* the path came while it waited (IUrlIntermediateObject::updateFileSucceded).
DataOfFile == \A x \in Live \ Url : fData[x] \in {fFile[x], NoPath}

\* An intermediate object whose data have come is told of it: a message of that name
\* is on its way, be it one that was posted for an earlier download or a deleted object.
\* One that was told does not stay, but when it may be locked or when nothing is made of its
\* type (IUrlIntermediateObject::updateFileSucceded).
ReadyPosted ==
  \A x \in Live :
    /\ downloader[x].state = "data" =>
         \E i \in DOMAIN posted : posted[i] = [to |-> NameOf[x], msg |-> "success"]
    /\ downloader[x].state = "told" => x \in Lockable \/ downloader[x].type = "unknown"
=============================================================================
