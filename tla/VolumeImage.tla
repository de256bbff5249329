---------------------------- MODULE VolumeImage ----------------------------
(***************************************************************************)
(* Where the format, the capacity and the content of a libvirt_volume come  *)
(* from: the middle of resourceLibvirtVolumeCreate (VolumeResource has the  *)
(* calls around it), volume_image.go and the copier of utils_volume.go.     *)
(*                                                                         *)
(* The create asks its source (a file, a URL or a base volume) several      *)
(* times: for the type, for the size and for the content.  Somebody may     *)
(* replace the source at any moment; each answer is about the version that  *)
(* is there when the question arrives.  A file is replaced by another one   *)
(* of the same name, so what has been opened stays as it is.                *)
(***************************************************************************)
EXTENDS Naturals

CONSTANTS Version,          \* what may be found at the source, one after the other
          Kind, Size,         \* of each version: its type, its length or capacity
          Format,             \* what attribute "format" may say
          GivenSize,          \* what attribute "size" may say
          MaxHTTPRetries,     \* maxHTTPRetries
          None

\* "absent": there is nothing; "short": fewer than the 8 bytes of a header;
\* "old": a qcow2 image of version 2, "qcow2": of version 3.
ASSUME VersionAssumption ==
    /\ Version # {}
    /\ Kind \in [Version -> {"absent", "short", "raw", "old", "qcow2"}]
    /\ Size \in [Version -> Nat]

ASSUME AttributeAssumption ==
    /\ None \notin Format \union {"local", "http", "other"}
    /\ None \notin {"ok", "error", "client", "lost", "server", "key", "volume", "foreign"}
    /\ None \notin GivenSize
    /\ None \notin Version
    /\ "qcow2" \in Format
    /\ GivenSize \subseteq Nat \ {0}

ASSUME RetriesAssumption == MaxHTTPRetries \in Nat \ {0}

Attempt == 0 .. MaxHTTPRetries - 1

VARIABLES pc,           \* where the handler is
          d,            \* the ResourceData: source, base volume, size and format
          format,       \* volumeDef.Target.Format.Type
          capacity,     \* volumeDef.Capacity.Value
          retryCount,
          body,         \* the version in the open file or response
          id,           \* d.Id(): the key of the volume, or None
          volume,       \* libvirt: the volume of this name, or None
          current,      \* what is at the source now
          seen,         \* history: what was at the source since the create began
          answers,      \* history: the server's answer to each attempt of an import
          result

handlerVars == <<pc, d, id, format, capacity, retryCount, body, answers, result>>
vars == <<handlerVars, volume, current, seen>>

\* Attribute "source" is a path or a file URL, an http URL or of another scheme;
\* GetOk takes a size of 0 for none.
ResourceData == [source: {None, "local", "http", "other"}, base: BOOLEAN,
                 size: GivenSize \union {None}, format: Format \union {None}]

\* A volume: whether the create has made it, what it was defined as, which version
\* of the source was written into it, and whether to the end.
Volume == [ours: BOOLEAN, format: Format \union {"raw"}, capacity: Nat,
           content: Version \union {None}, whole: BOOLEAN]

ASSUME NoneAssumption == None \notin Volume

\* A volume of that name that somebody else has made.
Foreign == [ours |-> FALSE, format |-> "raw", capacity |-> 1, content |-> None, whole |-> FALSE]

Init ==
    /\ pc = "prepare"
    /\ d \in ResourceData
    /\ format = "qcow2"     \* newDefVolume
    /\ capacity = 1
    /\ retryCount = 0
    /\ body = None
    /\ id = None
    /\ volume \in {None, Foreign}
    /\ current \in Version
    /\ seen = {current}
    /\ answers = [i \in Attempt |-> None]
    /\ result = None

-----------------------------------------------------------------------------

Present == Kind[current] # "absent"

End(value) == pc' = "done" /\ result' = value

Goto(next) == pc' = next /\ UNCHANGED result

Continue(next) == Goto(next) /\ UNCHANGED <<format, capacity, retryCount, body, answers, volume>>

\* Any call may fail for a reason that is not modelled.
Fail == End("error") /\ UNCHANGED <<format, capacity, retryCount, body, answers, volume>>

\* newDefVolume, the attributes that exclude each other, newImage.
Prepare ==
    /\ pc = "prepare"
    /\ format' = IF d.format # None THEN d.format ELSE format
    /\ capacity' = IF d.source = None /\ d.size # None THEN d.size ELSE capacity
    /\ \/ d.source # None /\ (d.size # None \/ d.base \/ d.source = "other") /\ End("error")
       \/ d.source \in {"local", "http"} /\ d.size = None /\ ~d.base /\ Goto("type")
       \/ d.source = None /\ Goto(IF d.base THEN "base.lookup" ELSE "create")
    /\ UNCHANGED <<retryCount, body, answers, volume>>

\* There are 8 bytes to read; isQCOW2Header knows version 3 only.
HasHeader == Kind[current] \notin {"absent", "short"}
isQCOW2Header(kind) == kind = "qcow2"

\* Bug: an explicit format is believed.
IsQCOW2Believes ==
    /\ pc = "type"
    /\ \/ HasHeader /\ Continue("size")
       \/ Fail

\* "format other than QCOW2 explicitly specified for image detected as QCOW2 image"
TakeFormat(isQCOW2) ==
    /\ format' = IF isQCOW2 THEN "qcow2" ELSE format
    /\ IF isQCOW2 /\ d.format \notin {None, "qcow2"} THEN End("error") ELSE Goto("size")
    /\ UNCHANGED <<capacity, retryCount, body, answers, volume>>

\* image.IsQCOW2: the first 8 bytes of the file, or of the answer 206 to a request
\* for them.
IsQCOW2 ==
    /\ pc = "type"
    /\ (HasHeader /\ TakeFormat(isQCOW2Header(Kind[current]))) \/ Fail

TakeSize ==
    /\ Present
    /\ capacity' = Size[current]
    /\ Goto("create")
    /\ UNCHANGED <<format, retryCount, body, answers, volume>>

\* image.Size: the file's length, or the Content-Length that HEAD answers.
ImageSize ==
    /\ pc = "size"
    /\ \/ TakeSize
       \/ d.source = "http" /\ Continue("size.get")     \* 403 Forbidden
       \/ Fail

\* "possibly only the HEAD method is forbidden, try a Body-less GET instead"
ImageSizeGet == pc = "size.get" /\ (TakeSize \/ Fail)

-----------------------------------------------------------------------------
(* A base volume.  Its description is read twice.                           *)

BaseLookup ==
    /\ pc = "base.lookup"
    /\ (Present /\ Continue("base.format")) \/ Fail

\* newDefBackingStoreFromLibvirt: its path, and the format that base_volume_format or
\* its definition gives, which nothing here depends on.
BackingStore ==
    /\ pc = "base.format"
    /\ (Present /\ Continue("base.size")) \/ Fail

\* Bug: only the default is compared, not a size that is given.
BaseSizeDefault ==
    /\ pc = "base.size"
    /\ \/ /\ Present
          /\ capacity' = IF d.size = None THEN Size[current] ELSE capacity
          /\ Goto("create")
          /\ UNCHANGED <<format, retryCount, body, answers, volume>>
       \/ Fail

\* newDefVolumeFromLibvirt: its capacity is the default, and the minimum.  (The code
\* asks if there is one; libvirt describes no volume without.)
BaseSize ==
    /\ pc = "base.size"
    /\ \/ /\ Present
          /\ capacity' = IF d.size = None THEN Size[current] ELSE capacity
          /\ IF capacity' < Size[current] THEN End("error") ELSE Goto("create")
          /\ UNCHANGED <<format, retryCount, body, answers, volume>>
       \/ Fail

-----------------------------------------------------------------------------
(* The volume.                                                              *)

AfterCreate == CASE d.source = "local" -> "open"
                 [] d.source = "http" -> "request"
                 [] OTHER -> "wait"

\* d.SetId(volume.Key) and go on.
GotoWithId == Goto(AfterCreate) /\ id' = "key"

\* StorageVolCreateXML.
CreateVolume ==
    /\ pc = "create"
    /\ \/ /\ volume = None
          /\ volume' = [ours |-> TRUE, format |-> format, capacity |-> capacity,
                        content |-> None, whole |-> FALSE]
          /\ GotoWithId
          /\ UNCHANGED <<format, capacity, retryCount, body, answers>>
       \/ /\ volume # None                              \* ErrStorageVolExist
          /\ Continue("found")
          /\ UNCHANGED id
       \/ Fail /\ UNCHANGED id

\* Bug: the id of a volume that was found is not set.
FoundForgetsId ==
    /\ pc = "found"
    /\ \/ Goto(AfterCreate) /\ UNCHANGED <<format, capacity, retryCount, body, answers, volume>>
       \/ Fail
    /\ UNCHANGED id

\* "oops, volume exists already, read it and move on"
FoundVolume ==
    /\ pc = "found"
    /\ \/ GotoWithId /\ UNCHANGED <<format, capacity, retryCount, body, answers, volume>>
       \/ Fail /\ UNCHANGED id

-----------------------------------------------------------------------------
(* image.Import.                                                            *)

\* Bug: the copy does not wait for the file to be opened.
OpenFileIgnores ==
    /\ pc = "open"
    /\ Continue("copy")

\* localImage.Import: the file is opened.
OpenFile ==
    /\ pc = "open"
    /\ \/ /\ Present
          /\ body' = current
          /\ Goto("copy")
          /\ UNCHANGED <<format, capacity, retryCount, answers, volume>>
       \/ Fail

\* Bug: the last of the attempts is not made.
RequestTooFew ==
    /\ pc = "request"
    /\ \/ /\ retryCount + 1 < MaxHTTPRetries
          /\ \/ /\ Present
                /\ body' = current
                /\ answers' = [answers EXCEPT ![retryCount] = "ok"]
                /\ Goto("copy")
             \/ /\ answers' = [answers EXCEPT ![retryCount] = "server"]
                /\ Goto("sleep")
                /\ UNCHANGED body
       \/ /\ retryCount + 1 = MaxHTTPRetries
          /\ End("error")
          /\ UNCHANGED <<answers, body>>
    /\ UNCHANGED <<format, capacity, retryCount, volume>>

\* One round of httpImage.Import's loop: 200 OK, a status below 500, a status of
\* 500 or more, or no answer at all.  The definition has no timestamps, so no
\* request has If-Modified-Since and no answer is 304.
Request ==
    /\ pc = "request"
    /\ \/ /\ retryCount < MaxHTTPRetries
          /\ \/ /\ Present
                /\ body' = current
                /\ answers' = [answers EXCEPT ![retryCount] = "ok"]
                /\ Goto("copy")
             \/ /\ \E a \in {"client", "lost"} : answers' = [answers EXCEPT ![retryCount] = a]
                /\ End("error")
                /\ UNCHANGED body
             \/ /\ answers' = [answers EXCEPT ![retryCount] = "server"]
                /\ Goto("sleep")
                /\ UNCHANGED body
       \/ /\ retryCount = MaxHTTPRetries
          /\ End("error")
          /\ UNCHANGED <<answers, body>>
    /\ UNCHANGED <<format, capacity, retryCount, volume>>

\* Bug: the attempts are not counted.
SleepUncounted ==
    /\ pc = "sleep"
    /\ Goto("request")
    /\ UNCHANGED <<format, capacity, retryCount, body, answers, volume>>

Sleep ==
    /\ pc = "sleep"
    /\ retryCount' = retryCount + 1
    /\ Goto("request")
    /\ UNCHANGED <<format, capacity, body, answers, volume>>

Written(version, whole) == volume' = [volume EXCEPT !.content = version, !.whole = whole]

\* Bug: the error of the upload is not returned.
CopyIgnores ==
    /\ pc = "copy"
    /\ Written(body, Size[body] <= capacity) \/ Written(body, FALSE)
    /\ Goto("wait")
    /\ UNCHANGED <<format, capacity, retryCount, body, answers>>

\* newCopier: StorageVolUpload of at most the declared capacity.  A source that is
\* longer, a connection that breaks or a failing daemon end it half way, or before
\* anything was written.
Copy ==
    /\ pc = "copy"
    /\ \/ Size[body] <= capacity /\ Written(body, TRUE) /\ Goto("wait")
       \/ (Written(body, FALSE) \/ UNCHANGED volume) /\ End("error")
    /\ UNCHANGED <<format, capacity, retryCount, body, answers>>

\* waitForStateVolumeExists; the read that follows is in VolumeResource.
Wait ==
    /\ pc = "wait"
    /\ \/ End("ok") /\ UNCHANGED <<format, capacity, retryCount, body, answers, volume>>
       \/ Fail

Step ==
    /\ \/ CreateVolume
       \/ FoundVolume
       \/ /\ \/ Prepare
             \/ IsQCOW2
             \/ ImageSize
             \/ ImageSizeGet
             \/ BaseLookup
             \/ BackingStore
             \/ BaseSize
             \/ OpenFile
             \/ Request
             \/ Sleep
             \/ Copy
             \/ Wait
          /\ UNCHANGED id
    /\ UNCHANGED <<d, current, seen>>

\* Somebody replaces or removes the source while the create runs.
Republish ==
    /\ pc # "done"
    /\ \E v \in Version \ {current} : current' = v /\ seen' = seen \union {v}
    /\ UNCHANGED <<handlerVars, volume>>

Next == Step \/ Republish

Spec == Init /\ [][Next]_vars

\* The handler goes on: requests and uploads end, with an answer or without.
FairSpec == Spec /\ WF_vars(Step)

-----------------------------------------------------------------------------
(* The same create in VolumeResource: of "volume" in the running pool "pool", *)
(* where it makes "key" and finds "base", its base volume.                  *)

Running == ~(pc = "done" /\ result = "error")

call == CASE pc = "create" -> "vol.create"
          [] pc = "found" -> "vol.adopt"
          [] pc \in {"open", "request", "sleep", "copy"} -> "vol.upload"
          [] pc = "wait" -> "vol.wait"
          [] pc = "done" -> IF Running THEN "volread.lookup" ELSE "idle"
          [] OTHER -> "vol.prepare"

author == IF volume = None THEN None ELSE IF volume.ours THEN "volume" ELSE "foreign"

uploaded == IF volume # None /\ volume.content # None THEN "volume" ELSE None

\* The create of configuration c.
Create(c) == INSTANCE VolumeResource WITH
    Pool <- {"pool"}, Uuid <- {"uuid"}, Resource <- {"volume"}, Foreign <- "foreign",
    Key <- {"key", "base"}, KeyPool <- [k \in {"key", "base"} |-> "pool"],
    PoolRes <- {}, CloudinitRes <- {}, IgnitionRes <- {}, PoolName <- [r \in {} |-> "pool"],
    VolumeRes <- {"volume"}, KeyOf <- [r \in {"volume"} |-> "key"], Faults <- TRUE,
    HasSource <- IF c.source # None THEN {"volume"} ELSE {},
    BaseKey <- [r \in {"volume"} |-> IF c.base THEN "base" ELSE None],
    pst <- [p \in {"pool"} |-> "active"],
    puid <- [p \in {"pool"} |-> "uuid"],
    vols <- [k \in {"key", "base"} |->
               IF k = "key" THEN author ELSE IF Present THEN "foreign" ELSE None],
    data <- [k \in {"key", "base"} |-> IF k = "key" THEN uploaded ELSE None],
    lock <- [p \in {"pool"} |-> IF Running THEN "volume" ELSE None],
    pc <- [r \in {"volume"} |-> call],
    op <- [r \in {"volume"} |-> IF Running THEN "create" ELSE "none"],
    handle <- [r \in {"volume"} |-> IF Running THEN "uuid" ELSE None],
    d <- [r \in {"volume"} |-> id],
    state <- [r \in {"volume"} |-> IF Running THEN None ELSE id]

-----------------------------------------------------------------------------
(* Properties.                                                              *)

Label == {"prepare", "type", "size", "size.get", "base.lookup", "base.format", "base.size",
          "create", "found", "open", "request", "sleep", "copy", "wait", "done"}

\* The type of the state; a copy has something to read and a volume to write to.
TypeOK ==
    /\ pc \in Label
    /\ d \in ResourceData
    /\ format \in Format
    /\ capacity \in Nat
    /\ retryCount \in 0 .. MaxHTTPRetries
    /\ body \in Version \union {None}
    /\ id \in {"key", None}
    /\ volume \in Volume \union {None}
    /\ current \in Version
    /\ seen \subseteq Version
    /\ answers \in [Attempt -> {None, "ok", "client", "lost", "server"}]
    /\ result \in {None, "ok", "error"}
    /\ pc = "copy" => body # None
    /\ pc \in {"open", "request", "sleep", "copy", "wait"} => volume # None

Succeeded == result = "ok"

\* "upload source if present": a create with a source succeeds only with one
\* version of the source in the volume, from its first byte to its last, a version
\* that was there during the create.  A volume that the create has made is large
\* enough for it.  Whoever replaces the source, and wherever the upload breaks.
ContentIsWhole ==
    Succeeded /\ d.source # None
    => /\ volume.whole
       /\ volume.content \in seen
       /\ volume.ours => Size[volume.content] <= volume.capacity

\* "`size` will be set to the source image file size", "format other than QCOW2
\* explicitly specified for image detected as QCOW2 image": what the volume is
\* declared as fits the source, or one that was there during the create, and is
\* never other than the format that the configuration gives.
ImageIsDeclared ==
    Succeeded /\ d.source # None /\ volume.ours
    => /\ \E v \in seen : volume.capacity = Size[v]
       /\ volume.format # "qcow2" => \E v \in seen : Kind[v] # "qcow2"
       /\ d.format # None => volume.format = d.format

\* "when 'size' is specified, it shouldn't be smaller than the backing store": a new
\* volume holds its base volume, as it was at some moment of the create; without a
\* size it is just as large.
BackingFits ==
    Succeeded /\ d.base /\ volume.ours
    => \E v \in seen : /\ Size[v] <= volume.capacity
                       /\ d.size = None => Size[v] = volume.capacity

\* "number of download retries on non client errors (eg. 5xx)": an import asks again
\* after the server's own errors only, and these make the create fail only when
\* each one of MaxHTTPRetries attempts got one.
ServerErrorsAreRetried ==
    /\ \A i, j \in Attempt : i < j /\ answers[j] # None => answers[i] = "server"
    /\ /\ result = "error"
       /\ \E i \in Attempt : answers[i] = "server"
       /\ \A i \in Attempt : answers[i] \in {None, "server"}
       => \A i \in Attempt : answers[i] = "server"

\* Every step that the handlers of the pool could notice is one that VolumeResource has:
\* the questions, retries and failures of an image are hidden in its preparation and
\* its upload, and never lose the volume or the id.  Whoever replaces the base volume.
ImplementsCreate ==
    [][\E c \in ResourceData : d = c /\ Create(c)!VolumeStep("volume")]_<<call, author, uploaded, id>>

\* Every create ends, though the server answers 5xx for ever and its content
\* changes all the time.
CreateEnds == <>(pc = "done")
=============================================================================
