------------------------- MODULE VolumeImageProofs -------------------------
(***************************************************************************)
(* Theorems about VolumeImage, for any set of versions, attributes and any  *)
(* number of retries.                                                       *)
(***************************************************************************)
EXTENDS VolumeImage, TLAPS

\* Where the handler goes on from a type, a size, a volume.
Typed == {"size", "size.get", "create", "found", "open", "request", "sleep", "copy", "wait"}
Sized == Typed \ {"size", "size.get"}
Made == Sized \ {"create", "found"}

\* The labels of a source, of a base volume, and the end of the attributes' check.
SourceInv ==
    /\ pc \in {"type", "size", "size.get", "open", "request", "sleep", "copy"}
       => d.source \in {"local", "http"}
    /\ pc \in {"request", "sleep"} => d.source = "http"
    /\ pc = "size.get" => d.source = "http"
    /\ pc \in {"base.lookup", "base.format", "base.size"} => d.source = None /\ d.base
    /\ pc # "prepare" /\ d.source # None => result = "error" \/ (~d.base /\ d.source # "other")
    /\ pc # "done" <=> result = None
    /\ current \in seen

FormatFits(f) ==
    /\ f # "qcow2" => \E v \in seen : Kind[v] # "qcow2"
    /\ d.format # None => f = d.format

\* The definition's format, from the type of the source on.
FormatInv ==
    /\ pc = "prepare" => format = "qcow2"
    /\ pc \notin {"prepare", "done"} => format = (IF d.format = None THEN "qcow2" ELSE d.format)
    /\ pc \in Typed /\ d.source # None => FormatFits(format)

SourceFits(size) == \E v \in seen : size = Size[v]

BaseFits(size) ==
    \E v \in seen : Size[v] <= size /\ (d.size = None => Size[v] = size)

\* The definition's capacity, from the size of the source on.
CapacityInv ==
    pc \in Sized => /\ d.source # None => SourceFits(capacity)
                    /\ d.source = None /\ d.base => BaseFits(capacity)

\* A volume that the create has made is what it was defined as.
VolumeInv ==
    /\ volume # None /\ volume.ours =>
         /\ pc \in Made \union {"done"}
         /\ pc \in Made => volume.format = format /\ volume.capacity = capacity
         /\ d.source # None => FormatFits(volume.format) /\ SourceFits(volume.capacity)
         /\ d.source = None /\ d.base => BaseFits(volume.capacity)
    /\ pc = "found" \/ Succeeded => volume # None

\* What is copied and what has been copied.
CopyInv ==
    /\ pc = "copy" => body \in seen
    /\ (pc = "wait" \/ Succeeded) /\ d.source # None =>
         /\ volume.whole
         /\ volume.content \in seen
         /\ volume.ours => Size[volume.content] <= volume.capacity

\* The attempts so far.
RetryInv ==
    /\ pc \in {"request", "sleep"} \/ answers[0] = None =>
         \A i \in Attempt : answers[i] = (IF i < retryCount \/ (pc = "sleep" /\ i = retryCount)
                                           THEN "server" ELSE None)
    /\ pc = "sleep" => retryCount < MaxHTTPRetries
    /\ pc \notin {"request", "sleep", "copy", "wait", "done"} => answers[0] = None /\ retryCount = 0
    /\ pc \in {"copy", "wait"} => answers[0] = None \/ \E i \in Attempt : answers[i] = "ok"
    /\ ServerErrorsAreRetried

IInv ==
    /\ TypeOK
    /\ SourceInv
    /\ FormatInv
    /\ CapacityInv
    /\ VolumeInv
    /\ CopyInv
    /\ RetryInv

-----------------------------------------------------------------------------

LEMMA VolumeType ==
    ASSUME NEW o \in BOOLEAN, NEW f \in Format \union {"raw"}, NEW c \in Nat,
           NEW v \in Version \union {None}, NEW w \in BOOLEAN
    PROVE  [ours |-> o, format |-> f, capacity |-> c, content |-> v, whole |-> w] \in Volume
  BY Zenon DEF Volume

LEMMA InitInv == Init => IInv
<1> SUFFICES ASSUME Init PROVE IInv
  OBVIOUS
<1> USE VersionAssumption, AttributeAssumption, RetriesAssumption
<1>1. TypeOK
  <2>1. volume \in Volume \union {None}
    <3>1. 1 \in Nat
      OBVIOUS
    <3>2. Foreign \in Volume
      BY <3>1, VolumeType, Zenon DEF Foreign
    <3> QED
      BY <3>2 DEF Init
  <2>2. answers \in [Attempt -> {None, "ok", "client", "lost", "server"}]
    BY DEF Init
  <2> QED
    BY <2>1, <2>2 DEF Init, TypeOK, Label, ResourceData
<1>2. SourceInv /\ FormatInv /\ CapacityInv /\ VolumeInv /\ CopyInv
  BY DEF Init, SourceInv, FormatInv, CapacityInv, VolumeInv, CopyInv, Foreign, Typed, Sized,
         Made, Succeeded
<1>3. RetryInv
  BY DEF Init, RetryInv, ServerErrorsAreRetried, Attempt
<1> QED
  BY <1>1, <1>2, <1>3 DEF IInv

\* Where the create goes from the volume.
LEMMA AfterCreateCases ==
    d \in ResourceData =>
      /\ AfterCreate \in {"open", "request", "wait"}
      /\ AfterCreate = "open" => d.source = "local"
      /\ AfterCreate = "request" => d.source = "http"
      /\ AfterCreate = "wait" => d.source \notin {"local", "http"}
  BY AttributeAssumption DEF AfterCreate, ResourceData

LEMMA PrepareStep == IInv /\ Prepare /\ UNCHANGED <<d, current, seen, id>> => IInv'
<1> SUFFICES ASSUME IInv, Prepare, UNCHANGED <<d, current, seen, id>> PROVE IInv'
  OBVIOUS
<1> USE VersionAssumption, AttributeAssumption, RetriesAssumption DEF End, Goto, Continue, Fail, Succeeded, Typed, Sized, Made, IInv
<1>1. TypeOK'
  BY DEF Prepare, TypeOK, Label, Volume, ResourceData, Attempt, SourceInv
<1>2. SourceInv'
  BY DEF Prepare, SourceInv, TypeOK, ResourceData
<1>3. FormatInv'
  BY DEF Prepare, FormatInv, FormatFits, TypeOK, SourceInv, ResourceData
<1>4. CapacityInv'
  BY DEF Prepare, CapacityInv, SourceFits, BaseFits, TypeOK, SourceInv, ResourceData
<1>5. VolumeInv'
  BY DEF Prepare, VolumeInv, FormatInv, CapacityInv, SourceInv, TypeOK, FormatFits, SourceFits, BaseFits, ResourceData, Volume
<1>6. CopyInv'
  BY DEF Prepare, CopyInv, VolumeInv, SourceInv, TypeOK, Volume, ResourceData
<1>7. RetryInv'
  BY DEF Prepare, RetryInv, ServerErrorsAreRetried, TypeOK, SourceInv, Attempt, ResourceData
<1> QED
  BY <1>1, <1>2, <1>3, <1>4, <1>5, <1>6, <1>7

LEMMA IsQCOW2Step == IInv /\ IsQCOW2 /\ UNCHANGED <<d, current, seen, id>> => IInv'
<1> SUFFICES ASSUME IInv, IsQCOW2, UNCHANGED <<d, current, seen, id>> PROVE IInv'
  OBVIOUS
<1> USE VersionAssumption, AttributeAssumption, RetriesAssumption DEF End, Goto, Continue, Fail, Succeeded, Typed, Sized, Made, IInv
<1>1. TypeOK'
  BY DEF IsQCOW2, TakeFormat, HasHeader, isQCOW2Header, TypeOK, Label, Volume, ResourceData, Attempt, SourceInv
<1>2. SourceInv'
  BY DEF IsQCOW2, TakeFormat, HasHeader, isQCOW2Header, SourceInv, TypeOK, ResourceData
<1>3. FormatInv'
  BY DEF IsQCOW2, TakeFormat, HasHeader, isQCOW2Header, FormatInv, FormatFits, TypeOK, SourceInv, ResourceData
<1>4. CapacityInv'
  BY DEF IsQCOW2, TakeFormat, HasHeader, isQCOW2Header, CapacityInv, SourceFits, BaseFits, TypeOK, SourceInv, ResourceData
<1>5. VolumeInv'
  BY DEF IsQCOW2, TakeFormat, HasHeader, isQCOW2Header, VolumeInv, FormatInv, CapacityInv, SourceInv, TypeOK, FormatFits, SourceFits, BaseFits, ResourceData, Volume
<1>6. CopyInv'
  BY DEF IsQCOW2, TakeFormat, HasHeader, isQCOW2Header, CopyInv, VolumeInv, SourceInv, TypeOK, Volume, ResourceData
<1>7. RetryInv'
  BY DEF IsQCOW2, TakeFormat, HasHeader, isQCOW2Header, RetryInv, ServerErrorsAreRetried, TypeOK, SourceInv, Attempt, ResourceData
<1> QED
  BY <1>1, <1>2, <1>3, <1>4, <1>5, <1>6, <1>7

LEMMA ImageSizeStep == IInv /\ ImageSize /\ UNCHANGED <<d, current, seen, id>> => IInv'
<1> SUFFICES ASSUME IInv, ImageSize, UNCHANGED <<d, current, seen, id>> PROVE IInv'
  OBVIOUS
<1> USE VersionAssumption, AttributeAssumption, RetriesAssumption DEF End, Goto, Continue, Fail, Succeeded, Typed, Sized, Made, IInv
<1>1. TypeOK'
  BY DEF ImageSize, TakeSize, Present, TypeOK, Label, Volume, ResourceData, Attempt, SourceInv
<1>2. SourceInv'
  BY DEF ImageSize, TakeSize, Present, SourceInv, TypeOK, ResourceData
<1>3. FormatInv'
  BY DEF ImageSize, TakeSize, Present, FormatInv, FormatFits, TypeOK, SourceInv, ResourceData
<1>4. CapacityInv'
  BY DEF ImageSize, TakeSize, Present, CapacityInv, SourceFits, BaseFits, TypeOK, SourceInv, ResourceData
<1>5. VolumeInv'
  BY DEF ImageSize, TakeSize, Present, VolumeInv, FormatInv, CapacityInv, SourceInv, TypeOK, FormatFits, SourceFits, BaseFits, ResourceData, Volume
<1>6. CopyInv'
  BY DEF ImageSize, TakeSize, Present, CopyInv, VolumeInv, SourceInv, TypeOK, Volume, ResourceData
<1>7. RetryInv'
  BY DEF ImageSize, TakeSize, Present, RetryInv, ServerErrorsAreRetried, TypeOK, SourceInv, Attempt, ResourceData
<1> QED
  BY <1>1, <1>2, <1>3, <1>4, <1>5, <1>6, <1>7

LEMMA ImageSizeGetStep == IInv /\ ImageSizeGet /\ UNCHANGED <<d, current, seen, id>> => IInv'
<1> SUFFICES ASSUME IInv, ImageSizeGet, UNCHANGED <<d, current, seen, id>> PROVE IInv'
  OBVIOUS
<1> USE VersionAssumption, AttributeAssumption, RetriesAssumption DEF End, Goto, Continue, Fail, Succeeded, Typed, Sized, Made, IInv
<1>1. TypeOK'
  BY DEF ImageSizeGet, TakeSize, Present, TypeOK, Label, Volume, ResourceData, Attempt, SourceInv
<1>2. SourceInv'
  BY DEF ImageSizeGet, TakeSize, Present, SourceInv, TypeOK, ResourceData
<1>3. FormatInv'
  BY DEF ImageSizeGet, TakeSize, Present, FormatInv, FormatFits, TypeOK, SourceInv, ResourceData
<1>4. CapacityInv'
  BY DEF ImageSizeGet, TakeSize, Present, CapacityInv, SourceFits, BaseFits, TypeOK, SourceInv, ResourceData
<1>5. VolumeInv'
  BY DEF ImageSizeGet, TakeSize, Present, VolumeInv, FormatInv, CapacityInv, SourceInv, TypeOK, FormatFits, SourceFits, BaseFits, ResourceData, Volume
<1>6. CopyInv'
  BY DEF ImageSizeGet, TakeSize, Present, CopyInv, VolumeInv, SourceInv, TypeOK, Volume, ResourceData
<1>7. RetryInv'
  BY DEF ImageSizeGet, TakeSize, Present, RetryInv, ServerErrorsAreRetried, TypeOK, SourceInv, Attempt, ResourceData
<1> QED
  BY <1>1, <1>2, <1>3, <1>4, <1>5, <1>6, <1>7

LEMMA BaseLookupStep == IInv /\ BaseLookup /\ UNCHANGED <<d, current, seen, id>> => IInv'
<1> SUFFICES ASSUME IInv, BaseLookup, UNCHANGED <<d, current, seen, id>> PROVE IInv'
  OBVIOUS
<1> USE VersionAssumption, AttributeAssumption, RetriesAssumption DEF End, Goto, Continue, Fail, Succeeded, Typed, Sized, Made, IInv
<1>1. TypeOK'
  BY DEF BaseLookup, Present, TypeOK, Label, Volume, ResourceData, Attempt, SourceInv
<1>2. SourceInv'
  BY DEF BaseLookup, Present, SourceInv, TypeOK, ResourceData
<1>3. FormatInv'
  BY DEF BaseLookup, Present, FormatInv, FormatFits, TypeOK, SourceInv, ResourceData
<1>4. CapacityInv'
  BY DEF BaseLookup, Present, CapacityInv, SourceFits, BaseFits, TypeOK, SourceInv, ResourceData
<1>5. VolumeInv'
  BY DEF BaseLookup, Present, VolumeInv, FormatInv, CapacityInv, SourceInv, TypeOK, FormatFits, SourceFits, BaseFits, ResourceData, Volume
<1>6. CopyInv'
  BY DEF BaseLookup, Present, CopyInv, VolumeInv, SourceInv, TypeOK, Volume, ResourceData
<1>7. RetryInv'
  BY DEF BaseLookup, Present, RetryInv, ServerErrorsAreRetried, TypeOK, SourceInv, Attempt, ResourceData
<1> QED
  BY <1>1, <1>2, <1>3, <1>4, <1>5, <1>6, <1>7

LEMMA BackingStoreStep == IInv /\ BackingStore /\ UNCHANGED <<d, current, seen, id>> => IInv'
<1> SUFFICES ASSUME IInv, BackingStore, UNCHANGED <<d, current, seen, id>> PROVE IInv'
  OBVIOUS
<1> USE VersionAssumption, AttributeAssumption, RetriesAssumption DEF End, Goto, Continue, Fail, Succeeded, Typed, Sized, Made, IInv
<1>1. TypeOK'
  BY DEF BackingStore, Present, TypeOK, Label, Volume, ResourceData, Attempt, SourceInv
<1>2. SourceInv'
  BY DEF BackingStore, Present, SourceInv, TypeOK, ResourceData
<1>3. FormatInv'
  BY DEF BackingStore, Present, FormatInv, FormatFits, TypeOK, SourceInv, ResourceData
<1>4. CapacityInv'
  BY DEF BackingStore, Present, CapacityInv, SourceFits, BaseFits, TypeOK, SourceInv, ResourceData
<1>5. VolumeInv'
  BY DEF BackingStore, Present, VolumeInv, FormatInv, CapacityInv, SourceInv, TypeOK, FormatFits, SourceFits, BaseFits, ResourceData, Volume
<1>6. CopyInv'
  BY DEF BackingStore, Present, CopyInv, VolumeInv, SourceInv, TypeOK, Volume, ResourceData
<1>7. RetryInv'
  BY DEF BackingStore, Present, RetryInv, ServerErrorsAreRetried, TypeOK, SourceInv, Attempt, ResourceData
<1> QED
  BY <1>1, <1>2, <1>3, <1>4, <1>5, <1>6, <1>7

LEMMA BaseSizeStep == IInv /\ BaseSize /\ UNCHANGED <<d, current, seen, id>> => IInv'
<1> SUFFICES ASSUME IInv, BaseSize, UNCHANGED <<d, current, seen, id>> PROVE IInv'
  OBVIOUS
<1> USE VersionAssumption, AttributeAssumption, RetriesAssumption DEF End, Goto, Continue, Fail, Succeeded, Typed, Sized, Made, IInv
<1>1. TypeOK'
  BY DEF BaseSize, Present, TypeOK, Label, Volume, ResourceData, Attempt, SourceInv
<1>2. SourceInv'
  BY DEF BaseSize, Present, SourceInv, TypeOK, ResourceData
<1>3. FormatInv'
  BY DEF BaseSize, Present, FormatInv, FormatFits, TypeOK, SourceInv, ResourceData
<1>4. CapacityInv'
  BY DEF BaseSize, Present, CapacityInv, SourceFits, BaseFits, TypeOK, SourceInv, ResourceData
<1>5. VolumeInv'
  BY DEF BaseSize, Present, VolumeInv, FormatInv, CapacityInv, SourceInv, TypeOK, FormatFits, SourceFits, BaseFits, ResourceData, Volume
<1>6. CopyInv'
  BY DEF BaseSize, Present, CopyInv, VolumeInv, SourceInv, TypeOK, Volume, ResourceData
<1>7. RetryInv'
  BY DEF BaseSize, Present, RetryInv, ServerErrorsAreRetried, TypeOK, SourceInv, Attempt, ResourceData
<1> QED
  BY <1>1, <1>2, <1>3, <1>4, <1>5, <1>6, <1>7

LEMMA CreateVolumeStep == IInv /\ CreateVolume /\ UNCHANGED <<d, current, seen>> => IInv'
<1> SUFFICES ASSUME IInv, CreateVolume, UNCHANGED <<d, current, seen>> PROVE IInv'
  OBVIOUS
<1> USE VersionAssumption, AttributeAssumption, RetriesAssumption DEF End, Goto, GotoWithId, Continue, Fail, Succeeded, Typed, Sized, Made, IInv
<1>1. TypeOK'
  <2>1. [ours |-> TRUE, format |-> format, capacity |-> capacity, content |-> None, whole |-> FALSE]
        \in Volume
    BY VolumeType, Zenon DEF TypeOK
  <2>2. /\ volume' \in Volume \union {None}
        /\ pc' \in {"open", "request", "wait"} => volume' # None
    BY <2>1, NoneAssumption DEF CreateVolume, TypeOK
  <2>3. pc' \in Label \ {"copy", "sleep"}
    BY AfterCreateCases DEF CreateVolume, TypeOK, Label
  <2> QED
    BY <2>2, <2>3 DEF CreateVolume, TypeOK, Label
<1>2. SourceInv'
  BY AfterCreateCases DEF CreateVolume, SourceInv, TypeOK, ResourceData
<1>3. FormatInv'
  BY AfterCreateCases DEF CreateVolume, FormatInv, FormatFits, TypeOK, SourceInv, ResourceData
<1>4. CapacityInv'
  BY AfterCreateCases DEF CreateVolume, CapacityInv, SourceFits, BaseFits, TypeOK, SourceInv, ResourceData
<1>5. VolumeInv'
  BY AfterCreateCases DEF CreateVolume, VolumeInv, FormatInv, CapacityInv, SourceInv, TypeOK, FormatFits, SourceFits, BaseFits, ResourceData, Volume
<1>6. CopyInv'
  BY AfterCreateCases DEF CreateVolume, CopyInv, VolumeInv, SourceInv, TypeOK, Volume, ResourceData
<1>7. RetryInv'
  BY AfterCreateCases DEF CreateVolume, RetryInv, ServerErrorsAreRetried, TypeOK, SourceInv, Attempt, ResourceData
<1> QED
  BY <1>1, <1>2, <1>3, <1>4, <1>5, <1>6, <1>7

LEMMA FoundVolumeStep == IInv /\ FoundVolume /\ UNCHANGED <<d, current, seen>> => IInv'
<1> SUFFICES ASSUME IInv, FoundVolume, UNCHANGED <<d, current, seen>> PROVE IInv'
  OBVIOUS
<1> USE VersionAssumption, AttributeAssumption, RetriesAssumption DEF End, Goto, GotoWithId, Continue, Fail, Succeeded, Typed, Sized, Made, IInv
<1>1. TypeOK'
  <2>1. pc' \in Label /\ pc' # "copy"
    BY AfterCreateCases DEF FoundVolume, TypeOK, Label
  <2> QED
    BY <2>1 DEF FoundVolume, TypeOK, Label, VolumeInv
<1>2. SourceInv'
  BY AfterCreateCases DEF FoundVolume, SourceInv, TypeOK, ResourceData
<1>3. FormatInv'
  BY AfterCreateCases DEF FoundVolume, FormatInv, FormatFits, TypeOK, SourceInv, ResourceData
<1>4. CapacityInv'
  BY AfterCreateCases DEF FoundVolume, CapacityInv, SourceFits, BaseFits, TypeOK, SourceInv, ResourceData
<1>5. VolumeInv'
  BY AfterCreateCases DEF FoundVolume, VolumeInv, FormatInv, CapacityInv, SourceInv, TypeOK, FormatFits, SourceFits, BaseFits, ResourceData, Volume
<1>6. CopyInv'
  BY AfterCreateCases DEF FoundVolume, CopyInv, VolumeInv, SourceInv, TypeOK, Volume, ResourceData
<1>7. RetryInv'
  BY AfterCreateCases DEF FoundVolume, RetryInv, ServerErrorsAreRetried, TypeOK, SourceInv, Attempt, ResourceData
<1> QED
  BY <1>1, <1>2, <1>3, <1>4, <1>5, <1>6, <1>7

LEMMA OpenFileStep == IInv /\ OpenFile /\ UNCHANGED <<d, current, seen, id>> => IInv'
<1> SUFFICES ASSUME IInv, OpenFile, UNCHANGED <<d, current, seen, id>> PROVE IInv'
  OBVIOUS
<1> USE VersionAssumption, AttributeAssumption, RetriesAssumption DEF End, Goto, Continue, Fail, Succeeded, Typed, Sized, Made, IInv
<1>1. TypeOK'
  BY DEF OpenFile, Present, TypeOK, Label, Volume, ResourceData, Attempt, SourceInv
<1>2. SourceInv'
  BY DEF OpenFile, Present, SourceInv, TypeOK, ResourceData
<1>3. FormatInv'
  BY DEF OpenFile, Present, FormatInv, FormatFits, TypeOK, SourceInv, ResourceData
<1>4. CapacityInv'
  BY DEF OpenFile, Present, CapacityInv, SourceFits, BaseFits, TypeOK, SourceInv, ResourceData
<1>5. VolumeInv'
  BY DEF OpenFile, Present, VolumeInv, FormatInv, CapacityInv, SourceInv, TypeOK, FormatFits, SourceFits, BaseFits, ResourceData, Volume
<1>6. CopyInv'
  BY DEF OpenFile, Present, CopyInv, VolumeInv, SourceInv, TypeOK, Volume, ResourceData
<1>7. RetryInv'
  BY DEF OpenFile, Present, RetryInv, ServerErrorsAreRetried, TypeOK, SourceInv, Attempt, ResourceData
<1> QED
  BY <1>1, <1>2, <1>3, <1>4, <1>5, <1>6, <1>7

LEMMA RequestStep == IInv /\ Request /\ UNCHANGED <<d, current, seen, id>> => IInv'
<1> SUFFICES ASSUME IInv, Request, UNCHANGED <<d, current, seen, id>> PROVE IInv'
  OBVIOUS
<1> USE VersionAssumption, AttributeAssumption, RetriesAssumption DEF End, Goto, Continue, Fail, Succeeded, Typed, Sized, Made, IInv
<1>1. TypeOK'
  <2>1. answers' \in [Attempt -> {None, "ok", "client", "lost", "server"}]
    BY DEF Request, TypeOK
  <2>2. body' \in Version \union {None} /\ (pc' = "copy" => body' # None)
    BY DEF Request, TypeOK
  <2> QED
    BY <2>1, <2>2 DEF Request, TypeOK, Label
<1>2. SourceInv'
  BY DEF Request, Present, SourceInv, TypeOK, ResourceData
<1>3. FormatInv'
  BY DEF Request, Present, FormatInv, FormatFits, TypeOK, SourceInv, ResourceData
<1>4. CapacityInv'
  BY DEF Request, Present, CapacityInv, SourceFits, BaseFits, TypeOK, SourceInv, ResourceData
<1>5. VolumeInv'
  BY DEF Request, Present, VolumeInv, FormatInv, CapacityInv, SourceInv, TypeOK, FormatFits, SourceFits, BaseFits, ResourceData, Volume
<1>6. CopyInv'
  BY DEF Request, Present, CopyInv, VolumeInv, SourceInv, TypeOK, Volume, ResourceData
<1>7. RetryInv'
  <2>1. 0 \in Attempt /\ Attempt \subseteq Nat /\ \A i \in Attempt : i < MaxHTTPRetries
    BY DEF Attempt
  <2>2. \A i \in Attempt : answers[i] = IF i < retryCount THEN "server" ELSE None
    BY DEF Request, RetryInv
  <2>3. CASE retryCount = MaxHTTPRetries
    BY <2>1, <2>2, <2>3 DEF Request, RetryInv, ServerErrorsAreRetried, TypeOK
  <2>4. CASE retryCount < MaxHTTPRetries
    <3>1. retryCount \in Attempt
      BY <2>4 DEF Attempt, TypeOK
    <3>2. PICK a \in {"ok", "client", "lost", "server"} :
            /\ answers' = [answers EXCEPT ![retryCount] = a]
            /\ pc' = (IF a = "ok" THEN "copy" ELSE IF a = "server" THEN "sleep" ELSE "done")
            /\ UNCHANGED retryCount
      BY <2>4 DEF Request, TypeOK
    <3>3. /\ answers'[retryCount] = a
          /\ \A i \in Attempt \ {retryCount} : answers'[i] = answers[i]
      BY <3>1, <3>2 DEF TypeOK
    <3>4. \A i, j \in Attempt : i < j /\ answers'[j] # None => answers'[i] = "server"
      <4> SUFFICES ASSUME NEW i \in Attempt, NEW j \in Attempt, i < j, answers'[j] # None
                   PROVE  answers'[i] = "server"
        OBVIOUS
      <4>1. i \in Nat /\ j \in Nat /\ retryCount \in Nat
        BY <2>1, <3>1
      <4>2. j <= retryCount
        BY <2>2, <3>3, <4>1
      <4> QED
        BY <2>2, <3>3, <4>1, <4>2
    <3>5. ServerErrorsAreRetried'
      <4>1. a = "server" => result' = None
        BY <3>2, <2>4 DEF Request, SourceInv
      <4> QED
        BY <3>1, <3>2, <3>3, <3>4, <4>1 DEF ServerErrorsAreRetried
    <3>6. answers'[0] # None
      BY <2>1, <2>2, <3>1, <3>3 DEF TypeOK
    <3>7. a = "server" => \A i \in Attempt : answers'[i] =
             IF i < retryCount \/ i = retryCount THEN "server" ELSE None
      BY <2>2, <3>3
    <3> QED
      BY <2>4, <3>1, <3>2, <3>3, <3>5, <3>6, <3>7 DEF RetryInv
  <2> QED
    BY <2>3, <2>4 DEF TypeOK
<1> QED
  BY <1>1, <1>2, <1>3, <1>4, <1>5, <1>6, <1>7

LEMMA SleepStep == IInv /\ Sleep /\ UNCHANGED <<d, current, seen, id>> => IInv'
<1> SUFFICES ASSUME IInv, Sleep, UNCHANGED <<d, current, seen, id>> PROVE IInv'
  OBVIOUS
<1> USE VersionAssumption, AttributeAssumption, RetriesAssumption DEF End, Goto, Continue, Fail, Succeeded, Typed, Sized, Made, IInv
<1>1. TypeOK'
  BY DEF Sleep, TypeOK, Label, RetryInv
<1>2. SourceInv'
  BY DEF Sleep, SourceInv, TypeOK, ResourceData
<1>3. FormatInv'
  BY DEF Sleep, FormatInv, FormatFits, TypeOK, SourceInv, ResourceData
<1>4. CapacityInv'
  BY DEF Sleep, CapacityInv, SourceFits, BaseFits, TypeOK, SourceInv, ResourceData
<1>5. VolumeInv'
  BY DEF Sleep, VolumeInv, FormatInv, CapacityInv, SourceInv, TypeOK, FormatFits, SourceFits, BaseFits, ResourceData, Volume
<1>6. CopyInv'
  BY DEF Sleep, CopyInv, VolumeInv, SourceInv, TypeOK, Volume, ResourceData
<1>7. RetryInv'
  BY DEF Sleep, RetryInv, ServerErrorsAreRetried, TypeOK, SourceInv, Attempt, ResourceData
<1> QED
  BY <1>1, <1>2, <1>3, <1>4, <1>5, <1>6, <1>7

LEMMA CopyStep == IInv /\ Copy /\ UNCHANGED <<d, current, seen, id>> => IInv'
<1> SUFFICES ASSUME IInv, Copy, UNCHANGED <<d, current, seen, id>> PROVE IInv'
  OBVIOUS
<1> USE VersionAssumption, AttributeAssumption, RetriesAssumption DEF End, Goto, Continue, Fail, Succeeded, Typed, Sized, Made, IInv
<1>a. /\ volume' \in Volume
      /\ volume'.ours = volume.ours
      /\ volume'.format = volume.format
      /\ volume'.capacity = volume.capacity
      /\ pc' = "wait" => volume'.whole /\ volume'.content = body
  <2>1. volume \in Volume /\ body \in Version
    BY DEF Copy, TypeOK
  <2>2. \A w \in BOOLEAN : [volume EXCEPT !.content = body, !.whole = w] \in Volume
    BY <2>1, Zenon DEF Volume
  <2>3. ASSUME NEW w \in BOOLEAN, Written(body, w)
        PROVE  /\ volume'.ours = volume.ours /\ volume'.format = volume.format
               /\ volume'.capacity = volume.capacity
               /\ volume'.whole = w /\ volume'.content = body
    BY <2>1, <2>3, Zenon DEF Written, Volume
  <2> QED
    BY <2>1, <2>2, <2>3 DEF Copy, Written
<1>1. TypeOK'
  BY <1>a, NoneAssumption DEF Copy, TypeOK, Label
<1>2. SourceInv'
  BY DEF Copy, Written, SourceInv, TypeOK, ResourceData
<1>3. FormatInv'
  BY DEF Copy, Written, FormatInv, FormatFits, TypeOK, SourceInv, ResourceData
<1>4. CapacityInv'
  BY DEF Copy, Written, CapacityInv, SourceFits, BaseFits, TypeOK, SourceInv, ResourceData
<1>5. VolumeInv'
  BY <1>a DEF Copy, VolumeInv, FormatInv, CapacityInv, SourceInv, TypeOK, FormatFits, SourceFits, BaseFits, Label
<1>6. CopyInv'
  <2>1. CASE pc' = "wait" /\ result' = result /\ Size[body] <= capacity
    <3>1. pc = "copy" /\ body \in seen
      BY DEF Copy, CopyInv
    <3>2. volume # None
      BY <2>1 DEF Copy, Written, TypeOK
    <3>3. volume'.ours => volume'.capacity = capacity
      BY <1>a, <3>1, <3>2 DEF VolumeInv
    <3> QED
      BY <1>a, <2>1, <3>1, <3>3 DEF CopyInv
  <2>2. CASE pc' = "done" /\ result' = "error"
    BY <2>2 DEF CopyInv
  <2> QED
    BY <2>1, <2>2 DEF Copy
<1>7. RetryInv'
  <2>1. 0 \in Attempt /\ Attempt \subseteq Nat
    BY DEF Attempt
  <2>2. answers[0] = None => \A i \in Attempt : answers[i] = None
    BY <2>1 DEF Copy, RetryInv, TypeOK
  <2>3. ServerErrorsAreRetried'
    BY <2>2 DEF Copy, RetryInv, ServerErrorsAreRetried
  <2> QED
    BY <2>1, <2>3 DEF Copy, RetryInv
<1> QED
  BY <1>1, <1>2, <1>3, <1>4, <1>5, <1>6, <1>7

LEMMA WaitStep == IInv /\ Wait /\ UNCHANGED <<d, current, seen, id>> => IInv'
<1> SUFFICES ASSUME IInv, Wait, UNCHANGED <<d, current, seen, id>> PROVE IInv'
  OBVIOUS
<1> USE VersionAssumption, AttributeAssumption, RetriesAssumption DEF End, Goto, Continue, Fail, Succeeded, Typed, Sized, Made, IInv
<1>1. TypeOK'
  BY DEF Wait, TypeOK, Label, Volume, ResourceData, Attempt, SourceInv
<1>2. SourceInv'
  BY DEF Wait, SourceInv, TypeOK, ResourceData
<1>3. FormatInv'
  BY DEF Wait, FormatInv, FormatFits, TypeOK, SourceInv, ResourceData
<1>4. CapacityInv'
  BY DEF Wait, CapacityInv, SourceFits, BaseFits, TypeOK, SourceInv, ResourceData
<1>5. VolumeInv'
  BY DEF Wait, VolumeInv, FormatInv, CapacityInv, SourceInv, TypeOK, FormatFits, SourceFits, BaseFits, ResourceData, Volume
<1>6. CopyInv'
  BY DEF Wait, CopyInv, VolumeInv, SourceInv, TypeOK, Volume, ResourceData
<1>7. RetryInv'
  BY DEF Wait, RetryInv, ServerErrorsAreRetried, TypeOK, SourceInv, Attempt, ResourceData
<1> QED
  BY <1>1, <1>2, <1>3, <1>4, <1>5, <1>6, <1>7

\* What was there stays among what has been seen.
LEMMA RepublishStep == IInv /\ Republish => IInv'
<1> SUFFICES ASSUME IInv, Republish PROVE IInv'
  OBVIOUS
<1>1. /\ seen \subseteq seen' /\ current' \in seen' /\ current' \in Version /\ seen' \subseteq Version
      /\ UNCHANGED <<pc, d, id, format, capacity, retryCount, body, answers, result, volume>>
  BY DEF Republish, IInv, TypeOK, handlerVars
<1>2. TypeOK'
  BY <1>1 DEF IInv, TypeOK
<1>3. SourceInv'
  BY <1>1 DEF IInv, SourceInv
<1>4. /\ \A f \in Format \union {"raw"} : FormatFits(f) => FormatFits(f)'
      /\ \A c \in Nat : SourceFits(c) => SourceFits(c)'
      /\ \A c \in Nat : BaseFits(c) => BaseFits(c)'
  BY <1>1 DEF FormatFits, SourceFits, BaseFits
<1>5. format \in Format /\ capacity \in Nat
  BY DEF IInv, TypeOK
<1>6. volume # None => volume.format \in Format \union {"raw"} /\ volume.capacity \in Nat
  BY DEF IInv, TypeOK, Volume
<1>7. FormatInv' /\ CapacityInv'
  BY <1>1, <1>4, <1>5 DEF IInv, FormatInv, CapacityInv
<1>8. VolumeInv'
  BY <1>1, <1>4, <1>6 DEF IInv, VolumeInv, Succeeded
<1>9. CopyInv' /\ RetryInv'
  BY <1>1 DEF IInv, CopyInv, RetryInv, ServerErrorsAreRetried, Succeeded
<1> QED
  BY <1>2, <1>3, <1>7, <1>8, <1>9 DEF IInv

LEMMA NextInv == IInv /\ [Next]_vars => IInv'
<1> SUFFICES ASSUME IInv, [Next]_vars PROVE IInv'
  OBVIOUS
<1>1. CASE Step
  BY <1>1, PrepareStep, IsQCOW2Step, ImageSizeStep, ImageSizeGetStep, BaseLookupStep, BackingStoreStep,
     BaseSizeStep, CreateVolumeStep, FoundVolumeStep, OpenFileStep, RequestStep, SleepStep, CopyStep,
     WaitStep, Zenon DEF Step
<1>2. CASE Republish
  BY <1>2, RepublishStep
<1>3. CASE UNCHANGED vars
  BY <1>3 DEF vars, handlerVars, IInv, TypeOK, SourceInv, FormatInv, FormatFits, CapacityInv, SourceFits,
              BaseFits, VolumeInv, CopyInv, RetryInv, ServerErrorsAreRetried, Succeeded
<1> QED
  BY <1>1, <1>2, <1>3 DEF Next

LEMMA Invariance == Spec => []IInv
  BY InitInv, NextInv, PTL DEF Spec

\* The state has its type; a copy has an open source and a volume to write to.
THEOREM TypeCorrect == Spec => []TypeOK
<1>1. IInv => TypeOK
  BY DEF IInv
<1> QED
  BY Invariance, <1>1, PTL

\* A create with a source succeeds only with the whole of one version of it in the
\* volume, whatever is put in the source's place in the meantime.
THEOREM WholeContent == Spec => []ContentIsWhole
<1>1. IInv => ContentIsWhole
  BY DEF IInv, CopyInv, ContentIsWhole
<1> QED
  BY Invariance, <1>1, PTL

\* What the create declares of its volume is true of the source at some moment.
THEOREM DeclaredImage == Spec => []ImageIsDeclared
<1>1. IInv => ImageIsDeclared
  BY DEF IInv, SourceInv, VolumeInv, FormatFits, SourceFits, ImageIsDeclared, Succeeded
<1> QED
  BY Invariance, <1>1, PTL

\* A volume on top of a base volume is at least as large, however often the base
\* volume is replaced between the two times its description is read.
THEOREM BackingHolds == Spec => []BackingFits
<1>1. IInv => BackingFits
  <2> SUFFICES ASSUME IInv, Succeeded, d.base, volume.ours
               PROVE  \E v \in seen : /\ Size[v] <= volume.capacity
                                      /\ d.size = None => Size[v] = volume.capacity
    BY DEF BackingFits
  <2>1. d.source = None
    BY AttributeAssumption DEF IInv, SourceInv, Succeeded
  <2>2. volume # None
    BY DEF IInv, VolumeInv
  <2> QED
    BY <2>1, <2>2 DEF IInv, VolumeInv, BaseFits
<1> QED
  BY Invariance, <1>1, PTL

\* The server's own errors, and these only, are retried MaxHTTPRetries times.
THEOREM Retries == Spec => []ServerErrorsAreRetried
<1>1. IInv => ServerErrorsAreRetried
  BY DEF IInv, RetryInv
<1> QED
  BY Invariance, <1>1, PTL
-----------------------------------------------------------------------------
(* The create ends.                                                         *)

\* The number of steps that a create has left at a label, at most, when the server may
\* still answer with n / 2 errors.
StepsFrom(label, n) ==
    CASE label = "done" -> 0
      [] label = "wait" -> 1
      [] label = "copy" -> 2
      [] label = "open" -> 3
      [] label = "sleep" -> n + 2
      [] label = "request" -> n + 3
      [] label = "found" -> n + 4
      [] label = "create" -> n + 5
      [] label \in {"base.size", "size.get"} -> n + 6
      [] label \in {"base.format", "size"} -> n + 7
      [] label \in {"base.lookup", "type"} -> n + 8
      [] label = "prepare" -> n + 9

\* Each attempt that is left is a request and a sleep.
RetriesLeft == 2 * (MaxHTTPRetries - retryCount)

Remaining == StepsFrom(pc, RetriesLeft)

\* Every step of the handler leaves fewer to do, and whoever replaces the source takes
\* nothing back: the only loop, over the server's errors, is bounded by maxHTTPRetries.
StepsRunOut == (Step => Remaining' < Remaining) /\ (Republish => Remaining' = Remaining)

\* The steps that are left at each label.
LEMMA StepsFromIs ==
  \A n \in Nat :
    /\ StepsFrom("done", n) = 0
    /\ StepsFrom("wait", n) = 1
    /\ StepsFrom("copy", n) = 2
    /\ StepsFrom("open", n) = 3
    /\ StepsFrom("sleep", n) = n + 2
    /\ StepsFrom("request", n) = n + 3
    /\ StepsFrom("found", n) = n + 4
    /\ StepsFrom("create", n) = n + 5
    /\ StepsFrom("base.size", n) = n + 6
    /\ StepsFrom("size.get", n) = n + 6
    /\ StepsFrom("base.format", n) = n + 7
    /\ StepsFrom("size", n) = n + 7
    /\ StepsFrom("base.lookup", n) = n + 8
    /\ StepsFrom("type", n) = n + 8
    /\ StepsFrom("prepare", n) = n + 9
  BY DEF StepsFrom

\* The retries left are a number.
LEMMA RetriesLeftType == TypeOK => RetriesLeft \in 0 .. 2 * MaxHTTPRetries
  <1> SUFFICES ASSUME TypeOK PROVE RetriesLeft \in 0 .. 2 * MaxHTTPRetries
    OBVIOUS
  <1>1. retryCount \in 0 .. MaxHTTPRetries
    BY DEF TypeOK
  <1> QED
    BY <1>1, RetriesAssumption DEF RetriesLeft

\* The steps left are at most nine, and two for each attempt.
LEMMA RemainingType == TypeOK => Remaining \in 0 .. 2 * MaxHTTPRetries + 9
  <1> SUFFICES ASSUME TypeOK PROVE Remaining \in 0 .. 2 * MaxHTTPRetries + 9
    OBVIOUS
  <1>1. pc \in Label
    BY DEF TypeOK
  <1>2. RetriesLeft \in 0 .. 2 * MaxHTTPRetries
    BY RetriesLeftType
  <1> QED
    BY <1>1, <1>2, StepsFromIs, RetriesAssumption DEF Label, Remaining

Edge(from, tos) == pc = from /\ pc' \in tos

\* Where the steps of the create go.
LEMMA StepGoes ==
  ASSUME Step, ~Sleep
  PROVE  /\ retryCount' = retryCount
         /\ \/ Edge("prepare", {"done", "type", "base.lookup", "create"})
            \/ Edge("type", {"done", "size"})
            \/ Edge("size", {"done", "create", "size.get"})
            \/ Edge("size.get", {"done", "create"})
            \/ Edge("base.lookup", {"done", "base.format"})
            \/ Edge("base.format", {"done", "base.size"})
            \/ Edge("base.size", {"done", "create"})
            \/ Edge("create", {"done", "found", "open", "request", "wait"})
            \/ Edge("found", {"done", "open", "request", "wait"})
            \/ Edge("open", {"done", "copy"})
            \/ Edge("request", {"done", "copy", "sleep"})
            \/ Edge("copy", {"done", "wait"})
            \/ Edge("wait", {"done"})
  <1> USE DEF Edge, Goto, End, Fail, Continue
  <1>1. Prepare => /\ retryCount' = retryCount
                   /\ Edge("prepare", {"done", "type", "base.lookup", "create"})
    BY DEF Prepare
  <1>2. IsQCOW2 => retryCount' = retryCount /\ Edge("type", {"done", "size"})
    BY DEF IsQCOW2, TakeFormat
  <1>3. ImageSize => retryCount' = retryCount /\ Edge("size", {"done", "create", "size.get"})
    BY DEF ImageSize, TakeSize
  <1>4. ImageSizeGet => retryCount' = retryCount /\ Edge("size.get", {"done", "create"})
    BY DEF ImageSizeGet, TakeSize
  <1>5. BaseLookup => retryCount' = retryCount /\ Edge("base.lookup", {"done", "base.format"})
    BY DEF BaseLookup
  <1>6. BackingStore => retryCount' = retryCount /\ Edge("base.format", {"done", "base.size"})
    BY DEF BackingStore
  <1>7. BaseSize => retryCount' = retryCount /\ Edge("base.size", {"done", "create"})
    BY DEF BaseSize
  <1>8. AfterCreate \in {"open", "request", "wait"}
    BY DEF AfterCreate
  <1>9. CreateVolume => /\ retryCount' = retryCount
                        /\ Edge("create", {"done", "found", "open", "request", "wait"})
    BY <1>8 DEF CreateVolume, GotoWithId
  <1>10. FoundVolume => /\ retryCount' = retryCount
                        /\ Edge("found", {"done", "open", "request", "wait"})
    BY <1>8 DEF FoundVolume, GotoWithId
  <1>11. OpenFile => retryCount' = retryCount /\ Edge("open", {"done", "copy"})
    BY DEF OpenFile
  <1>12. Request => retryCount' = retryCount /\ Edge("request", {"done", "copy", "sleep"})
    BY DEF Request
  <1>13. Copy => retryCount' = retryCount /\ Edge("copy", {"done", "wait"})
    BY DEF Copy
  <1>14. Wait => retryCount' = retryCount /\ Edge("wait", {"done"})
    BY DEF Wait
  <1> QED
    BY <1>1, <1>2, <1>3, <1>4, <1>5, <1>6, <1>7, <1>9, <1>10, <1>11, <1>12, <1>13, <1>14 DEF Step

\* The next label needs fewer steps.
LEMMA StepShortens ==
  ASSUME TypeOK, TypeOK', Step
  PROVE  Remaining' < Remaining
  <1> DEFINE left == RetriesLeft
             leftAfter == RetriesLeft'
  <1>1. left \in Nat /\ leftAfter \in Nat
    <2>1. retryCount \in 0 .. MaxHTTPRetries /\ retryCount' \in 0 .. MaxHTTPRetries
      BY DEF TypeOK
    <2>2. \A n \in 0 .. MaxHTTPRetries : 2 * (MaxHTTPRetries - n) \in Nat
      BY RetriesAssumption
    <2> QED
      BY <2>1, <2>2 DEF RetriesLeft
  <1>2. Remaining = StepsFrom(pc, left) /\ Remaining' = StepsFrom(pc', leftAfter)
    BY DEF Remaining
  <1>3. Sleep => pc = "sleep" /\ pc' = "request" /\ left = leftAfter + 2
    <2>1. retryCount \in 0 .. MaxHTTPRetries
      BY DEF TypeOK
    <2> QED
      BY <2>1, RetriesAssumption DEF Sleep, Goto, RetriesLeft
  <1>4. retryCount' = retryCount => leftAfter = left
    BY DEF RetriesLeft
  <1> HIDE DEF left, leftAfter
  <1>5. CASE Sleep
    BY <1>1, <1>2, <1>3, <1>5, StepsFromIs
  <1>6. CASE ~Sleep
    BY <1>1, <1>2, <1>4, <1>6, StepGoes, StepsFromIs DEF Edge
  <1> QED
    BY <1>5, <1>6

\* For any number of retries and whatever answers: the steps that a create has left are at
\* most 2 * maxHTTPRetries + 9, and each of its steps makes them fewer.
THEOREM CreateShortens == Spec => [](Remaining \in 0 .. 2 * MaxHTTPRetries + 9) /\ [][StepsRunOut]_vars
  <1>1. IInv => TypeOK
    BY DEF IInv
  <1>2. IInv => Remaining \in 0 .. 2 * MaxHTTPRetries + 9
    BY <1>1, RemainingType
  <1>3. IInv /\ IInv' /\ [Next]_vars => [StepsRunOut]_vars
    <2> SUFFICES ASSUME IInv, IInv', Next PROVE StepsRunOut
      OBVIOUS
    <2>1. Republish => pc' = pc /\ retryCount' = retryCount
      BY DEF Republish, handlerVars
    <2>2. Republish => Remaining' = Remaining
      BY <2>1 DEF Remaining, RetriesLeft
    <2>3. Step => Remaining' < Remaining
      BY StepShortens DEF IInv
    <2> QED
      BY <2>2, <2>3 DEF StepsRunOut
  <1> QED
    BY <1>2, <1>3, Invariance, PTL DEF Spec

-----------------------------------------------------------------------------
(* The refinement.                                                          *)

\* The id is that of the volume from the moment there is one.
IdInv ==
    /\ pc \in Made => id = "key"
    /\ pc \notin Made \union {"done"} => id = None

LEMMA IdNext == IInv /\ IdInv /\ [Next]_vars => IdInv'
<1> SUFFICES ASSUME IInv, IdInv, [Next]_vars PROVE IdInv'
  OBVIOUS
<1> USE DEF IdInv, Typed, Sized, Made, Goto, Continue, Fail, End
<1>1. d \in ResourceData
  BY DEF IInv, TypeOK
<1>2. CASE CreateVolume \/ FoundVolume
  BY <1>1, <1>2, AfterCreateCases DEF CreateVolume, FoundVolume, GotoWithId
<1>3. CASE /\ Prepare \/ IsQCOW2 \/ ImageSize \/ ImageSizeGet \/ BaseLookup \/ BackingStore \/ BaseSize
           /\ UNCHANGED id
  BY <1>3 DEF Prepare, IsQCOW2, TakeFormat, ImageSize, ImageSizeGet, TakeSize, BaseLookup, BackingStore, BaseSize
<1>4. CASE (OpenFile \/ Request \/ Sleep \/ Copy \/ Wait) /\ UNCHANGED id
  BY <1>4 DEF OpenFile, Request, Sleep, Copy, Wait
<1>5. CASE Republish \/ UNCHANGED vars
  BY <1>5 DEF Republish, vars, handlerVars
<1> QED
  BY <1>2, <1>3, <1>4, <1>5 DEF Next, Step

\* How a step looks to the handlers of the pool: the daemon is as it was, the handler
\* goes on, it returns.
LEMMA SameDaemon ==
    ASSUME NEW c, UNCHANGED <<author, uploaded, current>>
    PROVE  UNCHANGED Create(c)!libvirtVars
  BY DEF Create!libvirtVars, Present

LEMMA Goes ==
    ASSUME NEW c, NEW next, Running, Running', UNCHANGED id, call' = next
    PROVE  Create(c)!Goto("volume", next)
  BY DEF Create!Goto

LEMMA GoesWithId ==
    ASSUME NEW c, NEW next, Running, Running', id' = "key", call' = next
    PROVE  Create(c)!GotoWithId("volume", next, "key")
  BY DEF Create!GotoWithId

LEMMA Ends ==
    ASSUME NEW c, Running, ~Running', UNCHANGED id
    PROVE  Create(c)!Return("volume", id)
<1>1. call' = "idle"
  BY DEF call, Running
<1> QED
  BY <1>1 DEF Create!Return, Create!Unlocked
\* What VolumeResource sees of the pool and its volumes.
LEMMA Seen ==
    ASSUME NEW c
    PROVE  /\ Create(c)!PoolOf("volume") = "pool"
           /\ Running => Create(c)!Usable("pool", "uuid")
           /\ Create(c)!Visible("key") <=> volume # None
           /\ Create(c)!Visible("base") <=> Present
           /\ Create(c)!MayFail
  BY AttributeAssumption
     DEF Create!PoolOf, Create!Usable, Create!IsPool, Create!Defined, Create!Visible, Create!MayFail, author

\* The preparation: what it asks of a source changes nothing, what it asks of the base
\* volume ends when that was there.
LEMMA PrepareRefines ==
    ASSUME NEW c \in ResourceData, d = c, IInv, UNCHANGED <<d, current, id>>,
           Prepare \/ IsQCOW2 \/ ImageSize \/ ImageSizeGet \/ BaseLookup \/ BackingStore \/ BaseSize
    PROVE  Create(c)!VolumePrepare("volume") \/ UNCHANGED <<call, author, uploaded, id>>
<1> USE DEF Goto, Continue, Fail, End
<1>1. Running /\ call = "vol.prepare" /\ UNCHANGED volume
  BY DEF Prepare, IsQCOW2, TakeFormat, ImageSize, ImageSizeGet, TakeSize, BaseLookup, BackingStore, BaseSize,
         call, Running
<1>2. UNCHANGED <<author, uploaded>>
  BY <1>1 DEF author, uploaded
<1>3. CASE ~Running'
  BY <1>1, <1>2, <1>3, Ends, SameDaemon, Seen DEF Create!VolumePrepare
<1>4. CASE pc' = "create"
  <2>1. Create(c)!Goto("volume", "vol.create")
    BY <1>1, <1>4, Goes DEF Running, call
  <2>2. d.source = None /\ d.base => Present
    BY <1>4 DEF Prepare, IsQCOW2, TakeFormat, ImageSize, ImageSizeGet, TakeSize, BaseLookup, BackingStore, BaseSize, IInv, SourceInv
  <2> QED
    BY <1>1, <1>2, <2>1, <2>2, SameDaemon, Seen DEF Create!VolumePrepare
<1>5. CASE pc' \in {"type", "size", "size.get", "base.lookup", "base.format", "base.size"}
  BY <1>1, <1>2, <1>5 DEF call
<1> QED
  BY <1>3, <1>4, <1>5
     DEF Prepare, IsQCOW2, TakeFormat, ImageSize, ImageSizeGet, TakeSize, BaseLookup, BackingStore, BaseSize,
         Running
\* Where the create goes from the volume, in both modules.
LEMMA AfterCreateAgrees ==
    ASSUME NEW c \in ResourceData, d = c, IInv, pc \in {"create", "found"}, pc' = AfterCreate
    PROVE  Running' /\ call' = Create(c)!AfterCreate("volume")
<1>1. d.source \in {None, "local", "http"}
  BY AttributeAssumption DEF IInv, TypeOK, ResourceData, SourceInv
<1>2. pc' \in {"open", "request", "wait"} /\ (pc' = "wait" <=> d.source = None)
  BY <1>1, AfterCreateCases, AttributeAssumption
<1> QED
  BY <1>2 DEF Running, call, Create!AfterCreate

\* A volume is made where there was none, or found.
LEMMA CreateRefines ==
    ASSUME NEW c \in ResourceData, d = c, IInv, CreateVolume, UNCHANGED <<d, current>>
    PROVE  Create(c)!VolumeCreate("volume")
<1> USE DEF Goto, Continue, Fail, End
<1>1. Running /\ call = "vol.create"
  BY DEF CreateVolume, call, Running
<1>2. CASE volume = None /\ GotoWithId
  <2>1. volume' = [ours |-> TRUE, format |-> format, capacity |-> capacity, content |-> None, whole |-> FALSE]
    BY <1>2, AfterCreateCases DEF CreateVolume, GotoWithId, IInv, TypeOK
  <2>2. volume' \in Volume
    BY <2>1, VolumeType, Zenon DEF IInv, TypeOK
  <2>3. volume' # None
    BY <2>2, NoneAssumption
  <2>4. author = None /\ author' = "volume" /\ uploaded' = None
    BY <1>2, <2>1, <2>3 DEF author, uploaded
  <2>5. Create(c)!StorageVolCreateXML("key", "uuid", "volume")
    BY <1>1, <2>4, Seen DEF Create!StorageVolCreateXML, Present
  <2>6. Create(c)!GotoWithId("volume", Create(c)!AfterCreate("volume"), "key")
    BY <1>1, <1>2, AfterCreateAgrees, GoesWithId DEF GotoWithId, CreateVolume
  <2> QED
    BY <1>1, <2>5, <2>6 DEF Create!VolumeCreate
<1>3. CASE volume # None /\ pc' = "found" /\ UNCHANGED <<volume, id>>
  <2>1. Create(c)!Goto("volume", "vol.adopt")
    BY <1>1, <1>3, Goes DEF Running, call
  <2>2. author # None /\ UNCHANGED <<author, uploaded>>
    BY <1>3, AttributeAssumption DEF author, uploaded
  <2> QED
    BY <1>1, <2>1, <2>2, SameDaemon, Seen DEF Create!VolumeCreate
<1>4. CASE ~Running' /\ UNCHANGED <<volume, id>>
  BY <1>1, <1>4, Ends, SameDaemon, Seen DEF Create!VolumeCreate, Create!ReturnError, author, uploaded
<1> QED
  BY <1>2, <1>3, <1>4 DEF CreateVolume, Running, GotoWithId

LEMMA FoundRefines ==
    ASSUME NEW c \in ResourceData, d = c, IInv, FoundVolume, UNCHANGED <<d, current>>
    PROVE  Create(c)!VolumeAdopt("volume")
<1> USE DEF Goto, Continue, Fail, End
<1>1. Running /\ call = "vol.adopt" /\ volume # None /\ UNCHANGED volume
  BY DEF FoundVolume, GotoWithId, call, Running, IInv, VolumeInv
<1>2. UNCHANGED <<author, uploaded>>
  BY <1>1 DEF author, uploaded
<1>3. CASE GotoWithId
  <2>1. Create(c)!GotoWithId("volume", Create(c)!AfterCreate("volume"), "key")
    BY <1>1, <1>3, AfterCreateAgrees, GoesWithId DEF GotoWithId, FoundVolume
  <2> QED
    BY <1>1, <1>2, <2>1, SameDaemon, Seen DEF Create!VolumeAdopt
<1>4. CASE ~Running' /\ UNCHANGED id
  BY <1>1, <1>2, <1>4, Ends, SameDaemon, Seen DEF Create!VolumeAdopt
<1> QED
  BY <1>3, <1>4 DEF FoundVolume, Running

\* Opening, asking and waiting change nothing that others see; the copy is the upload.
LEMMA UploadRefines ==
    ASSUME NEW c \in ResourceData, d = c, IInv, IdInv, UNCHANGED <<d, current, id>>,
           OpenFile \/ Request \/ Sleep \/ Copy
    PROVE  Create(c)!VolumeUpload("volume") \/ UNCHANGED <<call, author, uploaded, id>>
<1> USE DEF Goto, Continue, Fail, End
<1>1. /\ Running /\ call = "vol.upload" /\ volume # None
      /\ volume' = volume \/ (Copy /\ \E w \in BOOLEAN : Written(body, w))
  BY DEF OpenFile, Request, Sleep, Copy, call, Running, IInv, TypeOK
<1>2. CASE UNCHANGED volume /\ ~Running'
  BY <1>1, <1>2, Ends, SameDaemon, Seen DEF Create!VolumeUpload, Create!ReturnError, author, uploaded
<1>3. CASE UNCHANGED volume /\ pc' \in {"copy", "sleep", "request"}
  BY <1>1, <1>3 DEF call, author, uploaded
<1>4. CASE Copy /\ \E w \in BOOLEAN : Written(body, w)
  <2>1. volume \in Volume /\ body \in Version
    BY <1>1, <1>4 DEF IInv, TypeOK, Copy
  <2>2. volume'.ours = volume.ours /\ volume'.content = body /\ volume' # None
    <3>1. PICK w \in BOOLEAN : volume' = [volume EXCEPT !.content = body, !.whole = w]
      BY <1>4 DEF Written
    <3>2. volume' \in Volume
      BY <2>1, <3>1, Zenon DEF Volume
    <3>3. volume'.ours = volume.ours /\ volume'.content = body
      BY <2>1, <3>1, Zenon DEF Volume
    <3> QED
      BY <3>2, <3>3, NoneAssumption
  <2>3. uploaded' = "volume" /\ UNCHANGED author
    BY <1>1, <2>1, <2>2, AttributeAssumption DEF uploaded, author
  <2>4. Create(c)!StorageVolUpload("key", "volume")
    BY <1>1, <2>3, Seen DEF Create!StorageVolUpload, Present
  <2>5. CASE pc' = "wait"
    BY <1>1, <2>4, <2>5, Goes DEF Create!VolumeUpload, Running, call
  <2>6. CASE ~Running'
    BY <1>1, <2>4, <2>6, Ends, Seen DEF Create!VolumeUpload
  <2> QED
    BY <1>4, <2>5, <2>6 DEF Copy, Running
<1> QED
  BY <1>1, <1>2, <1>3, <1>4 DEF OpenFile, Request, Sleep, Copy, Running

\* The wait, for the volume that has the id.
LEMMA WaitRefines ==
    ASSUME NEW c \in ResourceData, d = c, IInv, IdInv, UNCHANGED <<d, current, id>>, Wait
    PROVE  Create(c)!VolumeWait("volume")
<1> USE DEF Goto, Continue, Fail, End
<1>1. Running /\ call = "vol.wait" /\ volume # None /\ UNCHANGED volume /\ id = "key"
  BY DEF Wait, call, Running, IInv, TypeOK, IdInv, Made, Sized, Typed
<1>2. UNCHANGED <<author, uploaded>>
  BY <1>1 DEF author, uploaded
<1>3. CASE pc' = "done" /\ result' = "ok"
  BY <1>1, <1>2, <1>3, Goes, SameDaemon, Seen DEF Create!VolumeWait, Running, call
<1>4. CASE ~Running'
  BY <1>1, <1>2, <1>4, Ends, SameDaemon, Seen DEF Create!VolumeWait
<1> QED
  BY <1>3, <1>4 DEF Wait, Running

LEMMA StepRefines ==
    IInv /\ IdInv /\ [Next]_vars
    => [\E c \in ResourceData : d = c /\ Create(c)!VolumeStep("volume")]_<<call, author, uploaded, id>>
<1> SUFFICES ASSUME IInv, IdInv, [Next]_vars, NEW c \in ResourceData, d = c
             PROVE  Create(c)!VolumeStep("volume") \/ UNCHANGED <<call, author, uploaded, id>>
  BY DEF IInv, TypeOK
<1>1. CASE Step
  BY <1>1, PrepareRefines, CreateRefines, FoundRefines, UploadRefines, WaitRefines
     DEF Step, Create!VolumeStep
<1>2. CASE Republish \/ UNCHANGED vars
  BY <1>2 DEF Republish, vars, handlerVars, call, author, uploaded, Running
<1> QED
  BY <1>1, <1>2 DEF Next

\* VolumeImage is the inside of VolumeResource's preparation and upload: every step of a
\* create is one that the composition of all storage handlers has, or is not seen there.
THEOREM Implementation == Spec => ImplementsCreate
<1>1. Init => IdInv
  BY DEF Init, IdInv, Made, Sized, Typed
<1>2. Spec => []IdInv
  BY <1>1, IdNext, Invariance, PTL DEF Spec
<1> QED
  BY <1>2, StepRefines, Invariance, PTL DEF Spec, ImplementsCreate
=============================================================================
