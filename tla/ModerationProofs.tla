------------------------- MODULE ModerationProofs ---------------------------
(***************************************************************************)
(* Proofs about Moderation with its images, for all requests, users,       *)
(* messages and settings: no file of a post goes without a deletion in the *)
(* log, nothing but an overlap leaves a thumbnail alone, and no mixture of *)
(* requests, errors and restarts loses a setting that is in effect.        *)
(***************************************************************************)
EXTENDS Moderation, TLAPS

(***************************************************************************)
(* What the steps of Images preserve, for all paths, uploads and           *)
(* goroutines.                                                             *)
(***************************************************************************)

\* The steps of the system as far as images go: other commands may use up a
\* failure.
ImagesStep ==
    \/ ImagesNext
    \/ \E n \in Uploads, imageOnly \in BOOLEAN : DeletePost(n, imageOnly)
    \/ ImagesRestart
    \/ UNCHANGED <<fileVars, queue, worker, upload, postVars, removing>>

File == [of : Nat, whole : BOOLEAN, open : SUBSET (Uploads \cup ImageWorkers)]
AnyPath == Paths \cup {NoPath}

ImagesType ==
    /\ image \in [Paths -> File] /\ thumb \in [Paths -> File]
    /\ queue \in Seq(Paths)
    /\ worker \in [ImageWorkers ->
          [at : {"idle", "stat", "decode", "create", "encode", "sleep"}, path : AnyPath, of : Nat]]
    /\ upload \in [Uploads ->
          [at : {"none", "copy", "push", "post", "done"}, path : AnyPath, content : Contents]]
    /\ posted \in SUBSET Uploads /\ logged \in SUBSET Uploads /\ stripped \in SUBSET Uploads
    /\ removing \in [path : AnyPath, left : {<<>>, <<"thumb">>, <<"image", "thumb">>}]

\* A file that is not there is open to nobody, and a goroutine that makes a
\* thumbnail has an image that it makes it of.
FilesInv ==
    /\ \A p \in Paths : image[p].of = 0 => image[p].open = {}
    /\ \A p \in Paths : thumb[p].of = 0 => thumb[p].open = {}
    /\ \A w \in ImageWorkers :
          /\ worker[w].at \in {"stat", "decode", "create", "encode"} => worker[w].path \in Paths
          /\ worker[w].at \in {"create", "encode"} => worker[w].of # 0

\* A deletion with the path was accepted.
Gone(p, up, l, s) == \E m \in l \cup s : up[m].path = p

\* Not only the files of posts, but of every upload, are there or gone.
Accounted(im, up, pst, l, s, rm) ==
    /\ \A n \in Uploads : up[n].at # "none" =>
          up[n].path \in Paths /\ (Exists(im[up[n].path]) \/ Gone(up[n].path, up, l, s))
    /\ rm.left # <<>> => rm.path \in Paths /\ Gone(rm.path, up, l, s)
    /\ \A n \in pst : up[n].at = "done"
    /\ l \cup s \subseteq pst

RemovalInv == Accounted(image, upload, posted, logged, stripped, removing)

ImagesInv == ImagesType /\ FilesInv /\ RemovalInv

----------------------------------------------------------------------------

LEMMA NoFileIsFile == NoFile \in File /\ NoFile.of = 0 /\ NoFile.open = {}
BY DEF NoFile, File

\* A file that is created is there, whoever had it open before.
LEMMA CreateFile ==
    ASSUME NEW f \in File, NEW n \in Nat \ {0}, NEW who \in Uploads \cup ImageWorkers
    PROVE  Create(f, n, who) \in File /\ Create(f, n, who).of # 0
BY DEF Create, File

\* Writing does not make a file that is not there, nor remove one.
LEMMA WriteFile ==
    ASSUME NEW f \in File, f.of = 0 => f.open = {}, NEW n \in Nat, NEW who, n # 0 \/ who \notin f.open,
           NEW whole \in BOOLEAN
    PROVE  /\ Written(f, n, whole, who) \in File
           /\ Written(f, n, whole, who).of = 0 <=> f.of = 0
           /\ Written(f, n, whole, who).of = 0 => Written(f, n, whole, who).open = {}
<1>1. CASE who \in f.open
  BY <1>1 DEF Written, File
<1>2. CASE who \notin f.open
  BY <1>2 DEF Written
<1>3. QED
  BY <1>1, <1>2

LEMMA ImagesInitInv == ImagesInit => ImagesInv
<1> SUFFICES ASSUME ImagesInit PROVE ImagesInv
  OBVIOUS
<1>1. ImagesType
  BY NoFileIsFile DEF ImagesInit, ImagesType, Idle, NotRemoving, AnyPath, Contents
<1>2. FilesInv
  BY NoFileIsFile DEF ImagesInit, FilesInv, Idle
<1>3. RemovalInv
  BY DEF ImagesInit, RemovalInv, Accounted, NotRemoving
<1>4. QED
  BY <1>1, <1>2, <1>3 DEF ImagesInv

----------------------------------------------------------------------------
(* What a step has to show of the parts that it changes.                   *)

WorkerType(v) ==
    v \in [ImageWorkers ->
          [at : {"idle", "stat", "decode", "create", "encode", "sleep"}, path : AnyPath, of : Nat]]

WorkerInv(v) ==
    \A w \in ImageWorkers :
       /\ v[w].at \in {"stat", "decode", "create", "encode"} => v[w].path \in Paths
       /\ v[w].at \in {"create", "encode"} => v[w].of # 0

ThumbInv(v) == v \in [Paths -> File] /\ \A p \in Paths : v[p].of = 0 => v[p].open = {}

\* A step of a goroutine or of a request for a thumbnail
LEMMA QueueStep ==
    ASSUME ImagesInv, queue' \in Seq(Paths), WorkerType(worker'), WorkerInv(worker'),
           ThumbInv(thumb'), UNCHANGED <<image, upload, postVars, removing>>
    PROVE  ImagesInv'
<1>1. ImagesType'
  BY DEF ImagesInv, ImagesType, WorkerType, ThumbInv, postVars
<1>2. FilesInv'
  BY DEF ImagesInv, FilesInv, WorkerInv, ThumbInv
<1>3. RemovalInv'
  BY DEF ImagesInv, RemovalInv, postVars
<1>4. QED
  BY <1>1, <1>2, <1>3 DEF ImagesInv

LEMMA InvParts ==
    ASSUME ImagesInv
    PROVE  WorkerType(worker) /\ WorkerInv(worker) /\ ThumbInv(thumb) /\ ThumbInv(image)
BY DEF ImagesInv, ImagesType, FilesInv, WorkerType, WorkerInv, ThumbInv

LEMMA PushType ==
    ASSUME queue \in Seq(Paths), NEW p \in Paths, Push(p)
    PROVE  queue' \in Seq(Paths)
BY DEF Push

\* A goroutine that only goes on
LEMMA WorkerGoesOn ==
    ASSUME ImagesInv, NEW w \in ImageWorkers,
           NEW v \in [at : {"idle", "stat", "decode", "create", "encode", "sleep"},
                      path : AnyPath, of : Nat],
           v.at \in {"stat", "decode", "create", "encode"} => v.path \in Paths,
           v.at \in {"create", "encode"} => v.of # 0,
           worker' = [worker EXCEPT ![w] = v]
    PROVE  WorkerType(worker') /\ WorkerInv(worker')
BY InvParts DEF WorkerType, WorkerInv

\* A thumbnail that is created or written
LEMMA ThumbChanges ==
    ASSUME ImagesInv, NEW p \in Paths, NEW f \in File, f.of = 0 => f.open = {},
           thumb' = [thumb EXCEPT ![p] = f]
    PROVE  ThumbInv(thumb')
BY InvParts DEF ThumbInv

LEMMA JobKeepsInv ==
    ASSUME ImagesInv, NEW w \in ImageWorkers, Job(w)
    PROVE  ImagesInv'
<1> USE InvParts DEF fileVars
<1> DEFINE v == worker[w]
<1>0. /\ v \in [at : {"idle", "stat", "decode", "create", "encode", "sleep"}, path : AnyPath, of : Nat]
      /\ v.at \in {"stat", "decode", "create", "encode"} => v.path \in Paths
      /\ v.at \in {"create", "encode"} => v.of # 0
      /\ queue \in Seq(Paths)
  BY DEF WorkerType, WorkerInv, ImagesInv, ImagesType
<1>1. CASE Take(w)
  <2>1. Head(queue) \in Paths /\ queue' \in Seq(Paths)
    BY <1>0, <1>1 DEF Take
  <2>2. WorkerType(worker') /\ WorkerInv(worker')
    BY <1>1, <2>1, WorkerGoesOn DEF Take, AnyPath
  <2>3. QED
    BY <1>1, <2>1, <2>2, QueueStep DEF Take
<1>2. CASE StatThumb(w)
  <2>1. PICK at \in {"sleep", "decode"} : worker' = [worker EXCEPT ![w] = [v EXCEPT !.at = at]] /\ v.at = "stat"
    BY <1>2 DEF StatThumb, WorkerAt
  <2>2. WorkerType(worker') /\ WorkerInv(worker')
    BY <1>0, <2>1, WorkerGoesOn
  <2>3. QED
    BY <1>0, <1>2, <2>2, QueueStep DEF StatThumb
<1>3. CASE Decode(w)
  <2> DEFINE at == CASE Exists(image[v.path]) /\ Large(v.path) -> "create"
                     [] Exists(image[v.path]) /\ ~ Readable(v.path) -> AfterError
                     [] OTHER -> "sleep"
  <2>1. v.at = "decode" /\ worker' = [worker EXCEPT ![w] = [v EXCEPT !.at = at, !.of = image[v.path].of]]
    BY <1>3 DEF Decode
  <2>2. v.path \in Paths /\ image[v.path] \in File
    BY <1>0, <2>1 DEF ThumbInv
  <2>3. at \in {"sleep", "create"} /\ (at = "create" => image[v.path].of # 0)
    <3>1. CASE Exists(image[v.path]) /\ Large(v.path)
      BY <3>1 DEF Exists, Large
    <3>2. CASE Exists(image[v.path]) /\ ~ Readable(v.path)
      BY <3>2 DEF Exists, AfterError, Large
    <3>3. CASE ~ (Exists(image[v.path]) /\ Large(v.path)) /\ ~ (Exists(image[v.path]) /\ ~ Readable(v.path))
      BY <3>3
    <3>4. QED
      BY <3>1, <3>2, <3>3
  <2> HIDE DEF at
  <2>4. WorkerType(worker') /\ WorkerInv(worker')
    BY <1>0, <2>1, <2>2, <2>3, WorkerGoesOn DEF File
  <2>5. QED
    BY <1>0, <1>3, <2>4, QueueStep DEF Decode
<1>4. CASE CreateThumb(w)
  <2>1. v.at = "create" /\ worker' = [worker EXCEPT ![w] = [v EXCEPT !.at = "encode"]]
    BY <1>4 DEF CreateThumb, WorkerAt
  <2>2. WorkerType(worker') /\ WorkerInv(worker')
    BY <1>0, <2>1, WorkerGoesOn
  <2>3. ThumbInv(thumb')
    BY <1>0, <1>4, <2>1, CreateFile, ThumbChanges DEF CreateThumb, ThumbInv
  <2>4. QED
    BY <1>0, <1>4, <2>2, <2>3, QueueStep DEF CreateThumb
<1>5. CASE Encode(w)
  <2>1. v.at = "encode" /\ worker' = [worker EXCEPT ![w] = [v EXCEPT !.at = "sleep"]]
    BY <1>5 DEF Encode, WorkerAt
  <2>2. WorkerType(worker') /\ WorkerInv(worker')
    BY <1>0, <2>1, WorkerGoesOn
  <2>3. ThumbInv(thumb')
    BY <1>0, <1>5, <2>1, WriteFile, ThumbChanges DEF Encode, ThumbInv
  <2>4. QED
    BY <1>0, <1>5, <2>2, <2>3, QueueStep DEF Encode
<1>6. CASE DiskError(w)
  <2>1. v.at \in {"create", "encode"} /\ worker' = [worker EXCEPT ![w] = [v EXCEPT !.at = "sleep"]]
    BY <1>6 DEF DiskError, WorkerAt, AfterError
  <2>2. WorkerType(worker') /\ WorkerInv(worker')
    BY <1>0, <2>1, WorkerGoesOn
  <2>3. ThumbInv(thumb')
    <3>1. CASE thumb' = thumb
      BY <3>1
    <3>2. CASE thumb' = [thumb EXCEPT ![v.path] = Written(@, @.of, @.whole, w)]
      <4>1. v.path \in Paths
        BY <1>0, <2>1
      <4> DEFINE g == thumb[v.path]
      <4>2. g \in File /\ (g.of = 0 => g.open = {})
        BY <4>1 DEF ThumbInv
      <4>3. thumb' = [thumb EXCEPT ![v.path] = Written(g, g.of, g.whole, w)]
        BY <3>2
      <4> HIDE DEF g
      <4>4. g.of \in Nat /\ g.whole \in BOOLEAN /\ (g.of # 0 \/ w \notin g.open)
        BY <4>2 DEF File
      <4>5. /\ Written(g, g.of, g.whole, w) \in File
            /\ Written(g, g.of, g.whole, w).of = 0 => Written(g, g.of, g.whole, w).open = {}
        BY ONLY <4>2, <4>4, WriteFile, ZenonT(30)
      <4>6. QED
        BY <4>1, <4>3, <4>5, ThumbChanges
    <3>3. QED
      BY <1>6, <3>1, <3>2 DEF DiskError
  <2>4. QED
    BY <1>0, <1>6, <2>2, <2>3, QueueStep DEF DiskError
<1>7. CASE Sleep(w)
  <2>1. WorkerType(worker') /\ WorkerInv(worker')
    BY <1>7, WorkerGoesOn DEF Sleep, Idle, AnyPath
  <2>2. QED
    BY <1>0, <1>7, <2>1, QueueStep DEF Sleep
<1>8. QED
  BY <1>1, <1>2, <1>3, <1>4, <1>5, <1>6, <1>7 DEF Job

LEMMA ImageKeepsInv ==
    ASSUME ImagesInv, NEW p \in Paths, Image(p)
    PROVE  ImagesInv'
<1>1. queue' \in Seq(Paths)
  BY PushType DEF Image, ImagesInv, ImagesType
<1>2. UNCHANGED <<image, thumb, worker, upload, postVars, removing>>
  BY DEF Image, fileVars
<1>3. WorkerType(worker') /\ WorkerInv(worker') /\ ThumbInv(thumb')
  BY <1>2, InvParts DEF WorkerType, WorkerInv, ThumbInv
<1>4. QED
  BY <1>1, <1>2, <1>3, QueueStep

----------------------------------------------------------------------------
(* Requests and deletions.                                                 *)

UploadType(v) ==
    v \in [Uploads -> [at : {"none", "copy", "push", "post", "done"}, path : AnyPath,
                       content : Contents]]

\* An accepted deletion stays accepted: the requests that a post was made of
\* do not get another path.
LEMMA GoneStays ==
    ASSUME ImagesInv, logged \subseteq logged', stripped \subseteq stripped',
           \A m \in posted : upload'[m].path = upload[m].path
    PROVE  \A p \in Paths : Gone(p, upload, logged, stripped) => Gone(p, upload', logged', stripped')
BY DEF ImagesInv, RemovalInv, Accounted, Gone

\* A request that goes on, without or with a change of its file
LEMMA UploadGoesOn ==
    ASSUME ImagesInv, NEW n \in Uploads, NEW to \in {"push", "post", "done"}, upload[n].at # "none",
           upload[n].at # "done", upload' = [upload EXCEPT ![n].at = to],
           queue' \in Seq(Paths), ThumbInv(image'),
           \A p \in Paths : Exists(image[p]) => Exists(image'[p]),
           posted' = posted \/ (posted' = posted \cup {n} /\ to = "done"),
           UNCHANGED <<thumb, worker, logged, stripped, removing>>
    PROVE  ImagesInv'
<1>1. UploadType(upload) /\ UploadType(upload')
  BY ZenonT(30) DEF ImagesInv, ImagesType, UploadType
<1>2. \A m \in Uploads : /\ upload'[m].path = upload[m].path
                         /\ upload'[m].at = IF m = n THEN to ELSE upload[m].at
  BY <1>1 DEF UploadType
<1>3. ImagesType'
  BY <1>1 DEF ImagesInv, ImagesType, UploadType, ThumbInv
<1>4. FilesInv'
  BY DEF ImagesInv, FilesInv, ThumbInv
<1>5. \A p \in Paths : Gone(p, upload, logged, stripped) => Gone(p, upload', logged', stripped')
  BY <1>2, GoneStays DEF ImagesInv, ImagesType
<1>6. RemovalInv'
  <2>1. posted \subseteq Uploads /\ \A m \in posted : m # n
    BY DEF ImagesInv, ImagesType, RemovalInv, Accounted
  <2>2. \A m \in Uploads : upload'[m].at # "none" =>
           upload'[m].path \in Paths /\ (Exists(image'[upload'[m].path]) 
             \/ Gone(upload'[m].path, upload', logged', stripped'))
    BY <1>2, <1>5 DEF ImagesInv, RemovalInv, Accounted
  <2>3. removing'.left # <<>> => removing'.path \in Paths /\ Gone(removing'.path, upload', logged', stripped')
    BY <1>5 DEF ImagesInv, RemovalInv, Accounted
  <2>4. \A m \in posted' : upload'[m].at = "done"
    BY <1>2, <2>1 DEF ImagesInv, RemovalInv, Accounted
  <2>5. logged' \cup stripped' \subseteq posted'
    BY DEF ImagesInv, RemovalInv, Accounted
  <2>6. QED
    BY ONLY <2>2, <2>3, <2>4, <2>5 DEF RemovalInv, Accounted
<1>7. QED
  BY <1>3, <1>4, <1>6 DEF ImagesInv

LEMMA CreateKeepsInv ==
    ASSUME ImagesInv, NEW n \in Uploads, NEW p \in Paths, NEW content \in Contents,
           UploadCreate(n, p, content)
    PROVE  ImagesInv'
<1> DEFINE u == [at |-> "copy", path |-> p, content |-> content]
<1>0. /\ upload[n].at = "none" /\ upload' = [upload EXCEPT ![n] = u]
      /\ image' = [image EXCEPT ![p] = Create(@, n, n)]
      /\ UNCHANGED <<thumb, queue, worker, posted, logged, stripped, removing>>
  BY DEF UploadCreate, postVars
<1>1. UploadType(upload) /\ UploadType(upload')
  BY <1>0 DEF ImagesInv, ImagesType, UploadType, AnyPath
<1>2. n \notin posted /\ \A m \in Uploads : upload'[m] = IF m = n THEN u ELSE upload[m]
  BY <1>0, <1>1 DEF ImagesInv, RemovalInv, Accounted, UploadType
<1>3. image' \in [Paths -> File] /\ \A q \in Paths : image'[q] = IF q = p THEN Create(image[p], n, n) ELSE image[q]
  BY <1>0, CreateFile DEF ImagesInv, ImagesType, Uploads
<1>4. Create(image[p], n, n).of # 0
  BY CreateFile DEF ImagesInv, ImagesType, Uploads
<1>5. ImagesType'
  BY <1>0, <1>1, <1>3 DEF ImagesInv, ImagesType, UploadType
<1>6. FilesInv'
  BY <1>0, <1>3, <1>4 DEF ImagesInv, FilesInv
<1>7. \A q \in Paths : Gone(q, upload, logged, stripped) => Gone(q, upload', logged', stripped')
  BY <1>0, <1>2, GoneStays DEF ImagesInv, ImagesType
<1>8. RemovalInv'
  <2>1. ASSUME NEW m \in Uploads, upload'[m].at # "none"
        PROVE  upload'[m].path \in Paths /\ (Exists(image'[upload'[m].path]) 
             \/ Gone(upload'[m].path, upload', logged', stripped'))
    <3>1. CASE m = n
      BY <1>2, <1>3, <1>4, <3>1 DEF Exists
    <3>2. CASE m # n
      <4>1. upload'[m] = upload[m]
        BY <1>2, <3>2
      <4>2. upload[m].path \in Paths /\ (Exists(image[upload[m].path]) 
             \/ Gone(upload[m].path, upload, logged, stripped))
        BY <2>1, <4>1 DEF ImagesInv, RemovalInv, Accounted
      <4>3. Exists(image[upload[m].path]) => Exists(image'[upload[m].path])
        BY <1>3, <1>4, <4>2 DEF Exists
      <4>4. QED
        BY <1>7, <4>1, <4>2, <4>3
    <3>3. QED
      BY <3>1, <3>2
  <2>2. removing'.left # <<>> => removing'.path \in Paths /\ Gone(removing'.path, upload', logged', stripped')
    BY <1>0, <1>7 DEF ImagesInv, RemovalInv, Accounted
  <2>3. \A m \in posted' : upload'[m].at = "done"
    BY <1>0, <1>2 DEF ImagesInv, ImagesType, RemovalInv, Accounted
  <2>4. QED
    BY <1>0, <2>1, <2>2, <2>3 DEF ImagesInv, RemovalInv, Accounted
<1>9. QED
  BY <1>5, <1>6, <1>8 DEF ImagesInv

LEMMA CopyKeepsInv ==
    ASSUME ImagesInv, NEW n \in Uploads, UploadCopy(n)
    PROVE  ImagesInv'
<1> DEFINE p == upload[n].path
<1>1. PICK whole \in BOOLEAN : image' = [image EXCEPT ![p] = Written(@, n, whole, n)]
  BY DEF UploadCopy
<1>2. /\ upload[n].at = "copy" /\ upload' = [upload EXCEPT ![n].at = "push"]
      /\ UNCHANGED <<thumb, queue, worker, posted, logged, stripped, removing>>
  BY DEF UploadCopy, UploadAt, postVars
<1>3. p \in Paths
  BY <1>2 DEF ImagesInv, RemovalInv, Accounted
<1> DEFINE f == image[p]
           g == Written(f, n, whole, n)
<1>4. f \in File /\ (f.of = 0 => f.open = {})
  BY <1>3, InvParts DEF ThumbInv
<1> HIDE DEF f
<1>a. n \in Nat /\ (n # 0 \/ n \notin f.open)
  BY DEF Uploads
<1>5. g \in File /\ (g.of = 0 <=> f.of = 0) /\ (g.of = 0 => g.open = {})
  <2>1. CASE n \in f.open
    BY <1>4, <1>a, <2>1 DEF Written, File
  <2>2. CASE n \notin f.open
    BY <1>4, <2>2 DEF Written
  <2>3. QED
    BY <2>1, <2>2
<1>6. image' \in [Paths -> File] /\ \A q \in Paths : image'[q] = IF q = p THEN g ELSE image[q]
  BY <1>1, <1>5, InvParts DEF ThumbInv, f
<1> HIDE DEF g
<1>7. ThumbInv(image') /\ \A q \in Paths : Exists(image[q]) => Exists(image'[q])
  BY <1>5, <1>6, InvParts DEF ThumbInv, Exists, f
<1>8. queue' \in Seq(Paths)
  BY <1>2 DEF ImagesInv, ImagesType
<1>9. QED
  BY <1>2, <1>7, <1>8, UploadGoesOn

LEMMA PushKeepsInv ==
    ASSUME ImagesInv, NEW n \in Uploads, UploadPush(n)
    PROVE  ImagesInv'
<1>1. /\ upload[n].at = "push" /\ upload' = [upload EXCEPT ![n].at = "post"]
      /\ UNCHANGED <<image, thumb, worker, posted, logged, stripped, removing>>
  BY DEF UploadPush, UploadAt, postVars, fileVars
<1>2. upload[n].path \in Paths
  BY <1>1 DEF ImagesInv, RemovalInv, Accounted
<1>3. queue' \in Seq(Paths)
  BY <1>2, PushType DEF UploadPush, ImagesInv, ImagesType
<1>4. ThumbInv(image') /\ \A q \in Paths : Exists(image[q]) => Exists(image'[q])
  BY <1>1, InvParts
<1>5. QED
  BY <1>1, <1>3, <1>4, UploadGoesOn

LEMMA PostKeepsInv ==
    ASSUME ImagesInv, NEW n \in Uploads, UploadPost(n)
    PROVE  ImagesInv'
<1>1. /\ upload[n].at = "post" /\ upload' = [upload EXCEPT ![n].at = "done"]
      /\ posted' = posted \/ posted' = posted \cup {n}
      /\ UNCHANGED <<image, thumb, queue, worker, logged, stripped, removing>>
  BY DEF UploadPost, UploadAt, fileVars
<1>2. ThumbInv(image') /\ \A q \in Paths : Exists(image[q]) => Exists(image'[q])
  BY <1>1, InvParts
<1>3. queue' \in Seq(Paths)
  BY <1>1 DEF ImagesInv, ImagesType
<1>4. QED
  BY <1>1, <1>2, <1>3, UploadGoesOn

LEMMA DeleteKeepsInv ==
    ASSUME ImagesInv, NEW n \in Uploads, NEW imageOnly \in BOOLEAN, DeletePost(n, imageOnly)
    PROVE  ImagesInv'
<1>1. n \in posted /\ UNCHANGED <<image, thumb, queue, worker, upload, posted>>
  BY DEF DeletePost, fileVars
<1>2. /\ logged' \in {logged, logged \cup {n}} /\ stripped' \in {stripped, stripped \cup {n}}
      /\ \/ removing' = removing
         \/ /\ removing' = [path |-> upload[n].path, left |-> <<"image", "thumb">>]
            /\ n \in logged' \cup stripped'
  BY DEF DeletePost, OnImageDelete, AppendError, RemovalOrder
<1>3. upload[n].path \in Paths
  BY <1>1 DEF ImagesInv, RemovalInv, Accounted
<1>4. ImagesType'
  BY <1>1, <1>2, <1>3 DEF ImagesInv, ImagesType, AnyPath
<1>5. FilesInv'
  BY <1>1 DEF ImagesInv, FilesInv
<1>6. \A q \in Paths : Gone(q, upload, logged, stripped) => Gone(q, upload', logged', stripped')
  BY <1>1, <1>2, GoneStays
<1>7. RemovalInv'
  <2>1. removing'.left # <<>> =>
           removing'.path \in Paths /\ Gone(removing'.path, upload', logged', stripped')
    <3>1. CASE removing' = removing
      BY <1>6, <3>1 DEF ImagesInv, RemovalInv, Accounted
    <3>2. CASE /\ removing' = [path |-> upload[n].path, left |-> <<"image", "thumb">>]
               /\ n \in logged' \cup stripped'
      BY <1>1, <1>3, <3>2 DEF Gone
    <3>3. QED
      BY <1>2, <3>1, <3>2
  <2>2. \A m \in Uploads : upload'[m].at # "none" =>
           /\ upload'[m].path \in Paths
           /\ Exists(image'[upload'[m].path]) \/ Gone(upload'[m].path, upload', logged', stripped')
    BY <1>1, <1>6 DEF ImagesInv, RemovalInv, Accounted
  <2>3. (\A m \in posted' : upload'[m].at = "done") /\ logged' \cup stripped' \subseteq posted'
    BY <1>1, <1>2 DEF ImagesInv, RemovalInv, Accounted
  <2>4. QED
    BY ONLY <2>1, <2>2, <2>3 DEF RemovalInv, Accounted
<1>8. QED
  BY <1>4, <1>5, <1>7 DEF ImagesInv

LEMMA RemoveKeepsInv ==
    ASSUME ImagesInv, RemoveFile
    PROVE  ImagesInv'
<1> DEFINE p == removing.path
<1>1. p \in Paths /\ Gone(p, upload, logged, stripped)
  BY DEF RemoveFile, ImagesInv, RemovalInv, Accounted
<1>2. /\ image' = [image EXCEPT ![p] = NoFile] \/ image' = image
      /\ thumb' = [thumb EXCEPT ![p] = NoFile] \/ thumb' = thumb
      /\ UNCHANGED <<queue, worker, upload, posted, logged, stripped>>
  BY DEF RemoveFile, postVars
<1>3. removing' = NotRemoving \/ removing' = [removing EXCEPT !.left = <<"thumb">>]
  <2>1. removing.left = <<"thumb">> \/ removing.left = <<"image", "thumb">>
    BY DEF RemoveFile, ImagesInv, ImagesType
  <2>a. Tail(<<"thumb">>) = <<>> /\ Tail(<<"image", "thumb">>) = <<"thumb">>
    OBVIOUS
  <2>2. Tail(removing.left) = <<>> \/ Tail(removing.left) = <<"thumb">>
    BY <2>1, <2>a, Zenon
  <2>3. QED
    BY <2>2 DEF RemoveFile
<1>4. ThumbInv(image') /\ \A q \in Paths \ {p} : image'[q] = image[q]
  BY <1>2, InvParts, NoFileIsFile DEF ThumbInv
<1>5. ThumbInv(thumb')
  BY <1>2, InvParts, NoFileIsFile DEF ThumbInv
<1>6. removing' \in [path : AnyPath, left : {<<>>, <<"thumb">>, <<"image", "thumb">>}]
  BY <1>3 DEF ImagesInv, ImagesType, NotRemoving, AnyPath
<1>7. ImagesType'
  BY <1>2, <1>4, <1>5, <1>6 DEF ImagesInv, ImagesType, ThumbInv
<1>8. FilesInv'
  BY <1>2, <1>4, <1>5 DEF ImagesInv, FilesInv, ThumbInv
<1>9. RemovalInv'
  <2>1. removing'.left # <<>> => removing'.path = p
    BY <1>3 DEF NotRemoving, ImagesInv, ImagesType
  <2>2. \A m \in Uploads : upload[m].at # "none" =>
           /\ upload[m].path \in Paths
           /\ Exists(image'[upload[m].path]) \/ Gone(upload[m].path, upload, logged, stripped)
    BY <1>1, <1>4 DEF ImagesInv, RemovalInv, Accounted
  <2>3. (\A m \in posted : upload[m].at = "done") /\ logged \cup stripped \subseteq posted
    BY DEF ImagesInv, RemovalInv, Accounted
  <2>4. QED
    BY <1>1, <1>2, <2>1, <2>2, <2>3 DEF RemovalInv, Accounted
<1>10. QED
  BY <1>7, <1>8, <1>9 DEF ImagesInv

LEMMA RestartKeepsInv ==
    ASSUME ImagesInv, ImagesRestart
    PROVE  ImagesInv'
<1>1. UploadType(upload')
  BY DEF ImagesRestart, ImagesInv, ImagesType, UploadType
<1>2. \A n \in Uploads : /\ upload'[n].path = upload[n].path
                         /\ upload'[n].at = IF upload[n].at = "none" THEN "none" ELSE "done"
  BY DEF ImagesRestart, ImagesInv, ImagesType
<1>3. ThumbInv(image') /\ ThumbInv(thumb')
  BY InvParts, ZenonT(30) DEF ImagesRestart, ThumbInv, Closed, File
<1>4. \A p \in Paths : Exists(image[p]) => Exists(image'[p])
  BY InvParts DEF ImagesRestart, ThumbInv, Closed, File, Exists
<1>5. /\ queue' = <<>> /\ worker' = [w \in ImageWorkers |-> Idle]
      /\ removing' = NotRemoving /\ UNCHANGED <<posted, logged, stripped>>
  BY DEF ImagesRestart, postVars
<1>6. WorkerType(worker') /\ WorkerInv(worker')
  BY <1>5 DEF WorkerType, WorkerInv, Idle, AnyPath
<1>7. ImagesType'
  BY <1>1, <1>3, <1>5, <1>6
     DEF ImagesInv, ImagesType, UploadType, WorkerType, ThumbInv, NotRemoving, AnyPath
<1>8. FilesInv'
  BY <1>3, <1>6 DEF FilesInv, ThumbInv, WorkerInv
<1>9. RemovalInv'
  <2>1. posted \subseteq Uploads
    BY DEF ImagesInv, ImagesType
  <2>2. \A p \in Paths : Gone(p, upload, logged, stripped) => Gone(p, upload', logged', stripped')
    BY <1>2, <1>5, <2>1, GoneStays
  <2>3. \A m \in Uploads : upload'[m].at # "none" =>
           /\ upload'[m].path \in Paths
           /\ Exists(image'[upload'[m].path]) \/ Gone(upload'[m].path, upload', logged', stripped')
    BY <1>2, <1>4, <2>2 DEF ImagesInv, RemovalInv, Accounted
  <2>4. (\A m \in posted' : upload'[m].at = "done") /\ logged' \cup stripped' \subseteq posted'
    BY <1>2, <1>5, <2>1 DEF ImagesInv, RemovalInv, Accounted
  <2>5. removing'.left = <<>>
    BY <1>5 DEF NotRemoving
  <2>6. QED
    BY ONLY <2>3, <2>4, <2>5 DEF RemovalInv, Accounted
<1>10. QED
  BY <1>7, <1>8, <1>9 DEF ImagesInv

LEMMA ImagesKeepInv ==
    ASSUME ImagesInv, ImagesStep
    PROVE  ImagesInv'
<1>1. CASE ImagesNext
  BY <1>1, CreateKeepsInv, CopyKeepsInv, PushKeepsInv, PostKeepsInv, ImageKeepsInv, JobKeepsInv,
     RemoveKeepsInv DEF ImagesNext
<1>2. CASE \E n \in Uploads, imageOnly \in BOOLEAN : DeletePost(n, imageOnly)
  BY <1>2, DeleteKeepsInv
<1>3. CASE ImagesRestart
  BY <1>3, RestartKeepsInv
<1>4. CASE UNCHANGED <<fileVars, queue, worker, upload, postVars, removing>>
  BY <1>4 DEF fileVars, postVars, ImagesInv, ImagesType, FilesInv, RemovalInv
<1>5. QED
  BY <1>1, <1>2, <1>3, <1>4 DEF ImagesStep

----------------------------------------------------------------------------
(* The properties.                                                         *)

LEMMA InvImpliesRemovedIsLogged == ImagesInv => RemovedIsLogged
<1> SUFFICES ASSUME ImagesInv, NEW n \in posted, ~ Exists(image[upload[n].path])
             PROVE  \E m \in logged \cup stripped : upload[m].path = upload[n].path
  BY DEF RemovedIsLogged
<1>1. n \in Uploads /\ upload[n].at = "done"
  BY DEF ImagesInv, ImagesType, RemovalInv, Accounted
<1>2. QED
  BY <1>1 DEF ImagesInv, RemovalInv, Accounted, Gone

\* A thumbnail begins to be in CreateThumb alone, and an image ends in
\* RemoveFile alone, which goes on with the thumbnail.
Overlap(p) ==
    \/ removing.path = p /\ removing'.path = p
    \/ \E w \in ImageWorkers : worker[w].at = "create" /\ worker[w].path = p

LEMMA StepOrphans ==
    ASSUME ImagesInv, ImagesStep, NEW p \in Paths, Orphan(p)', ~ Orphan(p)
    PROVE  Overlap(p)
<1>0. Exists(thumb'[p]) /\ ~ Exists(image'[p]) /\ (Exists(thumb[p]) => Exists(image[p]))
  BY DEF Orphan
<1>1. ASSUME UNCHANGED <<image, thumb>> PROVE FALSE
  BY <1>0, <1>1
<1>2. ASSUME Exists(thumb[p]), Exists(image'[p]) \/ ~ Exists(image[p]) PROVE FALSE
  BY <1>0, <1>2
<1>3. CASE ImagesNext
  <2>1. ASSUME NEW n \in Uploads,
               UploadCopy(n) \/ \E q \in Paths, content \in Contents : UploadCreate(n, q, content)
        PROVE  FALSE
    <3>1. thumb' = thumb
      BY <2>1 DEF UploadCopy, UploadCreate
    <3>2. Exists(image[p]) /\ ~ Exists(image'[p]) /\ image[p] \in File /\ n # 0
      BY <1>0, <3>1, InvParts DEF ThumbInv, Uploads
    <3>3. ASSUME NEW q, NEW f, f.of # 0, image' = [image EXCEPT ![q] = f]
          PROVE  FALSE
      BY <3>2, <3>3, InvParts DEF ThumbInv, Exists
    <3>4. ASSUME NEW q \in Paths, NEW content \in Contents, UploadCreate(n, q, content)
          PROVE  FALSE
      <4>1. Create(image[q], n, n).of # 0
        BY <3>2 DEF Create
      <4>2. QED
        BY <3>3, <3>4, <4>1 DEF UploadCreate
    <3>5. CASE UploadCopy(n)
      <4> DEFINE q == upload[n].path
      <4>1. PICK whole : image' = [image EXCEPT ![q] = Written(@, n, whole, n)]
        BY <3>5 DEF UploadCopy
      <4>2. CASE n \in image[q].open
        <5>1. Written(image[q], n, whole, n).of # 0
          BY <3>2, <4>2 DEF Written
        <5>2. QED
          BY <3>3, <4>1, <5>1
      <4>3. CASE n \notin image[q].open
        BY <3>2, <4>1, <4>3, InvParts DEF Written, ThumbInv
      <4>4. QED
        BY <4>2, <4>3
    <3>6. QED
      BY <2>1, <3>4, <3>5
  <2>2. CASE \E n \in Uploads : UploadPush(n) \/ UploadPost(n)
    BY <1>1, <2>2 DEF UploadPush, UploadPost, fileVars
  <2>3. CASE \E q \in Paths : Image(q)
    BY <1>1, <2>3 DEF Image, fileVars
  <2>4. ASSUME NEW w \in ImageWorkers, Job(w) PROVE Overlap(p)
    <3> DEFINE g == thumb[p]
               v == worker[w]
    <3>1. image' = image /\ ~ Exists(g) /\ g.open = {} /\ g \in File
      <4>1. image' = image
        BY <2>4 DEF Job, Take, StatThumb, Decode, CreateThumb, Encode, DiskError, Sleep, fileVars
      <4>2. ~ Exists(g)
        BY <1>0, <4>1
      <4>3. QED
        BY <4>1, <4>2, InvParts DEF ThumbInv, Exists
    <3>2. CASE CreateThumb(w)
      <4>1. v.at = "create" /\ thumb' = [thumb EXCEPT ![v.path] = Create(@, v.of, w)]
        BY <3>2 DEF CreateThumb, WorkerAt
      <4>2. v.path = p
        BY <1>0, <3>1, <4>1, InvParts DEF ThumbInv
      <4>3. QED
        BY <4>1, <4>2 DEF Overlap
    <3>3. ASSUME NEW n, NEW whole, thumb' = [thumb EXCEPT ![v.path] = Written(@, n, whole, w)]
          PROVE  FALSE
      <4>1. v.path = p => thumb'[p] = g
        BY <3>1, <3>3, InvParts DEF ThumbInv, Written
      <4>2. v.path # p => thumb'[p] = g
        BY <3>3, InvParts DEF ThumbInv
      <4>3. QED
        BY <1>0, <3>1, <4>1, <4>2
    <3>4. CASE Encode(w)
      BY <3>3, <3>4 DEF Encode
    <3>5. CASE DiskError(w)
      <4>1. CASE thumb' = thumb
        BY <1>1, <3>1, <4>1
      <4>2. CASE thumb' = [thumb EXCEPT ![v.path] = Written(@, @.of, @.whole, w)]
        BY <3>3, <4>2
      <4>3. QED
        BY <3>5, <4>1, <4>2 DEF DiskError
    <3>6. CASE Take(w) \/ StatThumb(w) \/ Decode(w) \/ Sleep(w)
      BY <1>1, <3>6 DEF Take, StatThumb, Decode, Sleep, fileVars
    <3>7. QED
      BY <2>4, <3>2, <3>4, <3>5, <3>6 DEF Job
  <2>5. CASE RemoveFile
    <3> DEFINE q == removing.path
               rest == Tail(removing.left)
    <3>1. CASE Head(removing.left) = "image"
      <4>1. thumb' = thumb /\ image' = [image EXCEPT ![q] = NoFile]
        BY <2>5, <3>1 DEF RemoveFile
      <4>2. p = q
        BY <1>0, <4>1, InvParts DEF ThumbInv
      <4>3. removing.left = <<"image", "thumb">>
        BY <2>5, <3>1 DEF RemoveFile, ImagesInv, ImagesType
      <4>4. rest # <<>>
        BY <4>3
      <4>5. removing' = [removing EXCEPT !.left = rest]
        BY <2>5, <4>4 DEF RemoveFile
      <4>6. removing'.path = q
        BY <4>5 DEF ImagesInv, ImagesType
      <4>7. QED
        BY <4>2, <4>6 DEF Overlap
    <3>2. CASE Head(removing.left) # "image"
      <4>1. image' = image /\ thumb' = [thumb EXCEPT ![q] = NoFile]
        BY <2>5, <3>2 DEF RemoveFile
      <4>2. QED
        BY <1>0, <4>1, InvParts, NoFileIsFile DEF ThumbInv, Exists
    <3>3. QED
      BY <3>1, <3>2
  <2>6. QED
    BY <1>3, <2>1, <2>2, <2>3, <2>4, <2>5 DEF ImagesNext
<1>4. CASE \E n \in Uploads, imageOnly \in BOOLEAN : DeletePost(n, imageOnly)
  BY <1>1, <1>4 DEF DeletePost, fileVars
<1>5. CASE ImagesRestart
  <2>1. \A q \in Paths : (Exists(image'[q]) <=> Exists(image[q])) /\ (Exists(thumb'[q]) <=> Exists(thumb[q]))
    BY <1>5, InvParts DEF ImagesRestart, ThumbInv, Closed, File, Exists
  <2>2. QED
    BY <1>0, <2>1
<1>6. CASE UNCHANGED <<fileVars, queue, worker, upload, postVars, removing>>
  BY <1>1, <1>6 DEF fileVars
<1>7. QED
  BY <1>3, <1>4, <1>5, <1>6 DEF ImagesStep

----------------------------------------------------------------------------

(***************************************************************************)
(* The requests, and the theorems about all of Moderation.                 *)
(***************************************************************************)

Request ==
    [at : {"idle", "subject", "lines", "delete", "update"}, user : Users \cup {NoRequest.user},
     subject : {"", "append", "announce"}, lines : Seq(Lines), opcode : BOOLEAN]

Configs == [Settings -> Int]

SettingsType ==
    /\ conf \in Configs /\ configStr \in Configs \cup {NotSaved}
    /\ limit \in Int /\ limitLog \in Int
    /\ loose \in BOOLEAN

RequestsInv ==
    /\ req \in [Requests -> Request]
    /\ \A r \in Requests : req[r].at \in {"idle", "subject"} => ~ req[r].opcode

\* What a restart makes of the log is what is in effect, as far as
\* CorrectValues leaves it alone.
Agree(c, str) ==
    \A s \in Settings : s \notin Numbers \/ c[s] \in 1..Half => LoadConfig(str)[s] = c[s]

\* A command that was performed and not yet saved is one of a request that
\* goes on.
SavedInv ==
    /\ ~ loose /\ (\A r \in Requests : ~ req[r].opcode) => Agree(conf, configStr)
    /\ limit \in 0..(2 * Half - 1) => limitLog = limit

SettingsInv == SettingsType /\ RequestsInv /\ SavedInv

----------------------------------------------------------------------------
(* CorrectValues.                                                          *)

LEMMA CheckIntKeeps ==
    ASSUME NEW i \in Int, NEW v \in Int
    PROVE  CheckInt(i, v) \in Int /\ (i \in 1..Half => CheckInt(i, v) = i)
<1> DEFINE m == (i - 1) % (2 * Half)
           d == m \div Half
<1>1. Half \in Nat /\ Half > 1 /\ 2 * Half \in Nat /\ 2 * Half > 0
  BY ModerationAssumption
<1>2. m \in Int /\ d \in Int
  BY <1>1
<1>3. i \in 1..Half => m = i - 1
  BY <1>1
<1>4. i \in 1..Half => d = 0
  BY <1>1, <1>3
<1>5. CheckInt(i, v) = v * d + i
  BY DEF CheckInt
<1> HIDE DEF m, d
<1>6. v * d \in Int /\ (d = 0 => v * d = 0)
  BY <1>2
<1>7. QED
  BY <1>4, <1>5, <1>6

LEMMA CorrectKeeps ==
    ASSUME NEW c \in Configs
    PROVE  /\ CorrectValues(c) \in Configs
           /\ \A s \in Settings : s \notin Numbers \/ c[s] \in 1..Half => CorrectValues(c)[s] = c[s]
<1>1. \A s \in Settings : c[s] \in Int
  BY DEF Configs
<1>2. \A s \in Numbers : s \in Settings /\ Default[s] \in Int
  BY ModerationAssumption DEF Settings
<1>3. QED
  BY <1>1, <1>2, CheckIntKeeps DEF CorrectValues, Configs

\* A configuration that was saved is read back.
LEMMA SavedAgrees ==
    ASSUME NEW c \in Configs
    PROVE  Agree(c, c)
<1>1. c # NotSaved
  BY ModerationAssumption DEF Configs
<1>2. QED
  BY <1>1, CorrectKeeps DEF Agree, LoadConfig

LEMMA LoadedAgrees ==
    ASSUME NEW str \in Configs \cup {NotSaved}
    PROVE  LoadConfig(str) \in Configs /\ Agree(LoadConfig(str), str)
<1>1. ZeroConfig \in Configs
  BY DEF ZeroConfig, Configs
<1>2. QED
  BY <1>1, CorrectKeeps DEF LoadConfig, Agree

----------------------------------------------------------------------------
(* Steps of a request.                                                     *)

LEMMA SetConfig ==
    ASSUME NEW c \in Configs, NEW s, NEW i, s \in Settings => i \in Int
    PROVE  [c EXCEPT ![s] = i] \in Configs
<1>1. CASE s \in Settings
  BY <1>1 DEF Configs
<1>2. CASE s \notin Settings
  BY <1>2 DEF Configs
<1>3. QED
  BY <1>1, <1>2

LEMMA HeadLine ==
    ASSUME RequestsInv, NEW r \in Requests, req[r].lines # <<>>
    PROVE  Head(req[r].lines) \in Lines /\ Tail(req[r].lines) \in Seq(Lines)
<1>1. req[r].lines \in Seq(Lines)
  BY DEF RequestsInv, Request
<1>2. QED
  BY <1>1

\* A request that goes on or ends
LEMMA RequestGoesOn ==
    ASSUME RequestsInv, NEW r \in Requests, NEW q \in Request,
           q.at \in {"idle", "subject"} => ~ q.opcode, req' = [req EXCEPT ![r] = q]
    PROVE  RequestsInv'
BY DEF RequestsInv

LEMMA NoRequestIsRequest == NoRequest \in Request /\ NoRequest.at = "idle" /\ ~ NoRequest.opcode
<1>1. <<>> \in Seq(Lines)
  OBVIOUS
<1>2. QED
  BY <1>1 DEF NoRequest, Request

\* As long as a performed command is not saved, there is nothing to show.
LEMMA PerformedKeepsInv ==
    ASSUME SettingsInv, NEW r \in Requests, NEW at \in {"lines", "delete"}, Performed(r, at),
           req[r].lines # <<>>, SettingsType', limit' \in 0..(2 * Half - 1) => limitLog' = limit'
    PROVE  SettingsInv'
<1>1. req \in [Requests -> Request] /\ Tail(req[r].lines) \in Seq(Lines)
  BY HeadLine DEF SettingsInv, RequestsInv
<1> DEFINE q == req[r]
           q1 == [q EXCEPT !.at = at]
           q2 == [q1 EXCEPT !.lines = Tail(q.lines)]
           q3 == [q2 EXCEPT !.opcode = TRUE]
<1>a. q1 \in Request /\ q1.at = at /\ q1.lines = q.lines
  BY <1>1 DEF Request
<1>b. q2 \in Request /\ q2.at = at
  BY <1>1, <1>a DEF Request
<1>c. q3 \in Request /\ q3.at = at /\ q3.opcode
  BY <1>b DEF Request
<1>d. req' = [req EXCEPT ![r] = q3]
  BY <1>1, <1>a DEF Performed
<1> HIDE DEF q3
<1>2. req' \in [Requests -> Request]
  BY <1>1, <1>c, <1>d
<1>3. req'[r].opcode /\ req'[r].at = at /\ \A s \in Requests \ {r} : req'[s] = req[s]
  BY <1>1, <1>c, <1>d
<1>4. RequestsInv'
  BY <1>2, <1>3 DEF SettingsInv, RequestsInv
<1>5. QED
  BY <1>3, <1>4 DEF SettingsInv, SavedInv

\* A request of which no performed command is forgotten, and no setting.
LEMMA NothingForgotten ==
    ASSUME SettingsInv, NEW r \in Requests, NEW q \in Request,
           q.at \in {"idle", "subject"} => ~ q.opcode, req' = [req EXCEPT ![r] = q],
           ~ loose' => ~ loose /\ (req[r].opcode => q.opcode), loose' \in BOOLEAN,
           UNCHANGED <<conf, configStr, limit, limitLog>>
    PROVE  SettingsInv'
<1>1. RequestsInv'
  BY RequestGoesOn DEF SettingsInv
<1>2. SettingsType'
  BY DEF SettingsInv, SettingsType
<1>3. ASSUME ~ loose', \A s \in Requests : ~ req'[s].opcode
      PROVE  ~ loose /\ \A s \in Requests : ~ req[s].opcode
  BY <1>3 DEF SettingsInv, RequestsInv
<1>4. SavedInv'
  BY <1>3 DEF SettingsInv, SavedInv
<1>5. QED
  BY <1>1, <1>2, <1>4 DEF SettingsInv

LEMMA RequestKeepsInv ==
    ASSUME SettingsInv, NEW r \in Requests, Step(r)
    PROVE  SettingsInv'
<1> DEFINE q == req[r]
<1>0. /\ q \in Request /\ (q.at \in {"idle", "subject"} => ~ q.opcode)
      /\ conf \in Configs /\ limit \in Int /\ limitLog \in Int /\ loose \in BOOLEAN
      /\ limit \in 0..(2 * Half - 1) => limitLog = limit
  BY DEF SettingsInv, SettingsType, RequestsInv, SavedInv
<1>1. CASE modCode(r)
  <2>1. PICK u \in Users, message \in Messages :
           req' = [req EXCEPT ![r] = [at |-> "subject", user |-> u, subject |-> message.subject,
                                      lines |-> message.lines, opcode |-> FALSE]]
    BY <1>1 DEF modCode
  <2>2. q.at = "idle" /\ UNCHANGED settingVars
    BY <1>1 DEF modCode
  <2>3. [at |-> "subject", user |-> u, subject |-> message.subject,
         lines |-> message.lines, opcode |-> FALSE] \in Request
    BY MessagesAssumption DEF Request
  <2>4. QED
    BY <1>0, <2>1, <2>2, <2>3, NothingForgotten DEF settingVars
<1>2. CASE Subject(r)
  <2> DEFINE command == q.subject # "" /\ Can(r, "APPEND_ANNOUNCE")
  <2>1. q.at = "subject" /\ UNCHANGED <<configStr, limit, limitLog, loose>>
    BY <1>2 DEF Subject
  <2>2. CASE ~ command
    <3> DEFINE u == [q EXCEPT !.at = "lines"]
    <3>1. req' = [req EXCEPT ![r] = u] /\ conf' = conf
      BY <1>2, <2>2 DEF Subject
    <3>2. u \in Request /\ u.opcode = q.opcode /\ u.at = "lines"
      BY <1>0 DEF Request
    <3> HIDE DEF u
    <3>3. QED
      BY <1>0, <2>1, <3>1, <3>2, NothingForgotten
  <2>3. CASE command /\ q.subject = "append"
    <3>1. req' = [req EXCEPT ![r] = NoRequest] /\ conf' = conf
      BY <1>2, <2>3 DEF Subject
    <3>2. QED
      BY <1>0, <2>1, <3>1, NoRequestIsRequest, NothingForgotten
  <2>4. CASE command /\ q.subject = "announce"
    <3> DEFINE u == [q EXCEPT !.at = "update", !.opcode = TRUE]
    <3>1. req' = [req EXCEPT ![r] = u] /\ conf' = [conf EXCEPT !["announcement"] = 1 - conf["announcement"]]
      BY <1>2, <2>4 DEF Subject
    <3>2. u \in Request /\ u.opcode /\ u.at = "update"
      BY <1>0 DEF Request
    <3> HIDE DEF u
    <3>3. conf' \in Configs
      <4>1. "announcement" \in Settings => 1 - conf["announcement"] \in Int
        BY <1>0 DEF Configs
      <4>2. QED
        BY <1>0, <3>1, <4>1, SetConfig
    <3>4. RequestsInv'
      BY <3>1, <3>2, RequestGoesOn DEF SettingsInv
    <3>5. req'[r].opcode
      BY <3>1, <3>2 DEF SettingsInv, RequestsInv
    <3>6. SettingsType'
      BY <2>1, <3>3 DEF SettingsInv, SettingsType
    <3>7. SavedInv'
      BY <1>0, <2>1, <3>5 DEF SavedInv
    <3>8. QED
      BY <3>4, <3>6, <3>7 DEF SettingsInv
  <2>5. QED
    BY <1>0, <2>2, <2>3, <2>4 DEF Request
<1>3. CASE Denied(r)
  <2>1. req' = [req EXCEPT ![r] = NoRequest] /\ loose' = (loose \/ q.opcode)
        /\ UNCHANGED <<conf, configStr, limit, limitLog>>
    BY <1>3 DEF Denied
  <2>2. loose' \in BOOLEAN /\ (~ loose' => ~ loose /\ ~ q.opcode)
    BY <2>1
  <2>3. QED
    BY <2>1, <2>2, NoRequestIsRequest, NothingForgotten
<1>p. ASSUME NEW op \in Panicking, Panics(r, op) PROVE SettingsInv'
  <2>1. req' = [req EXCEPT ![r] = NoRequest] /\ loose' = (loose \/ q.opcode)
        /\ UNCHANGED <<conf, configStr, limit, limitLog>>
    BY <1>p DEF Panics
  <2>2. loose' \in BOOLEAN /\ (~ loose' => ~ loose /\ ~ q.opcode)
    BY <2>1
  <2>3. QED
    BY <2>1, <2>2, NoRequestIsRequest, NothingForgotten
<1>4. CASE Moat(r)
  <2>1. Performed(r, "lines") /\ q.lines # <<>> /\ UNCHANGED <<configStr, limit, limitLog, loose>>
    BY <1>4 DEF Moat, At
  <2> DEFINE f == Head(q.lines).arg
  <2>a. conf' = IF f \in Flags THEN [conf EXCEPT ![f] = 1 - conf[f]] ELSE conf
    BY <1>4 DEF Moat
  <2>b. f \in Settings => 1 - conf[f] \in Int
    BY <1>0 DEF Configs
  <2> HIDE DEF f
  <2>2. conf' \in Configs
    BY <1>0, <2>a, <2>b, SetConfig
  <2>3. SettingsType'
    BY <2>1, <2>2 DEF SettingsInv, SettingsType
  <2>4. QED
    BY <1>0, <2>1, <2>3, PerformedKeepsInv
<1>5. CASE SetMaxLiveTopics(r)
  <2> DEFINE num == Head(q.lines).arg
  <2>1. /\ Performed(r, "lines") /\ q.lines # <<>> /\ Head(q.lines).op = "max-live-topics"
        /\ UNCHANGED <<conf, configStr, loose>>
        /\ \/ limit' = num /\ limitLog' = num % (2 * Half)
           \/ UNCHANGED <<limit, limitLog>>
    BY <1>5 DEF SetMaxLiveTopics, At
  <2>2. num \in Int
    BY <2>1, HeadLine, MessagesAssumption DEF SettingsInv
  <2>3. num % (2 * Half) \in Int /\ (num \in 0..(2 * Half - 1) => num % (2 * Half) = num)
    BY <2>2, ModerationAssumption
  <2> HIDE DEF num
  <2>4. SettingsType'
    BY <2>1, <2>2, <2>3 DEF SettingsInv, SettingsType
  <2>5. limit' \in 0..(2 * Half - 1) => limitLog' = limit'
    BY <1>0, <2>1, <2>3
  <2>6. QED
    BY <2>1, <2>4, <2>5, PerformedKeepsInv
<1>6. ASSUME NEW s \in Settings, Set(r, s) PROVE SettingsInv'
  <2>1. /\ Performed(r, "lines") /\ q.lines # <<>> /\ UNCHANGED <<configStr, limit, limitLog, loose>>
        /\ Head(q.lines).op = s /\ s \in Numbers \cup Texts
        /\ conf' = [conf EXCEPT ![s] = Head(q.lines).arg]
    BY <1>6 DEF Set, At
  <2>2. Head(q.lines).arg \in Int
    BY <2>1, HeadLine, MessagesAssumption DEF SettingsInv
  <2>3. SettingsType'
    BY <2>1, <2>2 DEF SettingsInv, SettingsType, Configs
  <2>4. QED
    BY <1>0, <2>1, <2>3, PerformedKeepsInv
<1>7. ASSUME NEW op \in StoreCommands, StoreCommand(r, op) PROVE SettingsInv'
  <2>1. Performed(r, "lines") /\ q.lines # <<>> /\ UNCHANGED <<conf, configStr, limit, limitLog, loose>>
    BY <1>7 DEF StoreCommand, At, settingVars
  <2>2. SettingsType'
    BY <2>1 DEF SettingsInv, SettingsType
  <2>3. QED
    BY <1>0, <2>1, <2>2, PerformedKeepsInv
<1>8. ASSUME NEW op \in DeleteCommands, Delete(r, op) PROVE SettingsInv'
  <2>1. /\ q.lines # <<>> /\ UNCHANGED <<conf, configStr, limit, limitLog, loose>>
        /\ Performed(r, "lines") \/ Performed(r, "delete")
    BY <1>8 DEF Delete, At, settingVars
  <2>2. SettingsType'
    BY <2>1 DEF SettingsInv, SettingsType
  <2>3. QED
    BY <1>0, <2>1, <2>2, PerformedKeepsInv
<1>9. CASE Deleted(r)
  <2>1. /\ q.at = "delete" /\ req' = [req EXCEPT ![r] = [q EXCEPT !.at = "lines"]]
        /\ UNCHANGED <<conf, configStr, limit, limitLog, loose>>
    BY <1>9 DEF Deleted, settingVars
  <2>2. [q EXCEPT !.at = "lines"] \in Request /\ [q EXCEPT !.at = "lines"].opcode = q.opcode
        /\ [q EXCEPT !.at = "lines"].at = "lines"
    BY <1>0 DEF Request
  <2>3. QED
    BY <1>0, <2>1, <2>2, NothingForgotten
<1>10. CASE Unknown(r)
  <2> DEFINE u == [q EXCEPT !.lines = Tail(@)]
  <2>1. /\ q.lines # <<>> /\ q.at = "lines" /\ req' = [req EXCEPT ![r] = u]
        /\ UNCHANGED <<conf, configStr, limit, limitLog, loose>>
    BY <1>10 DEF Unknown, settingVars
  <2>2. u \in Request /\ u.opcode = q.opcode /\ u.at = "lines"
    BY <1>0, <2>1, HeadLine DEF Request, SettingsInv
  <2> HIDE DEF u
  <2>3. QED
    BY <1>0, <2>1, <2>2, NothingForgotten
<1>11. CASE LastLine(r)
  <2>1. UNCHANGED <<conf, configStr, limit, limitLog, loose>>
    BY <1>11 DEF LastLine, settingVars
  <2>2. CASE q.opcode
    <3> DEFINE u == [q EXCEPT !.at = "update"]
    <3>1. u \in Request /\ u.opcode = q.opcode /\ u.at = "update"
      BY <1>0 DEF Request
    <3>2. req' = [req EXCEPT ![r] = u]
      BY <1>11, <2>2 DEF LastLine
    <3> HIDE DEF u
    <3>3. QED
      BY <1>0, <2>1, <2>2, <3>1, <3>2, NothingForgotten
  <2>3. CASE ~ q.opcode
    <3>1. req' = [req EXCEPT ![r] = NoRequest]
      BY <1>11, <2>3 DEF LastLine
    <3>2. QED
      BY <1>0, <2>1, <2>3, <3>1, NoRequestIsRequest, NothingForgotten
  <2>4. QED
    BY <2>2, <2>3
<1>12. CASE UpdateConfig(r)
  <2>1. req' = [req EXCEPT ![r] = NoRequest] /\ UNCHANGED <<limit, limitLog>>
    BY <1>12 DEF UpdateConfig
  <2>2. RequestsInv'
    BY <2>1, NoRequestIsRequest, RequestGoesOn DEF SettingsInv
  <2>3. CASE configStr' = conf /\ loose' = FALSE /\ conf' = conf
    <3>1. SettingsType'
      BY <1>0, <2>1, <2>3 DEF SettingsType
    <3>2. Agree(conf', configStr')
      BY <1>0, <2>3, SavedAgrees
    <3>3. SavedInv'
      BY <1>0, <2>1, <3>2 DEF SavedInv
    <3>4. QED
      BY <2>2, <3>1, <3>3 DEF SettingsInv
  <2>4. CASE conf' = Restored /\ loose' = (configStr = NotSaved) /\ configStr' = configStr
    <3>1. conf' \in Configs /\ (~ loose' => conf' = configStr)
      BY <1>0, <2>4 DEF Restored, SettingsInv, SettingsType
    <3>2. SettingsType'
      BY <1>0, <2>1, <2>4, <3>1 DEF SettingsInv, SettingsType
    <3>3. ~ loose' => Agree(conf', configStr')
      BY <2>4, <3>1, SavedAgrees
    <3>4. SavedInv'
      BY <1>0, <2>1, <3>3 DEF SavedInv
    <3>5. QED
      BY <2>2, <3>2, <3>4 DEF SettingsInv
  <2>5. QED
    BY <1>12, <2>3, <2>4 DEF UpdateConfig
<1>13. QED
  BY <1>1, <1>2, <1>3, <1>4, <1>5, <1>6, <1>7, <1>8, <1>9, <1>10, <1>11, <1>12, <1>p DEF Step

LEMMA RestartKeepsSettings ==
    ASSUME SettingsInv, Restart
    PROVE  SettingsInv'
<1>1. /\ conf' = LoadConfig(configStr) /\ limit' = limitLog /\ loose' = FALSE
      /\ req' = [r \in Requests |-> NoRequest] /\ UNCHANGED <<configStr, limitLog>>
  BY DEF Restart
<1>2. configStr \in Configs \cup {NotSaved} /\ limitLog \in Int
  BY DEF SettingsInv, SettingsType
<1>3. conf' \in Configs /\ Agree(conf', configStr)
  BY <1>1, <1>2, LoadedAgrees
<1>4. SettingsType' /\ SavedInv'
  BY <1>1, <1>2, <1>3 DEF SettingsType, SavedInv
<1>5. RequestsInv'
  BY <1>1, NoRequestIsRequest DEF RequestsInv
<1>6. QED
  BY <1>4, <1>5 DEF SettingsInv

LEMMA SettingsInit == ModerationInit => SettingsInv
<1> SUFFICES ASSUME ModerationInit PROVE SettingsInv
  OBVIOUS
<1>1. conf \in Configs /\ Agree(conf, NotSaved)
  BY LoadedAgrees DEF ModerationInit
<1>a. FirstLimit \in Int
  BY ModerationAssumption
<1>2. SettingsType
  BY <1>1, <1>a DEF ModerationInit, SettingsType
<1>3. RequestsInv
  BY NoRequestIsRequest DEF ModerationInit, RequestsInv
<1>4. SavedInv
  BY <1>1 DEF ModerationInit, SavedInv
<1>5. QED
  BY <1>2, <1>3, <1>4 DEF SettingsInv

LEMMA SettingsStep ==
    ASSUME SettingsInv, [ModerationNext]_moderationVars
    PROVE  SettingsInv'
<1>1. ASSUME UNCHANGED <<settingVars, req>> PROVE SettingsInv'
  <2>1. SettingsType' /\ RequestsInv'
    BY <1>1 DEF settingVars, SettingsInv, SettingsType, RequestsInv
  <2>2. SavedInv'
    BY <1>1 DEF settingVars, SettingsInv, SavedInv
  <2>3. QED
    BY <2>1, <2>2 DEF SettingsInv
<1>2. QED
  BY <1>1, RequestKeepsInv, RestartKeepsSettings DEF ModerationNext, moderationVars

\* THEOREM.  When no command is being performed, a restart gives back every
\* setting in effect that CorrectValues leaves alone, however the lines,
\* errors and restarts of all requests were mixed, unless a request has ended
\* at a denied line or by a panic since one was last saved (mod.go:13-199,
\* store_op.go:142-185, struct.go:209-219).
THEOREM SettingsAreKept == ModerationSpec => []SettingsSurvive
<1>1. SettingsInv => SettingsSurvive
  <2> SUFFICES ASSUME SettingsInv, Quiet, ~ loose
               PROVE  /\ \A s \in Settings : Kept(s) => LoadConfig(configStr)[s] = conf[s]
                      /\ limit \in 0..(2 * Half - 1) => limitLog = limit
    BY DEF SettingsSurvive
  <2>1. \A r \in Requests : ~ req[r].opcode
    BY DEF Quiet, SettingsInv, RequestsInv
  <2>2. QED
    BY <2>1 DEF SettingsInv, SavedInv, Agree, Kept
<1>2. QED
  BY <1>1, SettingsInit, SettingsStep, PTL DEF ModerationSpec

----------------------------------------------------------------------------
(* The images.                                                             *)

LEMMA RequestMovesImages ==
    ASSUME NEW r \in Requests, Step(r), ImagesInv
    PROVE  ImagesStep
<1>1. ASSUME UNCHANGED <<fileVars, queue, worker, upload, postVars, removing>> PROVE ImagesStep
  BY <1>1 DEF ImagesStep
<1>2. CASE modCode(r) \/ Subject(r) \/ Denied(r) \/ Moat(r) \/ Deleted(r) \/ Unknown(r) \/ LastLine(r)
  BY <1>1, <1>2 DEF modCode, Subject, Denied, Moat, Deleted, Unknown, LastLine, imageVars
<1>3. CASE SetMaxLiveTopics(r) \/ UpdateConfig(r)
  BY <1>1, <1>3 DEF SetMaxLiveTopics, UpdateConfig
<1>4. CASE \E s \in Settings : Set(r, s)
  BY <1>1, <1>4 DEF Set, imageVars
<1>5. CASE \E op \in StoreCommands : StoreCommand(r, op)
  BY <1>1, <1>5 DEF StoreCommand, imageVars
<1>p. CASE \E op \in Panicking : Panics(r, op)
  BY <1>1, <1>p DEF Panics, imageVars
<1>6. ASSUME NEW op \in DeleteCommands, Delete(r, op) PROVE ImagesStep
  <2> DEFINE n == Head(req[r].lines).arg
  <2>1. CASE MayDelete(r, n)
    <3>1. n \in Uploads /\ DeletePost(n, op = "delete-image")
      BY <1>6, <2>1 DEF Delete, MayDelete, ImagesInv, ImagesType
    <3>2. QED
      BY <3>1 DEF ImagesStep
  <2>2. CASE ~ MayDelete(r, n)
    BY <1>1, <1>6, <2>2 DEF Delete, imageVars
  <2>3. QED
    BY <2>1, <2>2
<1>7. QED
  BY <1>2, <1>3, <1>4, <1>5, <1>p, <1>6 DEF Step

LEMMA StepMovesImages ==
    ASSUME ImagesInv, [ModerationNext]_moderationVars
    PROVE  ImagesStep
<1>1. CASE \E r \in Requests : Step(r)
  BY <1>1, RequestMovesImages
<1>2. CASE ImagesNext
  BY <1>2 DEF ImagesStep
<1>3. CASE Restart
  BY <1>3 DEF Restart, ImagesStep
<1>4. CASE UNCHANGED moderationVars
  BY <1>4 DEF moderationVars, imageVars, ImagesStep
<1>5. QED
  BY <1>1, <1>2, <1>3, <1>4 DEF ModerationNext

\* THEOREM.  Files, the queue, goroutines, requests and deletions keep the
\* invariant of ImagesProofs (image.go:19-127, mod.go:93-111).
THEOREM ImagesInvariant == ModerationSpec => []ImagesInv
<1>1. ModerationInit => ImagesInv
  BY ImagesInitInv DEF ModerationInit
<1>2. ImagesInv /\ [ModerationNext]_moderationVars => ImagesInv'
  BY StepMovesImages, ImagesKeepInv
<1>3. QED
  BY <1>1, <1>2, PTL DEF ModerationSpec

\* THEOREM.  A file that a post names goes only after a deletion with its path
\* was accepted, with every number of goroutines, uploads and requests
\* (store_op.go:27-66, mod.go:93-111).
THEOREM RemovalsAreLogged == ModerationSpec => []RemovedIsLogged
BY ImagesInvariant, InvImpliesRemovedIsLogged, PTL

\* THEOREM.  A thumbnail is left without its image only while both are
\* removed or when a goroutine was about to create it (image.go:58-103).
THEOREM OrphansOnlyByOverlap == ModerationSpec => OrphanOnlyByOverlap
<1> DEFINE A == \A p \in Paths : Orphan(p)' /\ ~ Orphan(p) =>
                    \/ removing.path = p /\ removing'.path = p
                    \/ \E w \in ImageWorkers : worker[w].at = "create" /\ worker[w].path = p
<1>1. ImagesInv /\ [ModerationNext]_moderationVars => [A]_imageVars
  BY StepMovesImages, StepOrphans DEF Overlap
<1>2. QED
  BY <1>1, ImagesInvariant, PTL DEF ModerationSpec, OrphanOnlyByOverlap
=============================================================================
