-------------------------------- MODULE Images ------------------------------
(***************************************************************************)
(* Images and their thumbnails: what PostAPI stores, ImageQueue            *)
(* (server/image.go), whose goroutines make the thumbnails, handler.Image, *)
(* which serves them, and Store.DeletePost with the callback of modCode,   *)
(* which removes them.  The file system is all that they share.            *)
(*                                                                         *)
(* The path of an image is the hour and the name of the uploaded file:     *)
(* uploads of one name in one hour have one path.  os.Create empties a     *)
(* file that is there, os.Remove leaves a file without a name to those     *)
(* that have it open.  A decoder reads a file in one step.                 *)
(***************************************************************************)
EXTENDS Integers, SequencesExt

CONSTANTS
    Paths,
    ImageWorkers,       \* the goroutines of the queue, one for each CPU
    QueueCap,           \* 256
    MaxUploads, MaxFailures     \* bounds of the model

ASSUME ImagesAssumption ==
    QueueCap \in Nat /\ MaxUploads \in Nat /\ MaxFailures \in Nat

Uploads == 1..MaxUploads
Contents == {"large", "small", "bad"}   \* of a file: bad is not an image
NoPath == "no path"

VARIABLES
    image, thumb,       \* the files, by path
    queue,              \* iq.q
    worker,             \* where job and naiveDownscale are
    upload,             \* the requests that brought an image
    posted,             \* the uploads that a post was made for
    logged, stripped,   \* those that OP_DELETE was logged for; delete-image
    removing,           \* DeletePost's callback: the path and the files left
    failures            \* errors of the disk, and restarts

fileVars == <<image, thumb>>
postVars == <<posted, logged, stripped>>
imageVars == <<fileVars, queue, worker, upload, postVars, removing, failures>>

Idle == [at |-> "idle", path |-> NoPath, of |-> 0]
NotRemoving == [path |-> NoPath, left |-> <<>>]

----------------------------------------------------------------------------
(* A file: what it was made of, whether all was written, who has it open.  *)

NoFile == [of |-> 0, whole |-> FALSE, open |-> {}]
Exists(f) == f.of # 0

Create(f, of, who) == [of |-> of, whole |-> FALSE, open |-> f.open \cup {who}]

\* who writes and closes the file that it has opened, unless it was removed.
Written(f, of, whole, who) ==
    IF who \in f.open THEN [of |-> of, whole |-> whole, open |-> f.open \ {who}] ELSE f

ImagesInit ==
    /\ image = [p \in Paths |-> NoFile] /\ thumb = [p \in Paths |-> NoFile]
    /\ queue = <<>>
    /\ worker = [w \in ImageWorkers |-> Idle]
    /\ upload = [n \in Uploads |-> [at |-> "none", path |-> NoPath, content |-> "bad"]]
    /\ posted = {} /\ logged = {} /\ stripped = {}
    /\ removing = NotRemoving
    /\ failures = 0

Fail == failures < MaxFailures /\ failures' = failures + 1

\* The path is dropped when the queue is full.
Push(p) == queue' = IF Len(queue) < QueueCap THEN Append(queue, p) ELSE queue

----------------------------------------------------------------------------
(* PostAPI with an image, and handler.Image.                               *)

UploadAt(n, from, to) ==
    upload[n].at = from /\ upload' = [upload EXCEPT ![n].at = to]

UploadCreate(n, p, content) ==
    /\ upload[n].at = "none" /\ \A m \in 1..(n - 1) : upload[m].at # "none"
    /\ upload' = [upload EXCEPT ![n] = [at |-> "copy", path |-> p, content |-> content]]
    /\ image' = [image EXCEPT ![p] = Create(@, n, n)]
    /\ UNCHANGED <<thumb, queue, worker, postVars, removing, failures>>

\* The error of io.Copy is ignored.
UploadCopy(n) ==
    /\ UploadAt(n, "copy", "push")
    /\ \E whole \in BOOLEAN :
          /\ IF whole THEN UNCHANGED failures ELSE Fail
          /\ image' = [image EXCEPT ![upload[n].path] = Written(@, n, whole, n)]
    /\ UNCHANGED <<thumb, queue, worker, postVars, removing>>

UploadPush(n) ==
    /\ UploadAt(n, "push", "post")
    /\ Push(upload[n].path)
    /\ UNCHANGED <<fileVars, worker, postVars, removing, failures>>

\* NewTopic and NewPost take store.Lock, which DeletePost holds while it
\* removes files.  When they fail the image stays.
UploadPost(n) ==
    /\ removing = NotRemoving
    /\ UploadAt(n, "post", "done")
    /\ \/ posted' = posted \cup {n} /\ UNCHANGED failures
       \/ UNCHANGED posted /\ Fail
    /\ UNCHANGED <<fileVars, queue, worker, logged, stripped, removing>>

\* A request for the thumbnail of an image that has none
Image(p) ==
    /\ ~ Exists(thumb[p])
    /\ Push(p)
    /\ UNCHANGED <<fileVars, worker, upload, postVars, removing, failures>>

----------------------------------------------------------------------------
(* The goroutines of the queue.                                            *)

WorkerAt(w, from, to) ==
    worker[w].at = from /\ worker' = [worker EXCEPT ![w].at = to]

Take(w) ==
    /\ worker[w].at = "idle"
    /\ queue # <<>>
    /\ worker' = [worker EXCEPT ![w] = [at |-> "stat", path |-> Head(queue), of |-> 0]]
    /\ queue' = Tail(queue)
    /\ UNCHANGED <<fileVars, upload, postVars, removing, failures>>

StatThumb(w) ==
    /\ WorkerAt(w, "stat", IF Exists(thumb[worker[w].path]) THEN "sleep" ELSE "decode")
    /\ UNCHANGED <<fileVars, queue, upload, postVars, removing, failures>>

\* Wrong: a goroutine ends with an error instead of going on.
AfterErrorEnd == "ended"

AfterError == "sleep"

Readable(p) == image[p].whole /\ upload[image[p].of].content # "bad"
Large(p) == Readable(p) /\ upload[image[p].of].content = "large"

\* os.Stat, os.Open, Decode and the test of the bounds
Decode(w) ==
    LET p == worker[w].path
    IN  /\ worker[w].at = "decode"
        /\ worker' = [worker EXCEPT ![w] =
                        [@ EXCEPT !.at = CASE Exists(image[p]) /\ Large(p) -> "create"
                                           [] Exists(image[p]) /\ ~ Readable(p) -> AfterError
                                           [] OTHER -> "sleep",
                                  !.of = image[p].of]]
        /\ UNCHANGED <<fileVars, queue, upload, postVars, removing, failures>>

CreateThumb(w) ==
    /\ WorkerAt(w, "create", "encode")
    /\ thumb' = [thumb EXCEPT ![worker[w].path] = Create(@, worker[w].of, w)]
    /\ UNCHANGED <<image, queue, upload, postVars, removing, failures>>

Encode(w) ==
    /\ WorkerAt(w, "encode", "sleep")
    /\ thumb' = [thumb EXCEPT ![worker[w].path] = Written(@, worker[w].of, TRUE, w)]
    /\ UNCHANGED <<image, queue, upload, postVars, removing, failures>>

\* os.Create or Encode fails; the latter leaves the part that was written.
DiskError(w) ==
    /\ WorkerAt(w, worker[w].at, AfterError)
    /\ Fail
    /\ \/ worker[w].at = "create" /\ UNCHANGED thumb
       \/ /\ worker[w].at = "encode"
          /\ thumb' = [thumb EXCEPT ![worker[w].path] = Written(@, @.of, @.whole, w)]
    /\ UNCHANGED <<image, queue, upload, postVars, removing>>

Sleep(w) ==
    /\ worker[w].at = "sleep"
    /\ worker' = [worker EXCEPT ![w] = Idle]
    /\ UNCHANGED <<fileVars, queue, upload, postVars, removing, failures>>

Job(w) ==
    \/ Take(w) \/ StatThumb(w) \/ Decode(w) \/ CreateThumb(w)
    \/ Encode(w) \/ DiskError(w) \/ Sleep(w)

----------------------------------------------------------------------------
(* Store.DeletePost and the callback that modCode gives it.                *)

\* Wrong: the thumbnail first, which a goroutine can make again meanwhile.
RemoveThumbFirst == <<"thumb", "image">>

RemovalOrder == <<"image", "thumb">>

OnImageDelete(n) == removing' = [path |-> upload[n].path, left |-> RemovalOrder]

\* Wrong: the callback is called all the same.
AppendErrorIgnored(n) == OnImageDelete(n)

AppendError(n) == UNCHANGED removing

\* A deletion is undone when it is repeated, but the files are removed each
\* time.  The lock is held until they are.
DeletePost(n, imageOnly) ==
    /\ removing = NotRemoving
    /\ n \in posted
    /\ \/ /\ imageOnly /\ OnImageDelete(n)
          /\ stripped' = stripped \cup {n} /\ UNCHANGED <<logged, failures>>
       \/ /\ ~ imageOnly /\ OnImageDelete(n)
          /\ logged' = logged \cup {n} /\ UNCHANGED <<stripped, failures>>
       \/ ~ imageOnly /\ Fail /\ AppendError(n) /\ UNCHANGED <<stripped, logged>>
    /\ UNCHANGED <<fileVars, queue, worker, upload, posted>>

\* os.Remove, for one of the two files
RemoveFile ==
    LET p == removing.path
        rest == Tail(removing.left)
    IN  /\ removing.left # <<>>
        /\ IF Head(removing.left) = "image"
           THEN image' = [image EXCEPT ![p] = NoFile] /\ UNCHANGED thumb
           ELSE thumb' = [thumb EXCEPT ![p] = NoFile] /\ UNCHANGED image
        /\ removing' = IF rest = <<>> THEN NotRemoving ELSE [removing EXCEPT !.left = rest]
        /\ UNCHANGED <<queue, worker, upload, postVars, failures>>

----------------------------------------------------------------------------
(* A restart of the process: the queue is not kept, the files are.         *)

Closed(f) == [f EXCEPT !.open = {}]

ImagesRestart ==
    /\ Fail
    /\ image' = [p \in Paths |-> Closed(image[p])] /\ thumb' = [p \in Paths |-> Closed(thumb[p])]
    /\ queue' = <<>>
    /\ worker' = [w \in ImageWorkers |-> Idle]
    /\ upload' = [n \in Uploads |-> IF upload[n].at = "none" THEN upload[n]
                                    ELSE [upload[n] EXCEPT !.at = "done"]]
    /\ removing' = NotRemoving
    /\ UNCHANGED postVars

ImagesNext ==
    \/ \E n \in Uploads :
          \/ \E p \in Paths, content \in Contents : UploadCreate(n, p, content)
          \/ UploadCopy(n) \/ UploadPush(n) \/ UploadPost(n)
    \/ \E p \in Paths : Image(p)
    \/ \E w \in ImageWorkers : Job(w)
    \/ RemoveFile

----------------------------------------------------------------------------
(* Properties.                                                             *)

\* An image that is in the queue gets its thumbnail, whatever is before it
\* in the queue, unless an error, a restart or a deletion comes between or
\* it is no image to be made smaller (image.go:43-104).
Settled(p) ==
    \/ Exists(thumb[p]) /\ thumb[p].whole
    \/ ~ Large(p)
    \/ removing.path = p

ThumbComes ==
    \A p \in Paths, k \in 0..MaxFailures :
        p \in Range(queue) /\ ~ Exists(thumb[p]) /\ failures = k ~> Settled(p) \/ failures > k

\* A thumbnail is without its image only while both are removed, or when a
\* goroutine had decoded the image before: nothing else that happens between
\* its calls of the system leaves one (image.go:58-103, mod.go:105-110).
Orphan(p) == Exists(thumb[p]) /\ ~ Exists(image[p])

OrphanOnlyByOverlap ==
    [][\A p \in Paths : Orphan(p)' /\ ~ Orphan(p) =>
            \/ removing.path = p /\ removing'.path = p
            \/ \E w \in ImageWorkers : worker[w].at = "create" /\ worker[w].path = p
      ]_imageVars

\* The file of a post goes only when a deletion with its path is in the log,
\* or only the image was to be deleted (store_op.go:49-58).
RemovedIsLogged ==
    \A n \in posted : ~ Exists(image[upload[n].path]) =>
        \E m \in logged \cup stripped : upload[m].path = upload[n].path
=============================================================================
