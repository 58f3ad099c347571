--------------------------------- MODULE Ota ---------------------------------
(***************************************************************************)
(* run_ota (esp-web-utils/src/lib.rs): a request body is written chunk by  *)
(* chunk through the application's OtaWriter into the spare partition,     *)
(* which finalize() makes the one to boot before it resets the device.     *)
(* Each request has a task of the HTTP server; nothing keeps two of them   *)
(* from uploading at once.  The module has the steps of one upload; the    *)
(* flash they go through, and who may run when, is SharedFlash's.          *)
(***************************************************************************)
EXTENDS Integers

CONSTANTS
  Uploaders,  \* the HTTP tasks that receive uploads, each its own image
  Chunks,     \* the number of chunks of an image
  Truncated,  \* TRUE: a body may end before its image does
  None        \* a chunk of the partition no upload has written

ASSUME OtaAssumption == Chunks \in Nat \ {0} /\ Truncated \in BOOLEAN

VARIABLES
  upload,  \* per task: where run_ota is, and the chunks it has read
  slot,    \* the spare partition: whose chunk is at each place
  active   \* the image that boots

ota == <<upload, slot, active>>

NoUpload == [pc |-> "idle", total |-> 0]
Erased == [i \in 1 .. Chunks |-> None]
Image(u) == [i \in 1 .. Chunks |-> u]

OtaInit ==
  /\ upload = [u \in Uploaders |-> NoUpload]
  /\ slot = Erased
  /\ active = Erased   \* stands for the image the device came with

\* run_ota returns Err, or the request starts: a place with no chunk read yet.
At(u, pc) == upload' = [upload EXCEPT ![u] = [pc |-> pc, total |-> 0]]
Then(u, pc) == upload' = [upload EXCEPT ![u] = [pc |-> pc, total |-> upload[u].total]]

from_request(u) ==
  /\ upload[u].pc = "idle"
  /\ At(u, "begin")
  /\ UNCHANGED <<slot, active>>

begin_ota(u) ==
  /\ upload[u].pc = "begin"
  /\ At(u, "read") \/ At(u, "idle")
  /\ UNCHANGED <<slot, active>>

\* Faulty variant: a read error ends the loop like the end of the body.
Read_ErrorIsEnd(u) ==
  /\ upload[u].pc = "read"
  /\ \/ /\ upload[u].total < Chunks
        /\ upload' = [upload EXCEPT ![u] = [pc |-> "write", total |-> upload[u].total + 1]]
     \/ Then(u, "finalize")
  /\ UNCHANGED <<slot, active>>

\* reader.read().await: a chunk, Ok(0) or Err.
Read(u) ==
  /\ upload[u].pc = "read"
  /\ \/ /\ upload[u].total < Chunks
        /\ upload' = [upload EXCEPT ![u] = [pc |-> "write", total |-> upload[u].total + 1]]
     \/ /\ upload[u].total = Chunks \/ Truncated
        /\ Then(u, "finalize")
     \/ At(u, "idle")
  /\ UNCHANGED <<slot, active>>

\* write_chunk: false to go on, true after the last chunk, or Err.
write_chunk(u) ==
  /\ upload[u].pc = "write"
  /\ \/ /\ slot' = [slot EXCEPT ![upload[u].total] = u]
        /\ \/ Then(u, "read")
           \/ upload[u].total = Chunks /\ Then(u, "finalize")
     \/ /\ At(u, "idle")
        /\ UNCHANGED slot
  /\ UNCHANGED active

finalize_err(u) ==
  /\ upload[u].pc = "finalize"
  /\ At(u, "idle")
  /\ UNCHANGED <<slot, active>>

\* finalize returns only an error: on success the device resets.
finalize_ok(u) ==
  /\ upload[u].pc = "finalize"
  /\ upload' = [v \in Uploaders |-> NoUpload]
  /\ active' = slot
  /\ slot' = Erased

\* A reset without finalize.
Interrupted ==
  /\ upload' = [u \in Uploaders |-> NoUpload]
  /\ UNCHANGED <<slot, active>>

\* The types, and no chunk beyond the image.
OtaTypeOK ==
  /\ upload \in [Uploaders -> [pc : {"idle", "begin", "read", "write", "finalize"},
                               total : 0 .. Chunks]]
  /\ \A u \in Uploaders : upload[u].pc = "write" => upload[u].total > 0
  /\ slot \in [1 .. Chunks -> Uploaders \cup {None}]
  /\ active \in [1 .. Chunks -> Uploaders \cup {None}]

(* "On success the device reboots" (lib.rs:161): the image that boots is   *)
(* the one the device came with or the whole of one upload, whatever       *)
(* uploads were cut short or failed before.                                *)
ActiveIsWhole == active = Erased \/ \E u \in Uploaders : active = Image(u)
==============================================================================
