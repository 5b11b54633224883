---------------------------- MODULE WorkerEndpoint ----------------------------
(***************************************************************************)
(* Which worker process owns a state directory: the lease of worker.py     *)
(* (flock), the socket and its durable record (endpoint_ownership.py), and *)
(* the epoch that each cold start begins.  DirectWorker assumes that one   *)
(* worker at a time acts on the store; this module is where it comes from. *)
(*                                                                         *)
(* A worker serves (service.serve: run_worker with recover_socket) or only *)
(* boots (worker.main: a cold start and nothing else).  Several of them    *)
(* may be started at any time, and each may be killed at any time.         *)
(***************************************************************************)
EXTENDS Naturals

CONSTANTS
  Workers,   \* worker processes
  Sockets,   \* identities (device, inode) of the socket; reused after unlink
  MaxEpoch,  \* bound on cold starts
  None       \* an absent file, or no worker

Records == [socket: Sockets, epoch: Nat]
ASSUME EndpointAssumption ==
  /\ MaxEpoch \in Nat
  /\ None \notin Workers /\ None \notin Sockets /\ None \notin Records

VARIABLES
  lease,   \* the worker that holds the flock
  socket,  \* the inode under the name worker.sock
  record,  \* .worker-endpoint.json
  epoch,   \* settings 'worker_epoch'; 0 before the first cold start
  pc,      \* where each worker is in run_worker
  cert,    \* endpoint_certificate: record and socket its preflight saw
  own,     \* the socket its HealthServer bound
  wrote    \* owned_endpoint_certificate is set

vars == <<lease, socket, record, epoch, pc, cert, own, wrote>>
files == <<socket, record, epoch>>
memory == <<cert, own, wrote>>

NoCertificate == [record |-> None, socket |-> None]

Init ==
  /\ lease = None /\ socket = None /\ record = None /\ epoch = 0
  /\ pc = [w \in Workers |-> "down"]
  /\ cert = [w \in Workers |-> NoCertificate]
  /\ own = [w \in Workers |-> None]
  /\ wrote = [w \in Workers |-> FALSE]

At(w, here) == pc[w] = here
Goto(w, there) == pc' = [pc EXCEPT ![w] = there]

\* The process is gone, and with it its memory and its lock.
Gone(w) ==
  /\ Goto(w, "down")
  /\ lease' = IF lease = w THEN None ELSE lease
  /\ cert' = [cert EXCEPT ![w] = NoCertificate]
  /\ own' = [own EXCEPT ![w] = None]
  /\ wrote' = [wrote EXCEPT ![w] = FALSE]

-----------------------------------------------------------------------------
(* preflight: no lease is held, so other workers act between its readings. *)

ReadRecord(w) ==
  /\ At(w, "down") /\ Goto(w, "socket")
  /\ cert' = [cert EXCEPT ![w].record = record]
  /\ UNCHANGED <<lease, files, own, wrote>>

ReadSocket(w) ==
  /\ At(w, "socket")
  /\ \/ /\ cert[w].record = None /\ socket = None
        /\ Goto(w, "certified") /\ UNCHANGED <<lease, memory>>
     \/ /\ cert[w].record # None /\ socket \in {None, cert[w].record.socket}
        /\ cert' = [cert EXCEPT ![w].socket = socket]
        /\ Goto(w, "epoch") /\ UNCHANGED <<lease, own, wrote>>
     \/ /\ socket \notin {None, IF cert[w].record = None THEN None
                                ELSE cert[w].record.socket}
        /\ Gone(w)
  /\ UNCHANGED files

ReadEpoch(w) ==
  /\ At(w, "epoch")
  /\ \/ cert[w].record.epoch = epoch /\ Goto(w, "certified") /\ UNCHANGED <<lease, memory>>
     \/ cert[w].record.epoch # epoch /\ Gone(w)
  /\ UNCHANGED files

\* What preflight accepts when nothing moves under it.
Certifiable ==
  IF record = None THEN socket = None
  ELSE socket \in {None, record.socket} /\ record.epoch = epoch

-----------------------------------------------------------------------------
(* Under the lease.                                                        *)

LeaseFree_Faulty == TRUE  \* a shared lock
LeaseFree == lease = None

\* A busy lease ends the process.
Acquire(w) ==
  /\ \E from \in {"down", "certified"} : At(w, from)
  /\ UNCHANGED <<files, memory>>
  /\ LeaseFree /\ lease' = w
  /\ Goto(w, IF At(w, "certified") THEN "leased" ELSE "booting")

Busy(w) ==
  /\ At(w, "certified") /\ ~LeaseFree
  /\ Gone(w)
  /\ UNCHANGED files

\* preflight is repeated; only the very socket it certified is unlinked.
Recertified(w) ==
  /\ Certifiable
  /\ record = cert[w].record /\ socket = cert[w].socket
Reclaim(w) ==
  /\ At(w, "leased") /\ Recertified(w)
  /\ socket' = None
  /\ Goto(w, "reclaimed")
  /\ UNCHANGED <<lease, record, epoch, memory>>

\* recover_cold_start
ColdStart(w) ==
  /\ \E from \in {"reclaimed", "booting"} : At(w, from)
  /\ epoch < MaxEpoch
  /\ epoch' = epoch + 1
  /\ Goto(w, IF At(w, "booting") THEN "closed" ELSE "recovered")
  /\ UNCHANGED <<lease, socket, record, memory>>

ReadyToBind_Faulty(w) == At(w, "reclaimed")  \* listens before the cold start
ReadyToBind(w) == At(w, "recovered")

\* bind() makes the name; HealthServer knows its inode only after chmod and lstat.
Bind(w) ==
  /\ ReadyToBind(w) /\ socket = None
  /\ \E s \in Sockets : socket' = s
  /\ Goto(w, "bound")
  /\ UNCHANGED <<lease, record, epoch, memory>>

Identify(w) ==
  /\ At(w, "bound") /\ socket # None
  /\ own' = [own EXCEPT ![w] = socket]
  /\ Goto(w, "listening")
  /\ UNCHANGED <<lease, files, cert, wrote>>

\* publish: the record is replaced whole.  A failure after the replacement,
\* at the directory's fsync, leaves the new record but not its certificate.
Published(w) == record' = [socket |-> own[w], epoch |-> epoch]
Publish(w) ==
  /\ At(w, "listening")
  /\ socket = own[w] /\ record = cert[w].record
  /\ Published(w)
  /\ \/ wrote' = [wrote EXCEPT ![w] = TRUE] /\ Goto(w, "serving")
     \/ wrote' = wrote /\ Goto(w, "closing")
  /\ UNCHANGED <<lease, socket, epoch, cert, own>>

\* An error anywhere in between, or a shutdown while serving.
LeaseKept_Faulty == None  \* released before the socket is closed
LeaseKept == lease
Finish(w) ==
  /\ pc[w] \in {"leased", "reclaimed", "booting", "recovered", "bound", "listening", "serving"}
  /\ Goto(w, "closing")
  /\ lease' = LeaseKept
  /\ UNCHANGED <<files, memory>>

\* HealthServer.close: the name is removed only while it is the bound inode,
\* and a failing unlink is ignored.
Close(w) ==
  /\ At(w, "closing")
  /\ socket' \in {socket, IF own[w] # None /\ socket = own[w] THEN None ELSE socket}
  /\ Goto(w, IF wrote[w] THEN "clear" ELSE "closed")
  /\ UNCHANGED <<lease, record, epoch, memory>>

\* clear: the exact record goes only after the socket; otherwise it stays.
Clear(w) ==
  /\ At(w, "clear") /\ Goto(w, "closed")
  /\ record' = IF socket = None /\ record = [socket |-> own[w], epoch |-> epoch]
               THEN None ELSE record
  /\ UNCHANGED <<lease, socket, epoch, memory>>

Release(w) == At(w, "closed") /\ Gone(w) /\ UNCHANGED files

Kill(w) == ~At(w, "down") /\ Gone(w) /\ UNCHANGED files

Next ==
  \E w \in Workers :
    \/ ReadRecord(w) \/ ReadSocket(w) \/ ReadEpoch(w)
    \/ Acquire(w) \/ Busy(w)
    \/ Reclaim(w) \/ ColdStart(w) \/ Bind(w) \/ Identify(w) \/ Publish(w)
    \/ Finish(w) \/ Close(w) \/ Clear(w) \/ Release(w) \/ Kill(w)

Spec == Init /\ [][Next]_vars
-----------------------------------------------------------------------------
(* Properties.                                                             *)

Starting == {"down", "socket", "epoch", "certified"}

\* The files and memories have their shape; no record names an epoch to come.
EndpointTypeOK ==
  /\ lease \in Workers \cup {None}
  /\ socket \in Sockets \cup {None}
  /\ record \in Records \cup {None}
  /\ epoch \in Nat
  /\ pc \in [Workers -> Starting \cup
       {"leased", "booting", "reclaimed", "recovered", "bound", "listening",
        "serving", "closing", "clear", "closed"}]
  /\ cert \in [Workers -> [record: Records \cup {None}, socket: Sockets \cup {None}]]
  /\ own \in [Workers -> Sockets \cup {None}]
  /\ wrote \in [Workers -> BOOLEAN]
  /\ record # None => record.epoch \in 1..epoch

(***************************************************************************)
(* One worker at a time acts on the store: whoever is past the lease holds *)
(* it until it has closed its socket and its store.                        *)
(***************************************************************************)
OneOwner == \A w \in Workers : pc[w] \notin Starting => lease = w

(***************************************************************************)
(* A worker that serves can be reached and recognized: worker.sock is the  *)
(* socket it bound and the record names that socket and the present epoch, *)
(* whatever stale preflights, boots, late closes and reused inodes of      *)
(* other workers do meanwhile.                                             *)
(***************************************************************************)
ServingIsReachable ==
  \A w \in Workers : pc[w] = "serving" =>
    /\ own[w] # None /\ socket = own[w]
    /\ record = [socket |-> own[w], epoch |-> epoch]

(***************************************************************************)
(* A record of the present epoch always certifies what is there: the next  *)
(* worker can start after any crash of a worker that got as far as serving *)
(* (test_missing_endpoint_with_exact_old_record_can_restart).  A start is  *)
(* refused only after an epoch began whose worker never recorded itself.   *)
(***************************************************************************)
RecordedIsCertifiable ==
  record # None /\ record.epoch = epoch => Certifiable
=============================================================================
