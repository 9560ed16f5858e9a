---------------------------- MODULE CommitOrder ----------------------------
(***************************************************************************)
(* The ordering and delivery core of the companion: CommitHost (the host   *)
(* player's companion), CommitClient (every other player's companion) and  *)
(* the GameBridge directories through which a companion talks to its own   *)
(* game.                                                                   *)
(*                                                                         *)
(* A game numbers its messages 1, 2, 3, ... in its outbox.  The host gives *)
(* each intent one global sequence number, writes it to the audit journal  *)
(* before anything else, files it in its own game's inbox and broadcasts   *)
(* it; an intent it will not order is answered by an ordered rejection.    *)
(* A client files what it receives in its own inbox, and moves its outbox  *)
(* cursor only when the host's receipt arrives.                            *)
(*                                                                         *)
(* Every thread of the host is a process here: Main polls the host game's  *)
(* outbox, and each accepted connection is served by a thread of its own,  *)
(* so a replaced connection's thread may still be running beside the new   *)
(* one's.  The stages of a thread are those between which order_lock, the  *)
(* file system or a socket lets another thread or a crash in.              *)
(*                                                                         *)
(* The entries the host adds to the order by itself (a prepared build, the *)
(* outcome of a barrier, the clock's own pauses) go the same way as a      *)
(* commit; what decides them is the subject of PhysicalConsensus, and they *)
(* are left out here.                                                      *)
(***************************************************************************)
EXTENDS Integers, Sequences, FiniteSets, Functions

CONSTANTS Host,         \* the host's peer id
          Clients,      \* the other peers of the pinned match roster
          MaxLocal,     \* bound: messages each game emits
          MaxConn,      \* bound: connections one client opens
          MaxCrash,     \* bound: crashes of the host companion
          MaxAuditFail  \* bound: audit appends that raise

ASSUME HostAssumption == Host \notin Clients
ASSUME BoundAssumption ==
    /\ MaxLocal \in [Clients \union {Host} -> Nat]
    /\ MaxConn \in Nat \ {0}
    /\ MaxCrash \in Nat
    /\ MaxAuditFail \in Nat

Peers == Clients \union {Host}
Kinds == {"intent", "event"}

\* Connection <<c, i>> is the i-th one client c opens.  Its thread has the
\* same name.
Conns   == Clients \X (1 .. MaxConn)
Main    == <<Host, 0>>
Threads == Conns \union {Main}
Origin(t) == t[1]

\* What the journal holds: ordered messages (a commit, or the rejection of an
\* intent) with their global sequence number, and unordered records (seq 0).
Commit(n, p, l)    == [kind |-> "commit",   seq |-> n, peer |-> p, local |-> l]
Rejection(n, p, l) == [kind |-> "rejected", seq |-> n, peer |-> p, local |-> l]
Record(p, l)       == [kind |-> "record",   seq |-> 0, peer |-> p, local |-> l]
Entry == [kind : {"commit", "rejected", "record"}, seq : Nat, peer : Peers, local : Nat]

\* What a client's socket delivers besides ordered entries.
Receipt(l) == [kind |-> "receipt", local |-> l]
SyncReady  == [kind |-> "sync_ready"]
Frame == Entry \union [kind : {"receipt"}, local : Nat] \union {SyncReady}
IsOrdered(m) == m.kind \in {"commit", "rejected"}

VARIABLES
    \* durable, one per peer
    outbox,     \* GameBridge.outbox: the kinds of the messages emitted so far
    cursor,     \* GameBridge.outbox_cursor, saved on every change
    inbox,      \* GameBridge.inbox: the ordered entries filed for the game
    \* durable, host
    audit,      \* AuditLog: the journal
    uncertain,  \* the <<peer, local>> whose append raised AuditUnavailable
    \* volatile, host
    up,         \* "up", "fenced" (after _fence_failed_authority) or "down"
    fault,      \* CommitHost.audit_failure
    nextSeq,    \* CommitHost.next_seq
    seen,       \* CommitHost.seen
    commits,    \* CommitHost.commits: commits and rejections
    peers,      \* CommitHost.peers: the connection registered for a client, or 0
    pc,         \* where each thread of the host is
    job,        \* the local number of the message a thread is working on
    staged,     \* the entry a thread is ordering
    serve,      \* the state of each connection's thread
    replayed,   \* replayed_through of a connection's thread
    got,        \* the last message a thread has read from its connection
    \* client sockets
    session,    \* the connection a client is using, or 0
    used,       \* connections a client has opened
    synced,     \* CommitClient.synchronized
    sent,       \* the last message a client has sent on a connection
    toClient,   \* the frames on their way to the client, in order
    crashes     \* host crashes so far

durable == <<outbox, cursor, inbox, audit, uncertain>>
threads == <<pc, job, staged>>
hostVol == <<up, fault, nextSeq, seen, commits, peers>>
conns   == <<serve, replayed, got>>
sockets == <<session, used, synced, sent, toClient>>
vars == <<outbox, cursor, inbox, audit, uncertain, up, fault, nextSeq, seen, commits,
          peers, pc, job, staged, serve, replayed, got, session, used, synced, sent,
          toClient, crashes>>

None == Record(Host, 0)

----------------------------------------------------------------------------
(* Helpers.                                                                *)

Entries    == Range(audit)
Frames(k)  == Range(toClient[k])
Ordered(S) == {e \in S : IsOrdered(e)}
Seqs(S)    == {e.seq : e \in S}
Committed(S) == {<<e.peer, e.local>> : e \in {x \in S : x.kind = "commit"}}
Key(t) == <<Origin(t), job[t]>>

\* InboundCommitIndex.last_contiguous: n ends the gap-free prefix on disk.
LastContiguous(S, n) == 1 .. n \subseteq Seqs(S) /\ n + 1 \notin Seqs(S)

\* A thread holds order_lock from its journal append to its in-memory update.
LockFree == \A t \in Threads : pc[t] \notin {"committing", "rejecting"}

\* _broadcast: one frame to every registered connection.  A frame sent to a
\* socket whose other end has gone is lost.
Broadcast(e) ==
    [k \in Conns |-> IF peers[k[1]] = k[2] /\ session[k[1]] = k[2]
                     THEN Append(toClient[k], e) ELSE toClient[k]]

\* host.peers after the thread of k gives up its client's place, if it holds it.
Without(k) == [c \in Clients |-> IF <<c, peers[c]>> = k THEN 0 ELSE peers[c]]

Send(k, m) == IF session[k[1]] = k[2] THEN [toClient EXCEPT ![k] = Append(@, m)]
                                      ELSE toClient

----------------------------------------------------------------------------
Init ==
    /\ outbox = [p \in Peers |-> << >>]
    /\ cursor = [p \in Peers |-> 0]
    /\ inbox = [p \in Peers |-> {}]
    /\ audit = << >>
    /\ uncertain = {}
    /\ up = "up"
    /\ fault = FALSE
    /\ nextSeq = 1
    /\ seen = {}
    /\ commits = {}
    /\ peers = [c \in Clients |-> 0]
    /\ pc = [t \in Threads |-> "idle"]
    /\ job = [t \in Threads |-> 0]
    /\ staged = [t \in Threads |-> None]
    /\ serve = [k \in Conns |-> "none"]
    /\ replayed = [k \in Conns |-> 0]
    /\ got = [k \in Conns |-> 0]
    /\ session = [c \in Clients |-> 0]
    /\ used = [c \in Clients |-> 0]
    /\ synced = [c \in Clients |-> FALSE]
    /\ sent = [k \in Conns |-> 0]
    /\ toClient = [k \in Conns |-> << >>]
    /\ crashes = 0

----------------------------------------------------------------------------
(* The games.                                                              *)

\* bridge.lua emit: the game files its next message.
Emit(p, kind) ==
    /\ Len(outbox[p]) < MaxLocal[p]
    /\ outbox' = [outbox EXCEPT ![p] = Append(@, kind)]
    /\ UNCHANGED <<cursor, inbox, audit, uncertain, hostVol, threads, conns, sockets,
                   crashes>>

----------------------------------------------------------------------------
(* A client's session: connect, receive, send, drop.                       *)

\* The client says hello with its last contiguous commit and the host accepts:
\* serve_peer drops the connection registered before and starts catching the
\* client up.  A client ahead of the host, or whose last commit the host does
\* not have, is refused and nothing changes.
Connect(c) ==
    LET k == <<c, used[c] + 1>> IN
    \E last \in 0 .. nextSeq - 1 :
       /\ session[c] = 0
       /\ used[c] < MaxConn
       /\ up = "up"
       /\ LockFree
       /\ LastContiguous(inbox[c], last)
       /\ last > 0 => last \in Seqs(commits)
       /\ serve' = [s \in Conns |-> IF s = k THEN "syncing"
                                    ELSE IF s[1] = c /\ s[2] = peers[c] THEN "shut"
                                    ELSE serve[s]]
       /\ peers' = [peers EXCEPT ![c] = 0]
       /\ replayed' = [replayed EXCEPT ![k] = last]
       /\ got' = [got EXCEPT ![k] = cursor[c]]
       /\ sent' = [sent EXCEPT ![k] = cursor[c]]
       /\ session' = [session EXCEPT ![c] = used[c] + 1]
       /\ used' = [used EXCEPT ![c] = @ + 1]
       /\ synced' = [synced EXCEPT ![c] = FALSE]
       /\ UNCHANGED <<durable, up, fault, nextSeq, seen, commits, threads, toClient,
                      crashes>>

\* The receiver thread takes one frame.  A commit or a rejection is filed
\* (write_inbound: filing the same entry again changes nothing).
ReceiveOrdered(c) ==
    LET k == <<c, session[c]>> IN
    /\ session[c] # 0
    /\ toClient[k] # << >>
    /\ IsOrdered(Head(toClient[k]))
    /\ inbox' = [inbox EXCEPT ![c] = @ \union {Head(toClient[k])}]
    /\ toClient' = [toClient EXCEPT ![k] = Tail(@)]
    /\ UNCHANGED <<outbox, cursor, audit, uncertain, hostVol, threads, conns, session, used,
                   synced, sent, crashes>>

\* sync_ready lets the session start sending.
ReceiveSyncReady(c) ==
    LET k == <<c, session[c]>> IN
    /\ session[c] # 0
    /\ toClient[k] # << >>
    /\ Head(toClient[k]) = SyncReady
    /\ synced' = [synced EXCEPT ![c] = TRUE]
    /\ toClient' = [toClient EXCEPT ![k] = Tail(@)]
    /\ UNCHANGED <<durable, hostVol, threads, conns, session, used, sent, crashes>>

\* acknowledge_outbound: a receipt, for an acceptance or a refusal alike,
\* moves the cursor; an old one changes nothing, and one that skips a message
\* would end the session (AcknowledgementsHaveNoGap says there is none).
ReceiveReceipt(c) ==
    LET k == <<c, session[c]>> IN
    /\ session[c] # 0
    /\ toClient[k] # << >>
    /\ Head(toClient[k]).kind = "receipt"
    /\ cursor[c] # 0 => Head(toClient[k]).local <= cursor[c] + 1
    /\ cursor' = [cursor EXCEPT ![c] = IF Head(toClient[k]).local < @ THEN @
                                       ELSE Head(toClient[k]).local]
    /\ toClient' = [toClient EXCEPT ![k] = Tail(@)]
    /\ UNCHANGED <<outbox, inbox, audit, uncertain, hostVol, threads, conns, session, used,
                   synced, sent, crashes>>

\* The session loop sends what is pending and has not been sent in this session.
ClientSend(c) ==
    LET k == <<c, session[c]>> IN
    /\ session[c] # 0
    /\ synced[c]
    /\ sent[k] < Len(outbox[c])
    /\ sent' = [sent EXCEPT ![k] = @ + 1]
    /\ UNCHANGED <<durable, hostVol, threads, conns, session, used, synced, toClient,
                   crashes>>

\* The client's end closes, and whatever was on its way to it is lost.
EndSession(c) ==
    /\ toClient' = [toClient EXCEPT ![<<c, session[c]>>] = << >>]
    /\ session' = [session EXCEPT ![c] = 0]
    /\ synced' = [synced EXCEPT ![c] = FALSE]
    /\ UNCHANGED <<durable, hostVol, threads, conns, used, sent, crashes>>

\* The network fails or the client companion is restarted.  (Bound: the last
\* connection of a client is not lost.)
ClientDrop(c) ==
    /\ session[c] # 0
    /\ used[c] < MaxConn
    /\ EndSession(c)

\* The receiver thread reads the end of a stream the host has closed.
ClientNoticesClose(c) ==
    /\ session[c] # 0
    /\ serve[<<c, session[c]>>] \in {"shut", "gone"}
    /\ toClient[<<c, session[c]>>] = << >>
    /\ EndSession(c)

----------------------------------------------------------------------------
(* A connection's thread: ordered catch-up, then one message at a time.    *)

\* Under order_lock the thread takes the history it has not sent, and sends it.
Lacking(k) == replayed[k] + 1 .. nextSeq - 1
Batch(k)   == [j \in 1 .. nextSeq - 1 - replayed[k] |->
                 CHOOSE e \in commits : e.seq = replayed[k] + j]

\* The host's memory has every sequence number the connection lacks.
ReplayBatch(k) ==
    /\ serve[k] = "syncing"
    /\ LockFree
    /\ replayed[k] < nextSeq - 1
    /\ Lacking(k) \subseteq Seqs(commits)
    /\ replayed' = [replayed EXCEPT ![k] = nextSeq - 1]
    /\ toClient' = [toClient EXCEPT ![k] = IF session[k[1]] = k[2] THEN @ \o Batch(k)
                                           ELSE @]
    /\ UNCHANGED <<durable, hostVol, threads, serve, got, session, used, synced, sent,
                   crashes>>

\* "host ordered history is missing sequence": the connection is dropped.
ReplayMissing(k) ==
    /\ serve[k] = "syncing"
    /\ LockFree
    /\ ~ Lacking(k) \subseteq Seqs(commits)
    /\ serve' = [serve EXCEPT ![k] = "gone"]
    /\ UNCHANGED <<durable, hostVol, threads, replayed, got, sockets, crashes>>

\* Mutant: registered without looking for what was ordered during the catch-up.
RegisterMut(k) ==
    /\ serve[k] = "syncing"
    /\ LockFree
    /\ peers' = [peers EXCEPT ![k[1]] = k[2]]
    /\ serve' = [serve EXCEPT ![k] = "ready"]
    /\ toClient' = Send(k, SyncReady)
    /\ UNCHANGED <<durable, up, fault, nextSeq, seen, commits, threads, replayed, got,
                   session, used, synced, sent, crashes>>

\* Nothing was ordered since: the connection takes the client's place in
\* host.peers, whoever holds it, and is told it is in step.
Register(k) ==
    /\ serve[k] = "syncing"
    /\ LockFree
    /\ replayed[k] = nextSeq - 1
    /\ peers' = [peers EXCEPT ![k[1]] = k[2]]
    /\ serve' = [serve EXCEPT ![k] = "ready"]
    /\ toClient' = Send(k, SyncReady)
    /\ UNCHANGED <<durable, up, fault, nextSeq, seen, commits, threads, replayed, got,
                   session, used, synced, sent, crashes>>

\* Mutant: only the latest message of those waiting is read.
ReadMut(k) ==
    /\ serve[k] \in {"ready", "shut"}
    /\ pc[k] = "idle"
    /\ got[k] < sent[k]
    /\ got' = [got EXCEPT ![k] = sent[k]]
    /\ job' = [job EXCEPT ![k] = sent[k]]
    /\ pc' = [pc EXCEPT ![k] = outbox[k[1]][sent[k]]]
    /\ UNCHANGED <<durable, hostVol, staged, serve, replayed, sockets, crashes>>

\* The next message of the connection.  A socket the host has shut may still
\* have one in its reader's buffer.
Read(k) ==
    /\ serve[k] \in {"ready", "shut"}
    /\ pc[k] = "idle"
    /\ got[k] < sent[k]
    /\ got' = [got EXCEPT ![k] = @ + 1]
    /\ job' = [job EXCEPT ![k] = got[k] + 1]
    /\ pc' = [pc EXCEPT ![k] = outbox[k[1]][got[k] + 1]]
    /\ UNCHANGED <<durable, hostVol, staged, serve, replayed, sockets, crashes>>

\* The thread answers with a receipt; if its socket is shut, sending raises
\* and the thread ends.
ReplyToClient(k) ==
    /\ pc[k] = "reply"
    /\ pc' = [pc EXCEPT ![k] = "idle"]
    /\ IF serve[k] = "ready"
       THEN /\ toClient' = Send(k, Receipt(job[k]))
            /\ UNCHANGED serve
       ELSE /\ serve' = [serve EXCEPT ![k] = "gone"]
            /\ UNCHANGED toClient
    /\ UNCHANGED <<durable, hostVol, job, staged, replayed, got, session, used, synced,
                   sent, crashes>>

\* The thread ends: its client's end is closed and drained, its own end was
\* shut, or the network failed (bound: not on the last connection).  It gives
\* up the client's place in host.peers only if it still holds it.
Hangup(k) ==
    /\ serve[k] \in {"syncing", "ready", "shut"}
    /\ pc[k] = "idle"
    /\ \/ session[k[1]] # k[2] /\ got[k] = sent[k]
       \/ serve[k] = "shut"
       \/ used[k[1]] < MaxConn
    /\ serve' = [serve EXCEPT ![k] = "gone"]
    /\ peers' = Without(k)
    /\ UNCHANGED <<durable, up, fault, nextSeq, seen, commits, threads, replayed, got,
                   sockets, crashes>>

----------------------------------------------------------------------------
(* The main loop: the host game's own outbox.                              *)

MainRead ==
    /\ up = "up"
    /\ pc[Main] = "idle"
    /\ cursor[Host] < Len(outbox[Host])
    /\ job' = [job EXCEPT ![Main] = cursor[Host] + 1]
    /\ pc' = [pc EXCEPT ![Main] = outbox[Host][cursor[Host] + 1]]
    /\ UNCHANGED <<durable, hostVol, staged, conns, sockets, crashes>>

MainAcknowledge ==
    /\ pc[Main] = "reply"
    /\ pc' = [pc EXCEPT ![Main] = "idle"]
    /\ cursor' = [cursor EXCEPT ![Host] = job[Main]]
    /\ UNCHANGED <<outbox, inbox, audit, uncertain, hostVol, job, staged, conns, sockets,
                   crashes>>

----------------------------------------------------------------------------
(* Ordering, by any thread.                                                *)

\* _commit: an intent already committed is answered without a second commit.
Deduplicate(t) ==
    /\ pc[t] = "intent"
    /\ LockFree
    /\ Key(t) \in seen
    /\ pc' = [pc EXCEPT ![t] = "reply"]
    /\ UNCHANGED <<durable, hostVol, job, staged, conns, sockets, crashes>>

\* Mutant: a refused intent is answered without an ordered rejection.
RefuseMut(t) ==
    /\ pc[t] = "intent"
    /\ LockFree
    /\ Key(t) \notin seen
    /\ pc' = [pc EXCEPT ![t] = "reply"]
    /\ UNCHANGED <<durable, hostVol, job, staged, conns, sockets, crashes>>

\* _commit raises ProtocolError: the action is not admissible now.  Which
\* intents are refused is the business of the consensus and clock modules.
Refuse(t) ==
    /\ pc[t] = "intent"
    /\ LockFree
    /\ Key(t) \notin seen
    /\ pc' = [pc EXCEPT ![t] = "refused"]
    /\ UNCHANGED <<durable, hostVol, job, staged, conns, sockets, crashes>>

\* Mutant: an intent is committed again when it is sent again.
JournalCommitMut(t) ==
    LET e == Commit(nextSeq, Origin(t), job[t]) IN
    /\ pc[t] = "intent"
    /\ LockFree
    /\ nextSeq' = nextSeq + 1
    /\ audit' = Append(audit, e)
    /\ staged' = [staged EXCEPT ![t] = e]
    /\ pc' = [pc EXCEPT ![t] = "committing"]
    /\ UNCHANGED <<outbox, cursor, inbox, uncertain, up, fault, seen, commits, peers, job,
                   conns, sockets, crashes>>

\* _commit admits the intent: a sequence number is taken and the commit
\* reaches the disk while order_lock is held.
JournalCommit(t) ==
    LET e == Commit(nextSeq, Origin(t), job[t]) IN
    /\ pc[t] = "intent"
    /\ LockFree
    /\ Key(t) \notin seen
    /\ nextSeq' = nextSeq + 1
    /\ audit' = Append(audit, e)
    /\ staged' = [staged EXCEPT ![t] = e]
    /\ pc' = [pc EXCEPT ![t] = "committing"]
    /\ UNCHANGED <<outbox, cursor, inbox, uncertain, up, fault, seen, commits, peers, job,
                   conns, sockets, crashes>>

\* _commit then updates memory, files the commit for the host's own game and
\* releases the lock; the broadcast comes after.
ApplyCommit(t) ==
    /\ pc[t] = "committing"
    /\ seen' = seen \union {Key(t)}
    /\ commits' = commits \union {staged[t]}
    /\ inbox' = [inbox EXCEPT ![Host] = @ \union {staged[t]}]
    /\ pc' = [pc EXCEPT ![t] = "broadcast"]
    /\ UNCHANGED <<outbox, cursor, audit, uncertain, up, fault, nextSeq, peers, job, staged,
                   conns, sockets, crashes>>

BroadcastCommit(t) ==
    /\ pc[t] = "broadcast"
    /\ toClient' = Broadcast(staged[t])
    /\ pc' = [pc EXCEPT ![t] = "reply"]
    /\ UNCHANGED <<durable, hostVol, job, staged, conns, session, used, synced, sent,
                   crashes>>

\* Mutant: an intent already rejected is dropped without an answer.
RejectionExistsMut(t) ==
    /\ pc[t] = "refused"
    /\ LockFree
    /\ \E e \in commits : e.kind = "rejected" /\ <<e.peer, e.local>> = Key(t)
    /\ pc' = [pc EXCEPT ![t] = "idle"]
    /\ UNCHANGED <<durable, hostVol, job, staged, conns, sockets, crashes>>

\* _reject_intent: an intent already rejected is answered again; another is
\* given a sequence number and journalled like a commit.
RejectionExists(t) ==
    /\ pc[t] = "refused"
    /\ LockFree
    /\ \E e \in commits : e.kind = "rejected" /\ <<e.peer, e.local>> = Key(t)
    /\ pc' = [pc EXCEPT ![t] = "reply"]
    /\ UNCHANGED <<durable, hostVol, job, staged, conns, sockets, crashes>>

JournalRejection(t) ==
    LET e == Rejection(nextSeq, Origin(t), job[t]) IN
    /\ pc[t] = "refused"
    /\ LockFree
    /\ ~ \E x \in commits : x.kind = "rejected" /\ <<x.peer, x.local>> = Key(t)
    /\ nextSeq' = nextSeq + 1
    /\ audit' = Append(audit, e)
    /\ staged' = [staged EXCEPT ![t] = e]
    /\ pc' = [pc EXCEPT ![t] = "rejecting"]
    /\ UNCHANGED <<outbox, cursor, inbox, uncertain, up, fault, seen, commits, peers, job,
                   conns, sockets, crashes>>

\* A rejection is broadcast before order_lock is released.
ApplyRejection(t) ==
    /\ pc[t] = "rejecting"
    /\ commits' = commits \union {staged[t]}
    /\ inbox' = [inbox EXCEPT ![Host] = @ \union {staged[t]}]
    /\ toClient' = Broadcast(staged[t])
    /\ pc' = [pc EXCEPT ![t] = "reply"]
    /\ UNCHANGED <<outbox, cursor, audit, uncertain, up, fault, nextSeq, seen, peers, job,
                   staged, conns, session, used, synced, sent, crashes>>

\* _record_non_intent: an event is journalled without a sequence number, and
\* without asking whether it was journalled before; or it is malformed and
\* refused, for which there is no ordered answer.
JournalEvent(t) ==
    /\ pc[t] = "event"
    /\ LockFree
    /\ audit' = Append(audit, Record(Origin(t), job[t]))
    /\ pc' = [pc EXCEPT ![t] = "reply"]
    /\ UNCHANGED <<outbox, cursor, inbox, uncertain, hostVol, job, staged, conns, sockets,
                   crashes>>

RefuseEvent(t) ==
    /\ pc[t] = "event"
    /\ LockFree
    /\ pc' = [pc EXCEPT ![t] = "reply"]
    /\ UNCHANGED <<durable, hostVol, job, staged, conns, sockets, crashes>>

----------------------------------------------------------------------------
(* The journal fails.                                                      *)

\* The entry thread t would journal next, and the sequence number after it.
Unwritten(t) ==
    CASE pc[t] = "intent"  -> Commit(nextSeq, Origin(t), job[t])
      [] pc[t] = "refused" -> Rejection(nextSeq, Origin(t), job[t])
      [] OTHER             -> Record(Origin(t), job[t])

\* AuditLog.append raises AuditUnavailable.  The line may or may not have
\* reached the disk; the sequence number is spent either way, memory is not
\* updated and order_lock is released.
AppendFails(t) ==
    /\ pc[t] \in {"intent", "refused", "event"}
    /\ Cardinality(uncertain) < MaxAuditFail
    /\ LockFree
    /\ pc[t] = "intent" => Key(t) \notin seen
    /\ pc[t] = "refused" =>
         ~ \E x \in commits : x.kind = "rejected" /\ <<x.peer, x.local>> = Key(t)
    /\ nextSeq' = IF pc[t] = "event" THEN nextSeq ELSE nextSeq + 1
    /\ uncertain' = uncertain \union {Key(t)}
    /\ audit' \in {audit, Append(audit, Unwritten(t))}
    /\ pc' = [pc EXCEPT ![t] = "raised"]
    /\ UNCHANGED <<outbox, cursor, inbox, up, fault, seen, commits, peers, job, staged,
                   conns, sockets, crashes>>

\* A connection's thread reports the failure (_enter_audit_fault) and ends.
EnterAuditFault(k) ==
    /\ pc[k] = "raised"
    /\ pc' = [pc EXCEPT ![k] = "idle"]
    /\ fault' = TRUE
    /\ serve' = [serve EXCEPT ![k] = "gone"]
    /\ peers' = Without(k)
    /\ UNCHANGED <<durable, up, nextSeq, seen, commits, job, staged, replayed, got, sockets,
                   crashes>>

\* The main loop finds the failure, its own or a connection's, stops polling
\* and closes the listener and every registered connection.
Fence ==
    /\ up = "up"
    /\ pc[Main] = "raised" \/ (pc[Main] = "idle" /\ fault)
    /\ up' = "fenced"
    /\ fault' = TRUE
    /\ pc' = [pc EXCEPT ![Main] = "idle"]
    /\ serve' = [k \in Conns |-> IF peers[k[1]] = k[2] THEN "shut" ELSE serve[k]]
    /\ peers' = [c \in Clients |-> 0]
    /\ UNCHANGED <<durable, nextSeq, seen, commits, job, staged, replayed, got, sockets,
                   crashes>>

----------------------------------------------------------------------------
(* The host companion crashes and is started again.                        *)

\* (Bound: every client keeps a connection to come back with.)
HostCrash ==
    /\ up # "down"
    /\ crashes < MaxCrash
    /\ \A c \in Clients : used[c] < MaxConn
    /\ crashes' = crashes + 1
    /\ up' = "down"
    /\ fault' = FALSE
    /\ nextSeq' = 1
    /\ seen' = {}
    /\ commits' = {}
    /\ peers' = [c \in Clients |-> 0]
    /\ pc' = [t \in Threads |-> "idle"]
    /\ job' = [t \in Threads |-> 0]
    /\ staged' = [t \in Threads |-> None]
    /\ serve' = [k \in Conns |-> IF serve[k] = "none" THEN "none" ELSE "gone"]
    /\ UNCHANGED <<durable, replayed, got, sockets>>

\* Mutants: the restarted host goes on from the last number instead of the one
\* after it; forgets whose intents it committed; loads commits only.
HostRestartReuseMut ==
    /\ up = "down"
    /\ up' = "up"
    /\ commits' = Ordered(Entries)
    /\ seen' = Committed(Entries)
    /\ nextSeq' \in {0} \union {e.seq : e \in Entries}
    /\ \A e \in Entries : e.seq <= nextSeq'
    /\ UNCHANGED <<durable, fault, peers, threads, conns, sockets, crashes>>

HostRestartForgetMut ==
    /\ up = "down"
    /\ up' = "up"
    /\ commits' = Ordered(Entries)
    /\ seen' = {}
    /\ nextSeq' \in {1} \union {e.seq + 1 : e \in Entries}
    /\ \A e \in Entries : e.seq < nextSeq'
    /\ UNCHANGED <<durable, fault, peers, threads, conns, sockets, crashes>>

\* _load_audit: what is in the journal is what was ordered.
HostRestart ==
    /\ up = "down"
    /\ up' = "up"
    /\ commits' = Ordered(Entries)
    /\ seen' = Committed(Entries)
    /\ nextSeq' \in {1} \union {e.seq + 1 : e \in Entries}
    /\ \A e \in Entries : e.seq < nextSeq'
    /\ UNCHANGED <<durable, fault, peers, threads, conns, sockets, crashes>>

----------------------------------------------------------------------------
Game == \E p \in Peers, kind \in Kinds : Emit(p, kind)

ClientStep(c) ==
    \/ Connect(c)
    \/ ReceiveOrdered(c)
    \/ ReceiveSyncReady(c)
    \/ ReceiveReceipt(c)
    \/ ClientSend(c)
    \/ ClientNoticesClose(c)

ConnStep(k) ==
    \/ ReplayBatch(k)
    \/ ReplayMissing(k)
    \/ Register(k)
    \/ Read(k)
    \/ ReplyToClient(k)

MainStep == MainRead \/ MainAcknowledge \/ Fence

Order(t) ==
    \/ Deduplicate(t)
    \/ Refuse(t)
    \/ JournalCommit(t)
    \/ ApplyCommit(t)
    \/ BroadcastCommit(t)
    \/ RejectionExists(t)
    \/ JournalRejection(t)
    \/ ApplyRejection(t)
    \/ JournalEvent(t)
    \/ RefuseEvent(t)

Next ==
    \/ Game
    \/ \E c \in Clients : ClientStep(c) \/ ClientDrop(c)
    \/ \E k \in Conns : ConnStep(k) \/ Hangup(k) \/ EnterAuditFault(k)
    \/ MainStep
    \/ \E t \in Threads : Order(t) \/ AppendFails(t)
    \/ HostCrash
    \/ HostRestart

Spec == Init /\ [][Next]_vars

\* Both companions poll in a loop, every connection has a thread blocked on
\* its socket or on order_lock, and a crashed host is started again; a step
\* that one of them can take is not put off for ever.  Nothing is assumed of
\* the games, the network or the journal.
Fairness ==
    /\ \A c \in Clients : WF_vars(ClientStep(c))
    /\ \A k \in Conns : WF_vars(ConnStep(k) \/ EnterAuditFault(k))
    /\ WF_vars(MainStep)
    /\ \A t \in Threads : WF_vars(Order(t))
    /\ WF_vars(HostRestart)

LiveSpec == Spec /\ Fairness

----------------------------------------------------------------------------
(* Invariants.                                                             *)

TypeOK ==
    /\ outbox \in [Peers -> Seq(Kinds)]
    /\ cursor \in [Peers -> Nat]
    /\ inbox \in [Peers -> SUBSET Entry]
    /\ audit \in Seq(Entry)
    /\ uncertain \subseteq Peers \X Nat
    /\ up \in {"up", "fenced", "down"}
    /\ fault \in BOOLEAN
    /\ nextSeq \in Nat \ {0}
    /\ seen \subseteq Peers \X Nat
    /\ commits \subseteq Entry
    /\ peers \in [Clients -> 0 .. MaxConn]
    /\ pc \in [Threads -> {"idle", "intent", "event", "refused", "committing", "broadcast",
                           "rejecting", "reply", "raised"}]
    /\ job \in [Threads -> Nat]
    /\ staged \in [Threads -> Entry]
    /\ serve \in [Conns -> {"none", "syncing", "ready", "shut", "gone"}]
    /\ replayed \in [Conns -> Nat]
    /\ got \in [Conns -> Nat]
    /\ session \in [Clients -> 0 .. MaxConn]
    /\ used \in [Clients -> 0 .. MaxConn]
    /\ synced \in [Clients -> BOOLEAN]
    /\ sent \in [Conns -> Nat]
    /\ toClient \in [Conns -> Seq(Frame)]
    /\ crashes \in Nat

\* Across crashes of the host, lost receipts, resent intents and two threads
\* serving one client at once, an intent is committed at most once (unless its
\* own journal append raised: then the host does not know whether it was).
ExactlyOnce ==
    \A i, j \in DOMAIN audit :
        /\ audit[i].kind = "commit" /\ audit[j].kind = "commit"
        /\ audit[i].peer = audit[j].peer /\ audit[i].local = audit[j].local
        => i = j \/ <<audit[i].peer, audit[i].local>> \in uncertain

\* What any game can see, or a connection is carrying, is in the journal, and
\* two games never see different entries under one sequence number: no crash
\* makes the host reuse a number it has shown to someone
\* ("conflicting inbound commit" is never raised).
WriteAhead ==
    /\ \A p \in Peers : inbox[p] \subseteq Entries
    /\ \A p, q \in Peers : \A e \in inbox[p], f \in inbox[q] : e.seq = f.seq => e = f

\* A registered connection misses nothing: what the host has ordered is filed
\* by the client, is on its way to it, or is about to be broadcast by the
\* thread that ordered it, however commits race with the catch-up.
NothingMissed ==
    \A c \in Clients :
        session[c] # 0 /\ peers[c] = session[c] =>
            \A e \in commits :
                \/ e \in inbox[c]
                \/ e \in Frames(<<c, session[c]>>)
                \/ \E t \in Threads : pc[t] = "broadcast" /\ staged[t] = e

\* A message the companion will not send again was decided: an acknowledged
\* intent is committed or rejected in the journal, whichever thread answered.
AcknowledgedIsDecided ==
    \A p \in Peers : \A l \in 1 .. cursor[p] :
        outbox[p][l] = "intent" =>
            \E e \in Ordered(Entries) : e.peer = p /\ e.local = l

\* One game's intents are committed in the order it made them, except one that
\* was refused before the later one was committed.
OriginOrder ==
    \A i, j \in DOMAIN audit :
        /\ i < j /\ audit[i].kind = "commit" /\ audit[j].kind = "commit"
        /\ audit[i].peer = audit[j].peer /\ audit[j].local < audit[i].local
        => \E h \in 1 .. i : /\ audit[h].kind = "rejected"
                             /\ audit[h].peer = audit[j].peer
                             /\ audit[h].local = audit[j].local

\* No receipt skips a message ("outbox acknowledgement gap" is never raised).
AcknowledgementsHaveNoGap ==
    \A c \in Clients :
        session[c] # 0 /\ toClient[<<c, session[c]>>] # << >> =>
            LET m == Head(toClient[<<c, session[c]>>])
            IN  m.kind = "receipt" => m.local <= cursor[c] + 1

----------------------------------------------------------------------------
(* The inductive invariant behind ExactlyOnce and WriteAhead.              *)

\* No companion is ahead of the game it reads from.
Bounded ==
    /\ \A p \in Peers : cursor[p] <= Len(outbox[p])
    /\ \A k \in Conns : got[k] <= sent[k] /\ sent[k] <= Len(outbox[k[1]])
    /\ \A t \in Threads : job[t] <= Len(outbox[Origin(t)])
    /\ \A k \in Conns : \A m \in Frames(k) :
           m.kind = "receipt" => m.local <= Len(outbox[k[1]])

\* The journal is numbered: no ordered entry shares its number with another,
\* and a running host's next number is beyond them all.
Numbered ==
    /\ \A e \in Ordered(Entries) : e.seq > 0
    /\ \A e, f \in Ordered(Entries) : e.seq = f.seq => e = f
    /\ up # "down" => \A e \in Entries : e.seq < nextSeq

\* A thread past its journal append is ordering an entry of the journal, for
\* the message it is working on.
Staged ==
    \A t \in Threads :
        /\ pc[t] \in {"committing", "rejecting", "broadcast"} =>
             /\ up # "down"
             /\ staged[t] \in Ordered(Entries)
        /\ pc[t] = "committing" => <<staged[t].peer, staged[t].local>> = Key(t)
        /\ pc[t] = "broadcast" => staged[t] \in commits

\* Memory and everything sent from it come from the journal.
Sourced ==
    /\ commits \subseteq Ordered(Entries)
    /\ \A p \in Peers : inbox[p] \subseteq Ordered(Entries)
    /\ \A k \in Conns : \A m \in Frames(k) : IsOrdered(m) => m \in Ordered(Entries)
    /\ up # "down" =>
         /\ \A p \in Peers : inbox[p] \subseteq commits
         /\ \A k \in Conns : \A m \in Frames(k) : IsOrdered(m) => m \in commits

\* A running host remembers every intent in its journal, but for the commit
\* being ordered now and the ones whose append raised.
Remembered ==
    up # "down" =>
        \A e \in Entries : e.kind = "commit" =>
            \/ <<e.peer, e.local>> \in seen
            \/ <<e.peer, e.local>> \in uncertain
            \/ \E t \in Threads : pc[t] = "committing" /\ staged[t] = e

\* Nothing of a crashed host is still running.
Stopped ==
    up = "down" =>
        /\ commits = {}
        /\ \A t \in Threads : pc[t] = "idle"
        /\ \A k \in Conns : serve[k] \in {"none", "gone"}

IInv == Stopped /\ Bounded /\ Numbered /\ Staged /\ Sourced /\ Remembered /\ ExactlyOnce

----------------------------------------------------------------------------
(* The promise, and progress.                                              *)

OL == INSTANCE OrderedLog WITH log <- Ordered(Entries), known <- inbox

\* While no append fails, the host, its clients and their sockets together
\* implement one exactly-once log that every game reads.
ImplementsOrderedLog == OL!Spec

\* Whatever is lost on the way, every message a game emits is answered and
\* leaves its companion's queue.
EveryMessageAnswered ==
    \A p \in Peers : \A l \in 1 .. MaxLocal[p] :
        Len(outbox[p]) >= l ~> cursor[p] >= l

\* The connection a client is using is served, and another holds its place in
\* host.peers.
Displaced(c) ==
    /\ session[c] # 0
    /\ serve[<<c, session[c]>>] = "ready"
    /\ peers[c] # session[c]

\* The first numbers of the order.  (Bound: enough for every message of the
\* instances to be both rejected and committed.)
SomeSeqs == 1 .. 4

\* A client that is not displaced for good receives everything the host orders.
EveryEntryDelivered ==
    \A c \in Clients :
        []<>~Displaced(c) =>
            \A n \in SomeSeqs : n \in Seqs(commits) ~> n \in Seqs(inbox[c])

=============================================================================
