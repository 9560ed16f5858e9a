------------------------- MODULE CommitOrder_proofs -------------------------
(***************************************************************************)
(* Machine-checked proofs about CommitOrder, for any set of clients and    *)
(* any bounds, in four parts: what is in the journal, in memory and in the *)
(* inboxes (the type invariant, the inductive invariant IInv, and its      *)
(* consequences ExactlyOnce and WriteAhead); what the host decides         *)
(* (AcknowledgedIsDecided, OriginOrder); what it delivers                  *)
(* (AcknowledgementsHaveNoGap, NothingMissed); and that it implements      *)
(* OrderedLog while no journal append fails.                               *)
(*                                                                         *)
(* The argument of the first part.  The journal is written before memory,  *)
(* so memory, sockets and inboxes hold only what the journal holds         *)
(* (Sourced), a restart loses nothing (Remembered), and a number is never  *)
(* given out again (Numbered).  order_lock is held from the append to the  *)
(* update of seen, so the only commit of the journal that seen lacks is    *)
(* the one being ordered (Staged).  Bounded says that a thread works on a  *)
(* message its game did emit.                                              *)
(***************************************************************************)
EXTENDS CommitOrder, FiniteSetTheorems, TLAPS

\* The names of the peers, the connections and the threads serving them.
LEMMA Names ==
    /\ Clients \subseteq Peers /\ Host \in Peers
    /\ Conns \subseteq Threads /\ Main \in Threads
    /\ \A k \in Conns : k[1] \in Clients /\ k[2] \in 1 .. MaxConn /\ k = <<k[1], k[2]>>
    /\ \A t \in Threads : Origin(t) \in Peers
    /\ \A c \in Clients, i \in 1 .. MaxConn : <<c, i>> \in Conns
  BY HostAssumption, BoundAssumption DEF Peers, Conns, Threads, Main, Origin

\* A connection is a thread, of a client.
LEMMA ConnFacts ==
    ASSUME NEW k \in Conns
    PROVE  k \in Threads /\ k[1] \in Clients /\ k[1] \in Peers /\ k[2] \in 1 .. MaxConn
  BY Names

\* The connection a client is using is one of its connections.
LEMMA SessionConn ==
    ASSUME TypeOK, NEW c \in Clients, session[c] # 0
    PROVE  <<c, session[c]>> \in Conns
<1>1. session[c] \in 0 .. MaxConn /\ MaxConn \in Nat
  BY BoundAssumption DEF TypeOK
<1>2. session[c] \in 1 .. MaxConn
  BY <1>1
<1> QED BY <1>2 DEF Conns

\* When the host's memory has every sequence number a connection lacks, the batch
\* ReplayBatch sends it is a sequence of entries from that memory.
LEMMA BatchTyped ==
    ASSUME NEW k, replayed[k] \in Nat, nextSeq - 1 - replayed[k] \in Nat, nextSeq \in Nat,
           Lacking(k) \subseteq Seqs(commits)
    PROVE  Batch(k) \in Seq(commits)
<1> DEFINE n == nextSeq - 1 - replayed[k]
<1>1. ASSUME NEW j \in 1 .. n
      PROVE  (CHOOSE e \in commits : e.seq = replayed[k] + j) \in commits
  <2>1. replayed[k] + j \in Lacking(k)
    BY <1>1 DEF Lacking
  <2>2. \E e \in commits : e.seq = replayed[k] + j
    BY <2>1 DEF Seqs
  <2> QED BY <2>2
<1>2. Batch(k) \in [1 .. n -> commits]
  BY <1>1 DEF Batch
<1> QED BY <1>2

\* What a typed journal holds is typed.
LEMMA EntriesTyped == ASSUME audit \in Seq(Entry) PROVE Entries \subseteq Entry
  BY DEF Entries, Range

PcValues == [Threads -> {"idle", "intent", "event", "refused", "committing", "broadcast",
                         "rejecting", "reply", "raised"}]

\* Every step of the host, the clients and the games keeps the type invariant.
LEMMA TypeStep == ASSUME TypeOK, Bounded, [Next]_vars PROVE TypeOK'
<1>1. ASSUME NEW p \in Peers, NEW kind \in Kinds, Emit(p, kind) PROVE TypeOK'
  <2>1. outbox' \in [Peers -> Seq(Kinds)]
    BY <1>1 DEF Emit, TypeOK
  <2>2. UNCHANGED <<cursor, inbox, audit, uncertain, up, fault, nextSeq, seen, commits,
                    peers, pc, job, staged, serve, replayed, got, session, used, synced,
                    sent, toClient, crashes>>
    BY <1>1 DEF Emit, durable, hostVol, threads, conns, sockets
  <2> QED BY <2>1, <2>2 DEF TypeOK
<1>2. ASSUME NEW c \in Clients, Connect(c) PROVE TypeOK'
  <2>1. \E last \in 0 .. nextSeq - 1 :
            replayed' = [replayed EXCEPT ![<<c, used[c] + 1>>] = last]
    BY <1>2 DEF Connect
  <2>2. used[c] + 1 \in 0 .. MaxConn
    BY <1>2, BoundAssumption DEF Connect, TypeOK
  <2>3. nextSeq \in Nat /\ replayed \in [Conns -> Nat]
    BY <1>2 DEF TypeOK
  <2>4. peers' \in [Clients -> 0 .. MaxConn]
    BY <1>2, BoundAssumption DEF Connect, TypeOK
  <2>5. serve' \in [Conns -> {"none", "syncing", "ready", "shut", "gone"}]
    BY <1>2 DEF Connect, TypeOK
  <2>6. replayed' \in [Conns -> Nat]
    <3>1. PICK last \in 0 .. nextSeq - 1 :
            replayed' = [replayed EXCEPT ![<<c, used[c] + 1>>] = last]
      BY <2>1
    <3>2. last \in Nat
      BY <2>3
    <3> QED BY <2>3, <3>1, <3>2
  <2>7. got' \in [Conns -> Nat]
    BY <1>2, Names DEF Connect, TypeOK
  <2>8. session' \in [Clients -> 0 .. MaxConn]
    BY <1>2, <2>2 DEF Connect, TypeOK
  <2>9. used' \in [Clients -> 0 .. MaxConn]
    BY <1>2, <2>2 DEF Connect, TypeOK
  <2>10. synced' \in [Clients -> BOOLEAN]
    BY <1>2 DEF Connect, TypeOK
  <2>11. sent' \in [Conns -> Nat]
    BY <1>2, Names DEF Connect, TypeOK
  <2>12. UNCHANGED <<outbox, cursor, inbox, audit, uncertain, up, fault, nextSeq, seen,
                     commits, pc, job, staged, toClient, crashes>>
    BY <1>2 DEF Connect, durable, hostVol, threads, conns, sockets
  <2> QED BY <2>4, <2>5, <2>6, <2>7, <2>8, <2>9, <2>10, <2>11, <2>12 DEF TypeOK
<1>3. ASSUME NEW c \in Clients, ReceiveOrdered(c) PROVE TypeOK'
  <2>1. <<c, session[c]>> \in Conns
    BY <1>3, SessionConn DEF ReceiveOrdered
  <2>2. Head(toClient[<<c, session[c]>>]) \in Frame
    BY <1>3, <2>1 DEF ReceiveOrdered, TypeOK
  <2>3. Head(toClient[<<c, session[c]>>]) \in Entry
    BY <1>3, <2>2 DEF ReceiveOrdered, Frame, IsOrdered, SyncReady
  <2>4. inbox' \in [Peers -> SUBSET Entry]
    BY <1>3, Names, <2>3 DEF ReceiveOrdered, TypeOK
  <2>5. toClient' \in [Conns -> Seq(Frame)]
    BY <1>3, <2>1 DEF ReceiveOrdered, TypeOK
  <2>6. UNCHANGED <<outbox, cursor, audit, uncertain, up, fault, nextSeq, seen, commits,
                    peers, pc, job, staged, serve, replayed, got, session, used, synced,
                    sent, crashes>>
    BY <1>3 DEF ReceiveOrdered, durable, hostVol, threads, conns, sockets
  <2> QED BY <2>4, <2>5, <2>6 DEF TypeOK
<1>4. ASSUME NEW c \in Clients, ReceiveSyncReady(c) PROVE TypeOK'
  <2>1. <<c, session[c]>> \in Conns
    BY <1>4, SessionConn DEF ReceiveSyncReady
  <2>2. synced' \in [Clients -> BOOLEAN]
    BY <1>4 DEF ReceiveSyncReady, TypeOK
  <2>3. toClient' \in [Conns -> Seq(Frame)]
    BY <1>4, <2>1 DEF ReceiveSyncReady, TypeOK
  <2>4. UNCHANGED <<outbox, cursor, inbox, audit, uncertain, up, fault, nextSeq, seen,
                    commits, peers, pc, job, staged, serve, replayed, got, session, used,
                    sent, crashes>>
    BY <1>4 DEF ReceiveSyncReady, durable, hostVol, threads, conns, sockets
  <2> QED BY <2>2, <2>3, <2>4 DEF TypeOK
<1>5. ASSUME NEW c \in Clients, ReceiveReceipt(c) PROVE TypeOK'
  <2>1. <<c, session[c]>> \in Conns
    BY <1>5, SessionConn DEF ReceiveReceipt
  <2>2. Head(toClient[<<c, session[c]>>]).local \in Nat
    BY <1>5, <2>1 DEF ReceiveReceipt, TypeOK, Frame, Entry, SyncReady
  <2>3. cursor' \in [Peers -> Nat]
    BY <1>5, Names, <2>2 DEF ReceiveReceipt, TypeOK
  <2>4. toClient' \in [Conns -> Seq(Frame)]
    BY <1>5, <2>1 DEF ReceiveReceipt, TypeOK
  <2>5. UNCHANGED <<outbox, inbox, audit, uncertain, up, fault, nextSeq, seen, commits,
                    peers, pc, job, staged, serve, replayed, got, session, used, synced,
                    sent, crashes>>
    BY <1>5 DEF ReceiveReceipt, durable, hostVol, threads, conns, sockets
  <2> QED BY <2>3, <2>4, <2>5 DEF TypeOK
<1>6. ASSUME NEW c \in Clients, ClientSend(c) PROVE TypeOK'
  <2>1. <<c, session[c]>> \in Conns
    BY <1>6, SessionConn DEF ClientSend
  <2>2. sent' \in [Conns -> Nat]
    BY <1>6, <2>1 DEF ClientSend, TypeOK
  <2>3. UNCHANGED <<outbox, cursor, inbox, audit, uncertain, up, fault, nextSeq, seen,
                    commits, peers, pc, job, staged, serve, replayed, got, session, used,
                    synced, toClient, crashes>>
    BY <1>6 DEF ClientSend, durable, hostVol, threads, conns, sockets
  <2> QED BY <2>2, <2>3 DEF TypeOK
<1>7. ASSUME NEW c \in Clients, ClientNoticesClose(c) PROVE TypeOK'
  <2>1. <<c, session[c]>> \in Conns
    BY <1>7, SessionConn DEF ClientNoticesClose
  <2>2. session' \in [Clients -> 0 .. MaxConn]
    BY <1>7, BoundAssumption DEF ClientNoticesClose, TypeOK, EndSession
  <2>3. synced' \in [Clients -> BOOLEAN]
    BY <1>7 DEF ClientNoticesClose, TypeOK, EndSession
  <2>4. toClient' \in [Conns -> Seq(Frame)]
    BY <1>7, <2>1 DEF ClientNoticesClose, TypeOK, EndSession
  <2>5. UNCHANGED <<outbox, cursor, inbox, audit, uncertain, up, fault, nextSeq, seen,
                    commits, peers, pc, job, staged, serve, replayed, got, used, sent,
                    crashes>>
    BY <1>7 DEF ClientNoticesClose, durable, hostVol, threads, conns, sockets, EndSession
  <2> QED BY <2>2, <2>3, <2>4, <2>5 DEF TypeOK
<1>8. ASSUME NEW c \in Clients, ClientDrop(c) PROVE TypeOK'
  <2>1. <<c, session[c]>> \in Conns
    BY <1>8, SessionConn DEF ClientDrop
  <2>2. session' \in [Clients -> 0 .. MaxConn]
    BY <1>8, BoundAssumption DEF ClientDrop, TypeOK, EndSession
  <2>3. synced' \in [Clients -> BOOLEAN]
    BY <1>8 DEF ClientDrop, TypeOK, EndSession
  <2>4. toClient' \in [Conns -> Seq(Frame)]
    BY <1>8, <2>1 DEF ClientDrop, TypeOK, EndSession
  <2>5. UNCHANGED <<outbox, cursor, inbox, audit, uncertain, up, fault, nextSeq, seen,
                    commits, peers, pc, job, staged, serve, replayed, got, used, sent,
                    crashes>>
    BY <1>8 DEF ClientDrop, durable, hostVol, threads, conns, sockets, EndSession
  <2> QED BY <2>2, <2>3, <2>4, <2>5 DEF TypeOK
<1>9. ASSUME NEW k \in Conns, ReplayBatch(k) PROVE TypeOK'
  <2>1. /\ replayed[k] \in Nat /\ nextSeq \in Nat
        /\ nextSeq - 1 \in Nat /\ nextSeq - 1 - replayed[k] \in Nat
    BY <1>9 DEF TypeOK, ReplayBatch
  <2>2. Batch(k) \in Seq(commits)
    BY <1>9, BatchTyped, <2>1 DEF ReplayBatch
  <2>3. replayed' \in [Conns -> Nat]
    BY <1>9, <2>1 DEF ReplayBatch, TypeOK
  <2>4. toClient' \in [Conns -> Seq(Frame)]
    BY <1>9, <2>2 DEF ReplayBatch, TypeOK, Frame
  <2>5. UNCHANGED <<outbox, cursor, inbox, audit, uncertain, up, fault, nextSeq, seen,
                    commits, peers, pc, job, staged, serve, got, session, used, synced,
                    sent, crashes>>
    BY <1>9 DEF ReplayBatch, durable, hostVol, threads, conns, sockets
  <2> QED BY <2>3, <2>4, <2>5 DEF TypeOK
<1>10. ASSUME NEW k \in Conns, ReplayMissing(k) PROVE TypeOK'
  <2>1. serve' \in [Conns -> {"none", "syncing", "ready", "shut", "gone"}]
    BY <1>10 DEF ReplayMissing, TypeOK
  <2>2. UNCHANGED <<outbox, cursor, inbox, audit, uncertain, up, fault, nextSeq, seen,
                    commits, peers, pc, job, staged, replayed, got, session, used, synced,
                    sent, toClient, crashes>>
    BY <1>10 DEF ReplayMissing, durable, hostVol, threads, conns, sockets
  <2> QED BY <2>1, <2>2 DEF TypeOK
<1>11. ASSUME NEW k \in Conns, Register(k) PROVE TypeOK'
  <2>1. k[1] \in Clients /\ k[2] \in 0 .. MaxConn
    BY <1>11, ConnFacts, BoundAssumption
  <2>2. peers' \in [Clients -> 0 .. MaxConn]
    BY <1>11, <2>1 DEF Register, TypeOK
  <2>3. serve' \in [Conns -> {"none", "syncing", "ready", "shut", "gone"}]
    BY <1>11 DEF Register, TypeOK
  <2>4. toClient' \in [Conns -> Seq(Frame)]
    BY <1>11 DEF Register, TypeOK, Send, Frame
  <2>5. UNCHANGED <<outbox, cursor, inbox, audit, uncertain, up, fault, nextSeq, seen,
                    commits, pc, job, staged, replayed, got, session, used, synced, sent,
                    crashes>>
    BY <1>11 DEF Register, durable, hostVol, threads, conns, sockets
  <2> QED BY <2>2, <2>3, <2>4, <2>5 DEF TypeOK
<1>12. ASSUME NEW k \in Conns, Read(k) PROVE TypeOK'
  <2>1. k \in Threads /\ k[1] \in Peers
    BY <1>12, ConnFacts
  <2>2. outbox[k[1]] \in Seq(Kinds) /\ got[k] \in Nat /\ sent[k] \in Nat
    BY <1>12, <2>1 DEF TypeOK
  <2>3. got[k] + 1 \in 1 .. Len(outbox[k[1]])
    BY <1>12, <2>2 DEF Read, Bounded
  <2>4. outbox[k[1]][got[k] + 1] \in Kinds
    BY <1>12, <2>2, <2>3
  <2>5. pc' \in PcValues
    BY <1>12, <2>1, <2>4 DEF Read, TypeOK, PcValues, Kinds
  <2>6. job' \in [Threads -> Nat]
    BY <1>12, <2>1 DEF Read, TypeOK
  <2>7. got' \in [Conns -> Nat]
    BY <1>12 DEF Read, TypeOK
  <2>8. UNCHANGED <<outbox, cursor, inbox, audit, uncertain, up, fault, nextSeq, seen,
                    commits, peers, staged, serve, replayed, session, used, synced, sent,
                    toClient, crashes>>
    BY <1>12 DEF Read, durable, hostVol, threads, conns, sockets
  <2> QED BY <2>5, <2>6, <2>7, <2>8 DEF TypeOK, PcValues
<1>13. ASSUME NEW k \in Conns, ReplyToClient(k) PROVE TypeOK'
  <2>1. k \in Threads
    BY <1>13, ConnFacts
  <2>2. Receipt(job[k]) \in Frame
    BY <1>13, <2>1 DEF TypeOK, Receipt, Frame
  <2>3. toClient' = toClient \/ toClient' = [toClient EXCEPT ![k] = Append(@,
     Receipt(job[k]))]
    BY <1>13 DEF ReplyToClient, Send
  <2>4. toClient \in [Conns -> Seq(Frame)]
    BY <1>13 DEF TypeOK
  <2>5. Append(toClient[k], Receipt(job[k])) \in Seq(Frame)
    BY <1>13, <2>2, <2>4
  <2>6. pc' \in PcValues
    BY <1>13, Names DEF ReplyToClient, TypeOK, PcValues
  <2>7. serve' \in [Conns -> {"none", "syncing", "ready", "shut", "gone"}]
    BY <1>13 DEF ReplyToClient, TypeOK
  <2>8. toClient' \in [Conns -> Seq(Frame)]
    BY <2>3, <2>4, <2>5
  <2>9. UNCHANGED <<outbox, cursor, inbox, audit, uncertain, up, fault, nextSeq, seen,
                    commits, peers, job, staged, replayed, got, session, used, synced,
                    sent, crashes>>
    BY <1>13 DEF ReplyToClient, durable, hostVol, threads, conns, sockets
  <2> QED BY <2>6, <2>7, <2>8, <2>9 DEF TypeOK, PcValues
<1>14. ASSUME NEW k \in Conns, Hangup(k) PROVE TypeOK'
  <2>1. peers' \in [Clients -> 0 .. MaxConn]
    BY <1>14, BoundAssumption DEF Hangup, TypeOK, Without
  <2>2. serve' \in [Conns -> {"none", "syncing", "ready", "shut", "gone"}]
    BY <1>14 DEF Hangup, TypeOK
  <2>3. UNCHANGED <<outbox, cursor, inbox, audit, uncertain, up, fault, nextSeq, seen,
                    commits, pc, job, staged, replayed, got, session, used, synced, sent,
                    toClient, crashes>>
    BY <1>14 DEF Hangup, durable, hostVol, threads, conns, sockets
  <2> QED BY <2>1, <2>2, <2>3 DEF TypeOK
<1>15. ASSUME NEW k \in Conns, EnterAuditFault(k) PROVE TypeOK'
  <2>1. fault' \in BOOLEAN
    BY <1>15 DEF EnterAuditFault, TypeOK
  <2>2. peers' \in [Clients -> 0 .. MaxConn]
    BY <1>15, BoundAssumption DEF EnterAuditFault, TypeOK, Without
  <2>3. pc' \in PcValues
    BY <1>15, Names DEF EnterAuditFault, TypeOK, PcValues
  <2>4. serve' \in [Conns -> {"none", "syncing", "ready", "shut", "gone"}]
    BY <1>15 DEF EnterAuditFault, TypeOK
  <2>5. UNCHANGED <<outbox, cursor, inbox, audit, uncertain, up, nextSeq, seen, commits,
                    job, staged, replayed, got, session, used, synced, sent, toClient,
                    crashes>>
    BY <1>15 DEF EnterAuditFault, durable, hostVol, threads, conns, sockets
  <2> QED BY <2>1, <2>2, <2>3, <2>4, <2>5 DEF TypeOK, PcValues
<1>16. ASSUME NEW t \in Threads, Deduplicate(t) PROVE TypeOK'
  <2>1. pc' \in PcValues
    BY <1>16, Names DEF Deduplicate, TypeOK, PcValues
  <2>2. UNCHANGED <<outbox, cursor, inbox, audit, uncertain, up, fault, nextSeq, seen,
                    commits, peers, job, staged, serve, replayed, got, session, used,
                    synced, sent, toClient, crashes>>
    BY <1>16 DEF Deduplicate, durable, hostVol, threads, conns, sockets
  <2> QED BY <2>1, <2>2 DEF TypeOK, PcValues
<1>17. ASSUME NEW t \in Threads, Refuse(t) PROVE TypeOK'
  <2>1. pc' \in PcValues
    BY <1>17, Names DEF Refuse, TypeOK, PcValues
  <2>2. UNCHANGED <<outbox, cursor, inbox, audit, uncertain, up, fault, nextSeq, seen,
                    commits, peers, job, staged, serve, replayed, got, session, used,
                    synced, sent, toClient, crashes>>
    BY <1>17 DEF Refuse, durable, hostVol, threads, conns, sockets
  <2> QED BY <2>1, <2>2 DEF TypeOK, PcValues
<1>18. ASSUME NEW t \in Threads, RejectionExists(t) PROVE TypeOK'
  <2>1. pc' \in PcValues
    BY <1>18, Names DEF RejectionExists, TypeOK, PcValues
  <2>2. UNCHANGED <<outbox, cursor, inbox, audit, uncertain, up, fault, nextSeq, seen,
                    commits, peers, job, staged, serve, replayed, got, session, used,
                    synced, sent, toClient, crashes>>
    BY <1>18 DEF RejectionExists, durable, hostVol, threads, conns, sockets
  <2> QED BY <2>1, <2>2 DEF TypeOK, PcValues
<1>19. ASSUME NEW t \in Threads, RefuseEvent(t) PROVE TypeOK'
  <2>1. pc' \in PcValues
    BY <1>19, Names DEF RefuseEvent, TypeOK, PcValues
  <2>2. UNCHANGED <<outbox, cursor, inbox, audit, uncertain, up, fault, nextSeq, seen,
                    commits, peers, job, staged, serve, replayed, got, session, used,
                    synced, sent, toClient, crashes>>
    BY <1>19 DEF RefuseEvent, durable, hostVol, threads, conns, sockets
  <2> QED BY <2>1, <2>2 DEF TypeOK, PcValues
<1>20. ASSUME NEW t \in Threads, JournalCommit(t) PROVE TypeOK'
  <2>1. Commit(nextSeq, Origin(t), job[t]) \in Entry
    BY <1>20, Names DEF TypeOK, Commit, Rejection, Record, Entry
  <2>2. audit' \in Seq(Entry)
    BY <1>20, <2>1 DEF JournalCommit, TypeOK
  <2>3. nextSeq' \in Nat \ {0}
    BY <1>20 DEF JournalCommit, TypeOK
  <2>4. pc' \in PcValues
    BY <1>20 DEF JournalCommit, TypeOK, PcValues
  <2>5. staged' \in [Threads -> Entry]
    BY <1>20, <2>1 DEF JournalCommit, TypeOK
  <2>6. UNCHANGED <<outbox, cursor, inbox, uncertain, up, fault, seen, commits, peers, job,
                    serve, replayed, got, session, used, synced, sent, toClient, crashes>>
    BY <1>20 DEF JournalCommit, durable, hostVol, threads, conns, sockets
  <2> QED BY <2>2, <2>3, <2>4, <2>5, <2>6 DEF TypeOK, PcValues
<1>21. ASSUME NEW t \in Threads, JournalRejection(t) PROVE TypeOK'
  <2>1. Rejection(nextSeq, Origin(t), job[t]) \in Entry
    BY <1>21, Names DEF TypeOK, Commit, Rejection, Record, Entry
  <2>2. audit' \in Seq(Entry)
    BY <1>21, <2>1 DEF JournalRejection, TypeOK
  <2>3. nextSeq' \in Nat \ {0}
    BY <1>21 DEF JournalRejection, TypeOK
  <2>4. pc' \in PcValues
    BY <1>21 DEF JournalRejection, TypeOK, PcValues
  <2>5. staged' \in [Threads -> Entry]
    BY <1>21, <2>1 DEF JournalRejection, TypeOK
  <2>6. UNCHANGED <<outbox, cursor, inbox, uncertain, up, fault, seen, commits, peers, job,
                    serve, replayed, got, session, used, synced, sent, toClient, crashes>>
    BY <1>21 DEF JournalRejection, durable, hostVol, threads, conns, sockets
  <2> QED BY <2>2, <2>3, <2>4, <2>5, <2>6 DEF TypeOK, PcValues
<1>22. ASSUME NEW t \in Threads, JournalEvent(t) PROVE TypeOK'
  <2>1. Record(Origin(t), job[t]) \in Entry
    BY <1>22, Names DEF TypeOK, Commit, Rejection, Record, Entry
  <2>2. audit' \in Seq(Entry)
    BY <1>22, <2>1 DEF JournalEvent, TypeOK
  <2>3. pc' \in PcValues
    BY <1>22 DEF JournalEvent, TypeOK, PcValues
  <2>4. UNCHANGED <<outbox, cursor, inbox, uncertain, up, fault, nextSeq, seen, commits,
                    peers, job, staged, serve, replayed, got, session, used, synced, sent,
                    toClient, crashes>>
    BY <1>22 DEF JournalEvent, durable, hostVol, threads, conns, sockets
  <2> QED BY <2>2, <2>3, <2>4 DEF TypeOK, PcValues
<1>23. ASSUME NEW t \in Threads, AppendFails(t) PROVE TypeOK'
  <2>1. audit' = audit \/ audit' = Append(audit, Unwritten(t))
    BY <1>23 DEF AppendFails
  <2>2. Unwritten(t) \in Entry
    BY <1>23, Names DEF TypeOK, Unwritten, Commit, Rejection, Record, Entry
  <2>3. audit \in Seq(Entry)
    BY <1>23 DEF TypeOK
  <2>4. audit' \in Seq(Entry)
    BY <2>1, <2>2, <2>3
  <2>5. uncertain' \subseteq Peers \X Nat
    BY <1>23, Names DEF AppendFails, TypeOK, Key
  <2>6. nextSeq' \in Nat \ {0}
    BY <1>23 DEF AppendFails, TypeOK
  <2>7. pc' \in PcValues
    BY <1>23 DEF AppendFails, TypeOK, PcValues
  <2>8. UNCHANGED <<outbox, cursor, inbox, up, fault, seen, commits, peers, job, staged,
                    serve, replayed, got, session, used, synced, sent, toClient, crashes>>
    BY <1>23 DEF AppendFails, durable, hostVol, threads, conns, sockets
  <2> QED BY <2>4, <2>5, <2>6, <2>7, <2>8 DEF TypeOK, PcValues
<1>24. ASSUME NEW t \in Threads, ApplyCommit(t) PROVE TypeOK'
  <2>1. inbox' \in [Peers -> SUBSET Entry]
    BY <1>24, Names DEF ApplyCommit, TypeOK
  <2>2. seen' \subseteq Peers \X Nat
    BY <1>24, Names DEF ApplyCommit, TypeOK, Key
  <2>3. commits' \subseteq Entry
    BY <1>24 DEF ApplyCommit, TypeOK
  <2>4. pc' \in PcValues
    BY <1>24 DEF ApplyCommit, TypeOK, PcValues
  <2>5. UNCHANGED <<outbox, cursor, audit, uncertain, up, fault, nextSeq, peers, job,
                    staged, serve, replayed, got, session, used, synced, sent, toClient,
                    crashes>>
    BY <1>24 DEF ApplyCommit, durable, hostVol, threads, conns, sockets
  <2> QED BY <2>1, <2>2, <2>3, <2>4, <2>5 DEF TypeOK, PcValues
<1>25. ASSUME NEW t \in Threads, BroadcastCommit(t) PROVE TypeOK'
  <2>1. pc' \in PcValues
    BY <1>25 DEF BroadcastCommit, TypeOK, PcValues
  <2>2. toClient' \in [Conns -> Seq(Frame)]
    BY <1>25 DEF BroadcastCommit, TypeOK, Broadcast, Frame
  <2>3. UNCHANGED <<outbox, cursor, inbox, audit, uncertain, up, fault, nextSeq, seen,
                    commits, peers, job, staged, serve, replayed, got, session, used,
                    synced, sent, crashes>>
    BY <1>25 DEF BroadcastCommit, durable, hostVol, threads, conns, sockets
  <2> QED BY <2>1, <2>2, <2>3 DEF TypeOK, PcValues
<1>26. ASSUME NEW t \in Threads, ApplyRejection(t) PROVE TypeOK'
  <2>1. inbox' \in [Peers -> SUBSET Entry]
    BY <1>26, Names DEF ApplyRejection, TypeOK
  <2>2. commits' \subseteq Entry
    BY <1>26 DEF ApplyRejection, TypeOK
  <2>3. pc' \in PcValues
    BY <1>26 DEF ApplyRejection, TypeOK, PcValues
  <2>4. toClient' \in [Conns -> Seq(Frame)]
    BY <1>26 DEF ApplyRejection, TypeOK, Broadcast, Frame
  <2>5. UNCHANGED <<outbox, cursor, audit, uncertain, up, fault, nextSeq, seen, peers, job,
                    staged, serve, replayed, got, session, used, synced, sent, crashes>>
    BY <1>26 DEF ApplyRejection, durable, hostVol, threads, conns, sockets
  <2> QED BY <2>1, <2>2, <2>3, <2>4, <2>5 DEF TypeOK, PcValues
<1>27. ASSUME MainRead PROVE TypeOK'
  <2>1. outbox[Host] \in Seq(Kinds) /\ cursor[Host] \in Nat
    BY <1>27, Names DEF TypeOK
  <2>2. cursor[Host] + 1 \in 1 .. Len(outbox[Host])
    BY <1>27, <2>1 DEF MainRead
  <2>3. outbox[Host][cursor[Host] + 1] \in Kinds
    BY <1>27, <2>1, <2>2
  <2>4. pc' \in PcValues
    BY <1>27, Names, <2>3 DEF MainRead, TypeOK, PcValues, Kinds
  <2>5. job' \in [Threads -> Nat]
    BY <1>27, Names, <2>1 DEF MainRead, TypeOK
  <2>6. UNCHANGED <<outbox, cursor, inbox, audit, uncertain, up, fault, nextSeq, seen,
                    commits, peers, staged, serve, replayed, got, session, used, synced,
                    sent, toClient, crashes>>
    BY <1>27 DEF MainRead, durable, hostVol, threads, conns, sockets
  <2> QED BY <2>4, <2>5, <2>6 DEF TypeOK, PcValues
<1>28. ASSUME MainAcknowledge PROVE TypeOK'
  <2>1. cursor' \in [Peers -> Nat]
    BY <1>28, Names DEF MainAcknowledge, TypeOK
  <2>2. pc' \in PcValues
    BY <1>28, Names DEF MainAcknowledge, TypeOK, PcValues
  <2>3. UNCHANGED <<outbox, inbox, audit, uncertain, up, fault, nextSeq, seen, commits,
                    peers, job, staged, serve, replayed, got, session, used, synced, sent,
                    toClient, crashes>>
    BY <1>28 DEF MainAcknowledge, durable, hostVol, threads, conns, sockets
  <2> QED BY <2>1, <2>2, <2>3 DEF TypeOK, PcValues
<1>29. ASSUME Fence PROVE TypeOK'
  <2>1. up' \in {"up", "fenced", "down"}
    BY <1>29 DEF Fence, TypeOK
  <2>2. fault' \in BOOLEAN
    BY <1>29 DEF Fence, TypeOK
  <2>3. peers' \in [Clients -> 0 .. MaxConn]
    BY <1>29, BoundAssumption DEF Fence, TypeOK
  <2>4. pc' \in PcValues
    BY <1>29, Names DEF Fence, TypeOK, PcValues
  <2>5. serve' \in [Conns -> {"none", "syncing", "ready", "shut", "gone"}]
    BY <1>29 DEF Fence, TypeOK
  <2>6. UNCHANGED <<outbox, cursor, inbox, audit, uncertain, nextSeq, seen, commits, job,
                    staged, replayed, got, session, used, synced, sent, toClient, crashes>>
    BY <1>29 DEF Fence, durable, hostVol, threads, conns, sockets
  <2> QED BY <2>1, <2>2, <2>3, <2>4, <2>5, <2>6 DEF TypeOK, PcValues
<1>30. ASSUME HostCrash PROVE TypeOK'
  <2>1. up' \in {"up", "fenced", "down"}
    BY <1>30 DEF HostCrash, TypeOK
  <2>2. fault' \in BOOLEAN
    BY <1>30 DEF HostCrash, TypeOK
  <2>3. nextSeq' \in Nat \ {0}
    BY <1>30 DEF HostCrash, TypeOK
  <2>4. seen' \subseteq Peers \X Nat
    BY <1>30 DEF HostCrash, TypeOK
  <2>5. commits' \subseteq Entry
    BY <1>30 DEF HostCrash, TypeOK
  <2>6. peers' \in [Clients -> 0 .. MaxConn]
    BY <1>30, BoundAssumption DEF HostCrash, TypeOK
  <2>7. pc' \in PcValues
    BY <1>30 DEF HostCrash, TypeOK, PcValues
  <2>8. job' \in [Threads -> Nat]
    BY <1>30 DEF HostCrash, TypeOK
  <2>9. staged' \in [Threads -> Entry]
    BY <1>30, Names DEF HostCrash, TypeOK, None, Record, Entry
  <2>10. serve' \in [Conns -> {"none", "syncing", "ready", "shut", "gone"}]
    BY <1>30 DEF HostCrash, TypeOK
  <2>11. crashes' \in Nat
    BY <1>30 DEF HostCrash, TypeOK
  <2>12. UNCHANGED <<outbox, cursor, inbox, audit, uncertain, replayed, got, session, used,
                     synced, sent, toClient>>
    BY <1>30 DEF HostCrash, durable, hostVol, threads, conns, sockets
  <2> QED BY <2>1, <2>2, <2>3, <2>4, <2>5, <2>6, <2>7, <2>8, <2>9, <2>10, <2>11,
     <2>12 DEF TypeOK, PcValues
<1>31. ASSUME HostRestart PROVE TypeOK'
  <2>1. Entries \subseteq Entry
    BY <1>31, EntriesTyped DEF TypeOK
  <2>2. up' \in {"up", "fenced", "down"}
    BY <1>31 DEF HostRestart, TypeOK
  <2>3. nextSeq' \in Nat \ {0}
    BY <1>31, <2>1 DEF HostRestart, TypeOK, Entry
  <2>4. seen' \subseteq Peers \X Nat
    BY <1>31, <2>1 DEF HostRestart, TypeOK, Ordered, Committed, Entry
  <2>5. commits' \subseteq Entry
    BY <1>31, <2>1 DEF HostRestart, TypeOK, Ordered
  <2>6. UNCHANGED <<outbox, cursor, inbox, audit, uncertain, fault, peers, pc, job, staged,
                    serve, replayed, got, session, used, synced, sent, toClient, crashes>>
    BY <1>31 DEF HostRestart, durable, hostVol, threads, conns, sockets
  <2> QED BY <2>2, <2>3, <2>4, <2>5, <2>6 DEF TypeOK
<1>32. CASE UNCHANGED vars
  BY <1>32 DEF vars, TypeOK
<1> QED
  BY <1>1, <1>2, <1>3, <1>4, <1>5, <1>6, <1>7, <1>8, <1>9, <1>10, <1>11, <1>12, <1>13,
     <1>14, <1>15, <1>16, <1>17, <1>18, <1>19, <1>20, <1>21, <1>22, <1>23, <1>24, <1>25,
     <1>26, <1>27, <1>28, <1>29, <1>30, <1>31, <1>32
  DEF Next, Game, ClientStep, ConnStep, MainStep, Order

\* Appending to a sequence adds one element to what it holds.
LEMMA RangeAppend ==
    ASSUME NEW S, NEW s \in Seq(S), NEW e \in S
    PROVE  Range(Append(s, e)) = Range(s) \union {e}
<1>1. /\ DOMAIN s = 1 .. Len(s) /\ Len(s) \in Nat
      /\ DOMAIN Append(s, e) = 1 .. Len(s) + 1
      /\ Append(s, e)[Len(s) + 1] = e
      /\ \A i \in 1 .. Len(s) : Append(s, e)[i] = s[i]
  OBVIOUS
<1>2. \A i \in 1 .. Len(s) + 1 : i \in 1 .. Len(s) \/ i = Len(s) + 1
  BY <1>1
<1>3. Range(Append(s, e)) \subseteq Range(s) \union {e}
  BY <1>1, <1>2 DEF Range
<1>4. Range(s) \subseteq Range(Append(s, e)) /\ e \in Range(Append(s, e))
  BY <1>1 DEF Range
<1> QED BY <1>3, <1>4

\* A taken frame was in the queue, and the rest of the queue was too.
LEMMA RangeTail ==
    ASSUME NEW S, NEW s \in Seq(S), s # << >>
    PROVE  Range(Tail(s)) \subseteq Range(s) /\ Head(s) \in Range(s)
  BY DEF Range

\* Concatenation holds what its two parts hold.
LEMMA RangeConcat ==
    ASSUME NEW S, NEW s \in Seq(S), NEW b \in Seq(S)
    PROVE  Range(s \o b) \subseteq Range(s) \union Range(b)
<1> SUFFICES ASSUME NEW i \in DOMAIN (s \o b) PROVE (s \o b)[i] \in Range(s) \union Range(b)
  BY DEF Range
<1>1. CASE i <= Len(s) BY <1>1 DEF Range
<1>2. CASE i > Len(s)
  <2>1. i - Len(s) \in DOMAIN b /\ (s \o b)[i] = b[i - Len(s)] BY <1>2
  <2> QED BY <2>1 DEF Range
<1> QED BY <1>1, <1>2

\* A step that leaves the journal, what memory holds of it and the threads that
\* are ordering something alone.
Working == {"committing", "rejecting", "broadcast"}
Quiet ==
    /\ UNCHANGED <<audit, uncertain, nextSeq, up, seen, commits, staged>>
    /\ \A t \in Threads : pc[t] \in Working \/ pc'[t] \in Working =>
           pc'[t] = pc[t] /\ job'[t] = job[t]

Ordering(t) == \/ JournalCommit(t) \/ ApplyCommit(t) \/ BroadcastCommit(t)
               \/ JournalRejection(t) \/ ApplyRejection(t) \/ JournalEvent(t)
               \/ AppendFails(t)

\* Which steps can change the journal, the host's memory and its threads: an ordering
\* step, a working step that leaves journal and memory alone, Fence, HostCrash or
\* HostRestart; every other step leaves all of it as it was.
LEMMA Footprint ==
    ASSUME TypeOK, Bounded, [Next]_vars
    PROVE  \/ Quiet
           \/ \E t \in Threads : Ordering(t)
           \/ Fence \/ HostCrash \/ HostRestart
<1>1. ASSUME NEW p \in Peers, NEW kind \in Kinds, Emit(p, kind) PROVE Quiet
  BY <1>1, Names DEF Emit, Quiet, Working, durable, hostVol, threads, conns, sockets, TypeOK
<1>2. ASSUME NEW c \in Clients, Connect(c) PROVE Quiet
  BY <1>2, Names DEF Connect, Quiet, Working, durable, hostVol, threads, conns, sockets,
     TypeOK
<1>3. ASSUME NEW c \in Clients, ReceiveOrdered(c) PROVE Quiet
  BY <1>3, Names DEF ReceiveOrdered, Quiet, Working, durable, hostVol, threads, conns,
     sockets, TypeOK
<1>4. ASSUME NEW c \in Clients, ReceiveSyncReady(c) PROVE Quiet
  BY <1>4, Names DEF ReceiveSyncReady, Quiet, Working, durable, hostVol, threads, conns,
     sockets, TypeOK
<1>5. ASSUME NEW c \in Clients, ReceiveReceipt(c) PROVE Quiet
  BY <1>5, Names DEF ReceiveReceipt, Quiet, Working, durable, hostVol, threads, conns,
     sockets, TypeOK
<1>6. ASSUME NEW c \in Clients, ClientSend(c) PROVE Quiet
  BY <1>6, Names DEF ClientSend, Quiet, Working, durable, hostVol, threads, conns, sockets,
     TypeOK
<1>7. ASSUME NEW c \in Clients, ClientNoticesClose(c) PROVE Quiet
  BY <1>7, Names DEF ClientNoticesClose, Quiet, Working, durable, hostVol, threads, conns,
     sockets, TypeOK, EndSession
<1>8. ASSUME NEW c \in Clients, ClientDrop(c) PROVE Quiet
  BY <1>8, Names DEF ClientDrop, Quiet, Working, durable, hostVol, threads, conns, sockets,
     TypeOK, EndSession
<1>9. ASSUME NEW k \in Conns, ReplayBatch(k) PROVE Quiet
  BY <1>9, Names DEF ReplayBatch, Quiet, Working, durable, hostVol, threads, conns,
     sockets, TypeOK
<1>10. ASSUME NEW k \in Conns, ReplayMissing(k) PROVE Quiet
  BY <1>10, Names DEF ReplayMissing, Quiet, Working, durable, hostVol, threads, conns,
     sockets, TypeOK
<1>11. ASSUME NEW k \in Conns, Register(k) PROVE Quiet
  BY <1>11, Names DEF Register, Quiet, Working, durable, hostVol, threads, conns, sockets,
     TypeOK
<1>12. ASSUME NEW k \in Conns, Read(k) PROVE Quiet
  <2>1. k \in Threads /\ k[1] \in Peers BY <1>12, ConnFacts
  <2>2. outbox[k[1]] \in Seq(Kinds) /\ got[k] \in Nat /\ sent[k] \in Nat BY <1>12,
     <2>1 DEF TypeOK
  <2>3. got[k] + 1 \in 1 .. Len(outbox[k[1]]) BY <1>12, <2>2 DEF Read, Bounded
  <2>4. outbox[k[1]][got[k] + 1] \in Kinds BY <2>2, <2>3
  <2> QED BY <1>12, <2>1, <2>4 DEF Read, Kinds, Quiet, Working, durable, hostVol, threads,
     conns, sockets, TypeOK
<1>13. ASSUME NEW k \in Conns, ReplyToClient(k) PROVE Quiet
  BY <1>13, Names DEF ReplyToClient, Quiet, Working, durable, hostVol, threads, conns,
     sockets, TypeOK
<1>14. ASSUME NEW k \in Conns, Hangup(k) PROVE Quiet
  BY <1>14, Names DEF Hangup, Quiet, Working, durable, hostVol, threads, conns, sockets,
     TypeOK
<1>15. ASSUME NEW k \in Conns, EnterAuditFault(k) PROVE Quiet
  BY <1>15, Names DEF EnterAuditFault, Quiet, Working, durable, hostVol, threads, conns,
     sockets, TypeOK
<1>16. ASSUME NEW t \in Threads, Deduplicate(t) PROVE Quiet
  BY <1>16, Names DEF Deduplicate, Quiet, Working, durable, hostVol, threads, conns,
     sockets, TypeOK
<1>17. ASSUME NEW t \in Threads, Refuse(t) PROVE Quiet
  BY <1>17, Names DEF Refuse, Quiet, Working, durable, hostVol, threads, conns, sockets,
     TypeOK
<1>18. ASSUME NEW t \in Threads, RejectionExists(t) PROVE Quiet
  BY <1>18, Names DEF RejectionExists, Quiet, Working, durable, hostVol, threads, conns,
     sockets, TypeOK
<1>19. ASSUME NEW t \in Threads, RefuseEvent(t) PROVE Quiet
  BY <1>19, Names DEF RefuseEvent, Quiet, Working, durable, hostVol, threads, conns,
     sockets, TypeOK
<1>20. ASSUME MainRead PROVE Quiet
  <2>2. outbox[Host] \in Seq(Kinds) /\ cursor[Host] \in Nat BY Names DEF TypeOK
  <2>3. cursor[Host] + 1 \in 1 .. Len(outbox[Host]) BY <1>20, <2>2 DEF MainRead
  <2>4. outbox[Host][cursor[Host] + 1] \in Kinds BY <2>2, <2>3
  <2> QED BY <1>20, Names, <2>4 DEF MainRead, Kinds, Quiet, Working, durable, hostVol,
     threads, conns, sockets, TypeOK
<1>21. ASSUME MainAcknowledge PROVE Quiet
  BY <1>21, Names DEF MainAcknowledge, Quiet, Working, durable, hostVol, threads, conns,
     sockets, TypeOK
<1>22. CASE UNCHANGED vars BY <1>22 DEF vars, Quiet
<1> QED
  BY <1>1, <1>2, <1>3, <1>4, <1>5, <1>6, <1>7, <1>8, <1>9, <1>10, <1>11, <1>12, <1>13,
     <1>14, <1>15, <1>16, <1>17, <1>18, <1>19, <1>20, <1>21, <1>22
  DEF Next, Game, ClientStep, ConnStep, MainStep, Order, Ordering

\* Nothing of a crashed host runs: every step keeps Stopped.
LEMMA StoppedStep == ASSUME TypeOK, Stopped, Bounded, [Next]_vars PROVE Stopped'
<1>1. CASE HostCrash
  BY <1>1 DEF HostCrash, Stopped, Threads, Conns, TypeOK
<1>2. CASE HostRestart
  BY <1>2 DEF HostRestart, Stopped
<1>3. CASE Fence
  BY <1>3 DEF Fence, Stopped
<1>4. ASSUME up = "down", \E t \in Threads : Ordering(t) PROVE FALSE
  BY <1>4 DEF Stopped, Ordering, JournalCommit, ApplyCommit, BroadcastCommit,
     JournalRejection, ApplyRejection, JournalEvent, AppendFails
<1>5. ASSUME NEW t \in Threads, Ordering(t) PROVE up' = up
  BY <1>5 DEF Ordering, JournalCommit, ApplyCommit, BroadcastCommit, JournalRejection,
     ApplyRejection, JournalEvent, AppendFails, hostVol
<1>6. ASSUME Quiet, up = "down" PROVE Stopped'
  <2>1. commits' = {}
    BY <1>6 DEF Quiet, Stopped
  <2>2. \A k \in Conns : serve[k] \in {"none", "gone"}
    BY <1>6 DEF Stopped
  <2>3. \A t \in Threads : pc[t] = "idle"
    BY <1>6 DEF Stopped
  <2>4. pc' = pc /\ serve' = serve
    <3>1. ASSUME NEW p \in Peers, NEW kind \in Kinds, Emit(p,
       kind) PROVE pc' = pc /\ serve' = serve
      BY <3>1 DEF Emit, threads, conns
    <3>2. ASSUME NEW c \in Clients, ClientStep(c) \/ ClientDrop(c)
          PROVE  pc' = pc /\ serve' = serve
      BY <3>2, <1>6 DEF ClientStep, Connect, ReceiveOrdered, ReceiveSyncReady,
         ReceiveReceipt,
         ClientSend, ClientNoticesClose, ClientDrop, EndSession, threads, conns
    <3>3. ASSUME NEW k \in Conns PROVE ~ (ConnStep(k) \/ Hangup(k) \/ EnterAuditFault(k))
      BY <2>2, <2>3, Names DEF ConnStep, ReplayBatch, ReplayMissing, Register, Read,
         ReplyToClient, Hangup, EnterAuditFault
    <3>4. ~ MainStep
      BY <2>3, <1>6, Names DEF MainStep, MainRead, MainAcknowledge, Fence
    <3>5. ASSUME NEW t \in Threads PROVE ~ (Order(t) \/ AppendFails(t))
      BY <2>3 DEF Order, Deduplicate, Refuse, JournalCommit, ApplyCommit, BroadcastCommit,
         RejectionExists, JournalRejection, ApplyRejection, JournalEvent, RefuseEvent,
         AppendFails
    <3>6. CASE HostCrash \/ HostRestart
      BY <3>6, <1>6 DEF HostCrash, HostRestart, Quiet
    <3>7. CASE UNCHANGED vars
      BY <3>7 DEF vars
    <3> QED BY <3>1, <3>2, <3>3, <3>4, <3>5, <3>6, <3>7 DEF Next, Game
  <2> QED BY <2>1, <2>2, <2>3, <2>4 DEF Stopped
<1>7. Quiet => up' = up
  BY DEF Quiet
<1> QED BY <1>1, <1>2, <1>3, <1>4, <1>5, <1>6, <1>7, Footprint DEF Stopped

\* An audit append adds its entry to the journal's.
LEMMA AppendEntry ==
    ASSUME TypeOK, NEW e \in Entry, audit' = Append(audit, e)
    PROVE  Entries' = Entries \union {e}
<1>1. audit \in Seq(Entry)
  BY DEF TypeOK
<1> QED BY <1>1, RangeAppend DEF Entries

\* The entries a step adds to the journal.
LEMMA JournalStep ==
    ASSUME TypeOK, NEW t \in Threads, Ordering(t)
    PROVE  \/ /\ JournalCommit(t)
              /\ Entries' = Entries \union {Commit(nextSeq, Origin(t), job[t])}
           \/ /\ JournalRejection(t)
              /\ Entries' = Entries \union {Rejection(nextSeq, Origin(t), job[t])}
           \/ JournalEvent(t) /\ Entries' = Entries \union {Record(Origin(t), job[t])}
           \/ /\ AppendFails(t)
              /\ Entries' = Entries \/ Entries' = Entries \union {Unwritten(t)}
           \/ ApplyCommit(t) /\ Entries' = Entries
           \/ BroadcastCommit(t) /\ Entries' = Entries
           \/ ApplyRejection(t) /\ Entries' = Entries
<1>1. /\ Commit(nextSeq, Origin(t), job[t]) \in Entry
      /\ Rejection(nextSeq, Origin(t), job[t]) \in Entry
      /\ Record(Origin(t), job[t]) \in Entry
  BY Names DEF TypeOK, Commit, Rejection, Record, Entry
<1>2. Unwritten(t) \in Entry
  BY <1>1 DEF Unwritten
<1>3. CASE JournalCommit(t)
  BY <1>1, <1>3, AppendEntry DEF JournalCommit
<1>4. CASE JournalRejection(t)
  BY <1>1, <1>4, AppendEntry DEF JournalRejection
<1>5. CASE JournalEvent(t)
  BY <1>1, <1>5, AppendEntry DEF JournalEvent
<1>6. CASE AppendFails(t)
  <2>1. audit' = audit \/ audit' = Append(audit, Unwritten(t))
    BY <1>6 DEF AppendFails
  <2>2. audit' = audit => Entries' = Entries
    BY DEF Entries
  <2> QED BY <1>2, <1>6, <2>1, <2>2, AppendEntry
<1>7. CASE ApplyCommit(t) \/ BroadcastCommit(t) \/ ApplyRejection(t)
  BY <1>7 DEF ApplyCommit, BroadcastCommit, ApplyRejection, Entries, durable
<1> QED BY <1>3, <1>4, <1>5, <1>6, <1>7 DEF Ordering

\* Everything in the journal stays there.
LEMMA JournalKept == ASSUME TypeOK, Bounded, [Next]_vars PROVE Entries \subseteq Entries'
<1>1. CASE Quiet BY <1>1 DEF Quiet, Entries
<1>2. CASE \E t \in Threads : Ordering(t) BY <1>2, JournalStep
<1>3. CASE Fence \/ HostCrash \/ HostRestart
  BY <1>3 DEF Fence, HostCrash, HostRestart, durable, Entries
<1> QED BY <1>1, <1>2, <1>3, Footprint

\* Every step keeps the journal numbered: the number a thread takes under order_lock is
\* above all those of the journal, and so is the one a restarted host starts from.
LEMMA NumberedStep ==
    ASSUME TypeOK, Bounded, Stopped, Numbered, [Next]_vars
    PROVE  Numbered'
<1>0. Entries \subseteq Entry
  BY EntriesTyped DEF TypeOK
<1>1. CASE Quiet
  BY <1>1 DEF Quiet, Numbered, Entries
<1>2. ASSUME NEW t \in Threads, Ordering(t) PROVE Numbered'
  <2>1. up # "down" /\ up' = up
    BY <1>2 DEF Stopped, Ordering, JournalCommit, ApplyCommit, BroadcastCommit,
       JournalRejection,
       ApplyRejection, JournalEvent, AppendFails, hostVol
  <2>2. nextSeq \in Nat /\ nextSeq > 0
    BY DEF TypeOK
  <2>3. \A e \in Entries : e.seq \in Nat /\ e.seq < nextSeq
    BY <1>0, <2>1 DEF Numbered, Entry
  <2>4. CASE JournalCommit(t) /\ Entries' = Entries \union {Commit(nextSeq, Origin(t),
     job[t])}
    BY <2>1, <2>2, <2>3, <2>4 DEF JournalCommit, Numbered, Commit, Ordered, IsOrdered
  <2>5. CASE /\ JournalRejection(t)
             /\ Entries' = Entries \union {Rejection(nextSeq, Origin(t), job[t])}
    BY <2>1, <2>2, <2>3, <2>5 DEF JournalRejection, Numbered, Rejection, Ordered, IsOrdered
  <2>6. CASE JournalEvent(t) /\ Entries' = Entries \union {Record(Origin(t), job[t])}
    BY <2>1, <2>2, <2>3, <2>6
    DEF JournalEvent, Numbered, Record, Ordered, IsOrdered, hostVol
  <2>7. CASE AppendFails(t) /\ Entries' = Entries
    BY <2>1, <2>2, <2>3, <2>7 DEF AppendFails, Numbered
  <2>8. CASE AppendFails(t) /\ Entries' = Entries \union {Unwritten(t)}
    <3>1. \/ Unwritten(t) = Commit(nextSeq, Origin(t), job[t]) /\ nextSeq' = nextSeq + 1
          \/ Unwritten(t) = Rejection(nextSeq, Origin(t), job[t]) /\ nextSeq' = nextSeq + 1
          \/ Unwritten(t) = Record(Origin(t), job[t]) /\ nextSeq' = nextSeq
      BY <2>8 DEF AppendFails, Unwritten
    <3> QED BY <2>1, <2>2, <2>3, <2>8, <3>1
            DEF Numbered, Commit, Rejection, Record, Ordered, IsOrdered
  <2>9. CASE ApplyCommit(t) \/ BroadcastCommit(t) \/ ApplyRejection(t)
    <3>1. UNCHANGED <<audit, nextSeq>>
      BY <2>9 DEF ApplyCommit, BroadcastCommit, ApplyRejection, durable, hostVol
    <3> QED BY <2>1, <3>1 DEF Numbered, Entries
  <2> QED BY <1>2, <2>4, <2>5, <2>6, <2>7, <2>8, <2>9, JournalStep
<1>3. CASE Fence
  BY <1>3 DEF Fence, durable, Numbered, Entries
<1>4. CASE HostCrash
  BY <1>4 DEF HostCrash, durable, Numbered, Entries
<1>5. CASE HostRestart
  BY <1>5 DEF HostRestart, durable, Numbered, Entries
<1> QED BY <1>1, <1>2, <1>3, <1>4, <1>5, Footprint

\* Every step keeps what a thread is ordering in the journal.
LEMMA StagedStep ==
    ASSUME TypeOK, Bounded, Stopped, Staged, [Next]_vars
    PROVE  Staged'
<1>0. Ordered(Entries) \subseteq Ordered(Entries)'
  BY JournalKept DEF Ordered
<1>1. CASE Quiet
  BY <1>0, <1>1, Names DEF Quiet, Working, Staged, Key
<1>2. ASSUME NEW t \in Threads, Ordering(t) PROVE Staged'
  <2>1. up # "down" /\ up' = up
    BY <1>2 DEF Stopped, Ordering, JournalCommit, ApplyCommit, BroadcastCommit,
       JournalRejection,
       ApplyRejection, JournalEvent, AppendFails, hostVol
  <2>2. pc \in PcValues /\ staged \in [Threads -> Entry] /\ job \in [Threads -> Nat]
    BY DEF TypeOK, PcValues
  <2>3. CASE JournalCommit(t) /\ Entries' = Entries \union {Commit(nextSeq, Origin(t),
     job[t])}
    BY <1>0, <2>1, <2>2, <2>3
    DEF JournalCommit, Staged, Key, Commit, Ordered, IsOrdered, PcValues
  <2>4. CASE /\ JournalRejection(t)
             /\ Entries' = Entries \union {Rejection(nextSeq, Origin(t), job[t])}
    BY <1>0, <2>1, <2>2, <2>4
    DEF JournalRejection, Staged, Key, Rejection, Ordered, IsOrdered, PcValues
  <2>5. CASE JournalEvent(t)
    BY <1>0, <2>1, <2>2, <2>5 DEF JournalEvent, Staged, Key, PcValues, hostVol
  <2>6. CASE AppendFails(t)
    BY <1>0, <2>1, <2>2, <2>6 DEF AppendFails, Staged, Key, PcValues
  <2>7. CASE ApplyCommit(t)
    BY <1>0, <2>1, <2>2, <2>7 DEF ApplyCommit, Staged, Key, PcValues
  <2>8. CASE BroadcastCommit(t)
    BY <1>0, <2>1, <2>2, <2>8 DEF BroadcastCommit, Staged, Key, PcValues, hostVol
  <2>9. CASE ApplyRejection(t)
    BY <1>0, <2>1, <2>2, <2>9 DEF ApplyRejection, Staged, Key, PcValues
  <2> QED BY <1>2, <2>3, <2>4, <2>5, <2>6, <2>7, <2>8, <2>9, JournalStep
<1>3. CASE Fence
  <2>1. Main \in Threads /\ pc \in PcValues
    BY Names DEF TypeOK, PcValues
  <2> QED BY <1>0, <1>3, <2>1 DEF Fence, Staged, Key, PcValues
<1>4. CASE HostCrash
  BY <1>4 DEF HostCrash, Staged
<1>5. CASE HostRestart
  BY <1>5 DEF HostRestart, Staged, Stopped, threads
<1> QED BY <1>1, <1>2, <1>3, <1>4, <1>5, Footprint

\* Where a frame put on a connection comes from.
LEMMA FramesStep ==
    ASSUME TypeOK, Bounded, Staged, [Next]_vars, NEW k \in Conns
    PROVE  Frames(k)' \subseteq Frames(k) \union commits' \union {SyncReady,
       Receipt(job[k])}
<1>0. toClient \in [Conns -> Seq(Frame)] /\ toClient[k] \in Seq(Frame)
  BY DEF TypeOK
<1> DEFINE New == commits' \union {SyncReady, Receipt(job[k])}
<1>1. ASSUME toClient'[k] = toClient[k] PROVE Frames(k)' \subseteq Frames(k) \union New
  BY <1>1 DEF Frames
<1>2. ASSUME NEW m \in Frame, m \in New, toClient'[k] = Append(toClient[k], m)
      PROVE  Frames(k)' \subseteq Frames(k) \union New
  BY <1>0, <1>2, RangeAppend DEF Frames
<1>3. ASSUME toClient[k] # << >>, toClient'[k] = Tail(toClient[k])
      PROVE  Frames(k)' \subseteq Frames(k) \union New
  BY <1>0, <1>3, RangeTail DEF Frames
<1>4. ASSUME toClient'[k] = << >> PROVE Frames(k)' \subseteq Frames(k) \union New
  BY <1>4 DEF Frames, Range
<1>5. ASSUME NEW c \in Clients, ClientStep(c) \/ ClientDrop(c)
      PROVE  \/ toClient'[k] = toClient[k]
             \/ toClient'[k] = << >>
             \/ toClient[k] # << >> /\ toClient'[k] = Tail(toClient[k])
  <2>1. CASE Connect(c) \/ ClientSend(c)
    BY <2>1 DEF Connect, ClientSend
  <2>2. CASE ReceiveOrdered(c)
    BY <1>0, <2>2 DEF ReceiveOrdered
  <2>3. CASE ReceiveSyncReady(c)
    BY <1>0, <2>3 DEF ReceiveSyncReady
  <2>4. CASE ReceiveReceipt(c)
    BY <1>0, <2>4 DEF ReceiveReceipt
  <2>5. CASE ClientNoticesClose(c) \/ ClientDrop(c)
    BY <1>0, <2>5 DEF ClientNoticesClose, ClientDrop, EndSession
  <2> QED BY <1>5, <2>1, <2>2, <2>3, <2>4, <2>5 DEF ClientStep
<1>6. ASSUME NEW j \in Conns, ConnStep(j) \/ Hangup(j) \/ EnterAuditFault(j)
      PROVE  Frames(k)' \subseteq Frames(k) \union New
  <2>1. CASE ReplayBatch(j)
    <3>1. commits' = commits
      BY <2>1 DEF ReplayBatch, hostVol
    <3>2. \/ toClient'[k] = toClient[k]
          \/ j = k /\ toClient'[k] = toClient[k] \o Batch(k)
      BY <1>0, <2>1 DEF ReplayBatch
    <3>3. ASSUME j = k PROVE Batch(k) \in Seq(commits) /\ Batch(k) \in Seq(Frame)
      <4>1. replayed[k] \in Nat /\ nextSeq \in Nat /\ nextSeq - 1 - replayed[k] \in Nat
        BY <2>1, <3>3 DEF TypeOK, ReplayBatch
      <4>2. Batch(k) \in Seq(commits)
        BY <2>1, <3>3, <4>1, BatchTyped DEF ReplayBatch
      <4>3. commits \subseteq Frame
        BY DEF TypeOK, Frame
      <4> QED BY <4>2, <4>3
    <3>4. ASSUME j = k PROVE Range(Batch(k)) \subseteq commits
      BY <3>3, <3>4 DEF Range
    <3>5. CASE j = k /\ toClient'[k] = toClient[k] \o Batch(k)
      BY <1>0, <3>1, <3>3, <3>4, <3>5, RangeConcat DEF Frames
    <3> QED BY <1>1, <3>2, <3>5
  <2>2. CASE ReplayMissing(j) \/ Read(j) \/ Hangup(j) \/ EnterAuditFault(j)
    BY <1>1, <2>2 DEF ReplayMissing, Read, Hangup, EnterAuditFault, sockets
  <2>3. CASE Register(j)
    <3>1. \/ toClient'[k] = toClient[k]
          \/ toClient'[k] = Append(toClient[k], SyncReady)
      BY <1>0, <2>3 DEF Register, Send
    <3> QED BY <1>1, <1>2, <3>1 DEF Frame
  <2>4. CASE ReplyToClient(j)
    <3>1. \/ toClient'[k] = toClient[k]
          \/ toClient'[k] = Append(toClient[k], Receipt(job[k]))
      BY <1>0, <2>4 DEF ReplyToClient, Send
    <3>2. Receipt(job[k]) \in Frame
      BY ConnFacts DEF TypeOK, Frame, Receipt
    <3> QED BY <1>1, <1>2, <3>1, <3>2
  <2> QED BY <1>6, <2>1, <2>2, <2>3, <2>4 DEF ConnStep
<1>7. ASSUME NEW t \in Threads, Order(t) \/ AppendFails(t)
      PROVE  Frames(k)' \subseteq Frames(k) \union New
  <2>1. staged[t] \in Frame
    BY DEF TypeOK, Frame
  <2>2. CASE BroadcastCommit(t) \/ ApplyRejection(t)
    <3>1. \/ toClient'[k] = toClient[k]
          \/ toClient'[k] = Append(toClient[k], staged[t])
      BY <1>0, <2>2 DEF BroadcastCommit, ApplyRejection, Broadcast
    <3>2. staged[t] \in commits'
      BY <2>2 DEF BroadcastCommit, ApplyRejection, Staged, hostVol
    <3> QED BY <1>1, <1>2, <2>1, <3>1, <3>2
  <2>3. CASE ~ (BroadcastCommit(t) \/ ApplyRejection(t))
    <3>1. toClient' = toClient
      BY <1>7, <2>3 DEF Order, AppendFails, Deduplicate, Refuse, JournalCommit, ApplyCommit,
         RejectionExists, JournalRejection, JournalEvent, RefuseEvent, sockets
    <3> QED BY <1>1, <3>1
  <2> QED BY <2>2, <2>3
<1>8. ASSUME Game \/ MainStep \/ HostCrash \/ HostRestart \/ UNCHANGED vars
      PROVE  toClient' = toClient
  BY <1>8 DEF Game, Emit, MainStep, MainRead, MainAcknowledge, Fence, HostCrash,
     HostRestart,
     vars, sockets
<1> QED BY <1>1, <1>3, <1>4, <1>5, <1>6, <1>7, <1>8 DEF Next

\* Where an entry filed for a game comes from.
LEMMA InboxStep ==
    ASSUME TypeOK, Bounded, Staged, Sourced, [Next]_vars, NEW p \in Peers
    PROVE  /\ inbox'[p] \subseteq inbox[p] \union commits' \union Ordered(Entries)
           /\ up # "down" => inbox'[p] \subseteq inbox[p] \union commits \union commits'
<1>0. inbox \in [Peers -> SUBSET Entry]
  BY DEF TypeOK
<1>1. ASSUME NEW c \in Clients, ReceiveOrdered(c)
      PROVE  /\ inbox'[p] \subseteq inbox[p] \union Ordered(Entries)
             /\ up # "down" => inbox'[p] \subseteq inbox[p] \union commits
  <2> DEFINE k == <<c, session[c]>>
  <2>1. k \in Conns
    BY <1>1, SessionConn DEF ReceiveOrdered
  <2>2. toClient[k] \in Seq(Frame) /\ toClient[k] # << >> /\ IsOrdered(Head(toClient[k]))
    BY <1>1, <2>1 DEF TypeOK, ReceiveOrdered
  <2>3. Head(toClient[k]) \in Frames(k)
    BY <2>2, RangeTail DEF Frames
  <2>4. /\ Head(toClient[k]) \in Ordered(Entries)
        /\ up # "down" => Head(toClient[k]) \in commits
    BY <2>1, <2>2, <2>3 DEF Sourced
  <2>5. inbox' = [inbox EXCEPT ![c] = @ \union {Head(toClient[k])}]
    BY <1>1 DEF ReceiveOrdered
  <2> QED BY <1>0, <2>4, <2>5
<1>2. ASSUME NEW t \in Threads, ApplyCommit(t) \/ ApplyRejection(t)
      PROVE  inbox'[p] \subseteq inbox[p] \union commits'
  BY <1>0, <1>2 DEF ApplyCommit, ApplyRejection
<1>3. ASSUME NEW t \in Threads, Order(t) \/ AppendFails(t),
   ~ (ApplyCommit(t) \/ ApplyRejection(t))
      PROVE  inbox' = inbox
  BY <1>3 DEF Order, AppendFails, Deduplicate, Refuse, JournalCommit, BroadcastCommit,
     RejectionExists, JournalRejection, JournalEvent, RefuseEvent, durable
<1>4. ASSUME NEW c \in Clients, ClientStep(c) \/ ClientDrop(c), ~ ReceiveOrdered(c)
      PROVE  inbox' = inbox
  BY <1>4 DEF ClientStep, Connect, ReceiveSyncReady, ReceiveReceipt, ClientSend,
     ClientNoticesClose, ClientDrop, EndSession, durable
<1>5. ASSUME NEW k \in Conns, ConnStep(k) \/ Hangup(k) \/ EnterAuditFault(k)
      PROVE  inbox' = inbox
  BY <1>5 DEF ConnStep, ReplayBatch, ReplayMissing, Register, Read, ReplyToClient, Hangup,
     EnterAuditFault, durable
<1>6. ASSUME Game \/ MainStep \/ HostCrash \/ HostRestart \/ UNCHANGED vars
      PROVE  inbox' = inbox
  BY <1>6 DEF Game, Emit, MainStep, MainRead, MainAcknowledge, Fence, HostCrash,
     HostRestart,
     vars, durable
<1> QED BY <1>1, <1>2, <1>3, <1>4, <1>5, <1>6 DEF Next

\* Every step keeps memory, inboxes and frames within the journal.
LEMMA SourcedStep ==
    ASSUME TypeOK, Bounded, Stopped, Staged, Sourced, [Next]_vars
    PROVE  Sourced'
<1>0. Ordered(Entries) \subseteq Ordered(Entries)'
  BY JournalKept DEF Ordered
<1>1. /\ commits' \subseteq Ordered(Entries)'
      /\ up' # "down" => \/ up # "down" /\ commits \subseteq commits'
                         \/ commits' = Ordered(Entries)
  <2>1. CASE Quiet
    BY <1>0, <2>1 DEF Quiet, Sourced
  <2>2. ASSUME NEW t \in Threads, Ordering(t)
        PROVE  up # "down" /\ commits \subseteq commits' /\ commits' \subseteq Ordered(Entries)'
    BY <1>0, <2>2 DEF Sourced, Staged, Stopped, Ordering, JournalCommit, ApplyCommit,
       BroadcastCommit, JournalRejection, ApplyRejection, JournalEvent, AppendFails, hostVol
  <2>3. CASE Fence
    BY <1>0, <2>3 DEF Fence, Sourced
  <2>4. CASE HostCrash
    BY <2>4 DEF HostCrash
  <2>5. CASE HostRestart
    BY <1>0, <2>5 DEF HostRestart
  <2> QED BY <2>1, <2>2, <2>3, <2>4, <2>5, Footprint
<1>2. ASSUME NEW p \in Peers
      PROVE  /\ inbox'[p] \subseteq Ordered(Entries)'
             /\ up' # "down" => inbox'[p] \subseteq commits'
  BY <1>0, <1>1, InboxStep DEF Sourced
<1>3. ASSUME NEW k \in Conns, NEW m \in Frames(k)', IsOrdered(m)
      PROVE  /\ m \in Ordered(Entries)'
             /\ up' # "down" => m \in commits'
  <2>1. m \in Frames(k) \/ m \in commits'
    BY <1>3, FramesStep DEF IsOrdered, SyncReady, Receipt
  <2> QED BY <1>0, <1>1, <1>3, <2>1 DEF Sourced
<1> QED BY <1>1, <1>2, <1>3 DEF Sourced

\* Every step keeps the commits of the journal in seen, up to the one being
\* ordered and the uncertain ones.
LEMMA RememberedStep ==
    ASSUME TypeOK, Bounded, Stopped, Staged, Remembered, [Next]_vars
    PROVE  Remembered'
<1> USE DEF Remembered
<1>1. CASE Quiet
  BY <1>1 DEF Quiet, Working, Entries
<1>2. ASSUME NEW t \in Threads, Ordering(t) PROVE Remembered'
  <2>1. up # "down" /\ up' = up
    BY <1>2 DEF Stopped, Ordering, JournalCommit, ApplyCommit, BroadcastCommit,
       JournalRejection,
       ApplyRejection, JournalEvent, AppendFails, hostVol
  <2>2. pc \in PcValues /\ staged \in [Threads -> Entry]
    BY DEF TypeOK, PcValues
  <2>3. CASE JournalCommit(t) /\ Entries' = Entries \union {Commit(nextSeq, Origin(t),
     job[t])}
    BY <2>1, <2>2, <2>3 DEF JournalCommit, PcValues
  <2>4. CASE /\ JournalRejection(t)
             /\ Entries' = Entries \union {Rejection(nextSeq, Origin(t), job[t])}
    BY <2>1, <2>2, <2>4 DEF JournalRejection, PcValues, Rejection
  <2>5. CASE JournalEvent(t) /\ Entries' = Entries \union {Record(Origin(t), job[t])}
    BY <2>1, <2>2, <2>5 DEF JournalEvent, PcValues, Record, hostVol
  <2>6. CASE AppendFails(t) /\ (Entries' = Entries \/ Entries' = Entries \union {Unwritten(t)})
    <3>1. Unwritten(t).kind = "commit" => <<Unwritten(t).peer, Unwritten(t).local>> = Key(t)
      BY <2>6 DEF AppendFails, Unwritten, Commit, Rejection, Record, Key
    <3> QED BY <2>1, <2>2, <2>6, <3>1 DEF AppendFails, PcValues
  <2>7. CASE ApplyCommit(t) /\ Entries' = Entries
    BY <2>1, <2>2, <2>7 DEF ApplyCommit, PcValues, Staged
  <2>8. CASE BroadcastCommit(t) /\ Entries' = Entries
    BY <2>1, <2>2, <2>8 DEF BroadcastCommit, PcValues, hostVol, durable
  <2>9. CASE ApplyRejection(t) /\ Entries' = Entries
    BY <2>1, <2>2, <2>9 DEF ApplyRejection, PcValues
  <2> QED BY <1>2, <2>3, <2>4, <2>5, <2>6, <2>7, <2>8, <2>9, JournalStep
<1>3. CASE Fence
  <2>1. pc \in PcValues /\ Main \in Threads
    BY Names DEF TypeOK, PcValues
  <2> QED BY <1>3, <2>1 DEF Fence, PcValues, durable, Entries
<1>4. CASE HostCrash
  BY <1>4 DEF HostCrash
<1>5. CASE HostRestart
  BY <1>5 DEF HostRestart, durable, Entries, Committed
<1> QED BY <1>1, <1>2, <1>3, <1>4, <1>5, Footprint

\* No step commits an intent of the journal again: the intent is in seen, its append
\* raised, or another thread is committing it and holds order_lock.
LEMMA ExactlyOnceStep ==
    ASSUME TypeOK, Bounded, Stopped, Remembered, ExactlyOnce, [Next]_vars
    PROVE  ExactlyOnce'
<1>0. audit \in Seq(Entry)
  BY DEF TypeOK
<1>1. ASSUME UNCHANGED <<audit, uncertain>> PROVE ExactlyOnce'
  BY <1>1 DEF ExactlyOnce
<1>2. ASSUME NEW e \in Entry, audit' = Append(audit, e), uncertain \subseteq uncertain',
             e.kind = "commit" =>
                \A f \in Entries : f.kind = "commit" /\ f.peer = e.peer /\ f.local = e.local
                                     => <<e.peer, e.local>> \in uncertain'
      PROVE  ExactlyOnce'
  <2> SUFFICES ASSUME NEW i \in DOMAIN audit', NEW j \in DOMAIN audit', i # j,
                      audit'[i].kind = "commit", audit'[j].kind = "commit",
                      audit'[i].peer = audit'[j].peer, audit'[i].local = audit'[j].local
               PROVE  <<audit'[i].peer, audit'[i].local>> \in uncertain'
    BY DEF ExactlyOnce
  <2>1. /\ DOMAIN audit' = 1 .. Len(audit) + 1 /\ audit'[Len(audit) + 1] = e
        /\ \A n \in 1 .. Len(audit) : audit'[n] = audit[n] /\ audit[n] \in Entries
    BY <1>0, <1>2 DEF Entries, Range
  <2>2. CASE i \in 1 .. Len(audit) /\ j \in 1 .. Len(audit)
    <3>1. i \in DOMAIN audit /\ j \in DOMAIN audit
      BY <1>0, <2>2
    <3> QED BY <1>2, <2>1, <2>2, <3>1 DEF ExactlyOnce
  <2>3. CASE i = Len(audit) + 1 /\ j \in 1 .. Len(audit)
    BY <1>2, <2>1, <2>3
  <2>4. CASE j = Len(audit) + 1 /\ i \in 1 .. Len(audit)
    BY <1>2, <2>1, <2>4
  <2> QED BY <1>0, <2>1, <2>2, <2>3, <2>4
<1>3. ASSUME NEW t \in Threads, JournalCommit(t) PROVE ExactlyOnce'
  <2> DEFINE e == Commit(nextSeq, Origin(t), job[t])
  <2>1. e \in Entry /\ audit' = Append(audit, e) /\ uncertain' = uncertain
    BY <1>3, Names DEF JournalCommit, TypeOK, Commit, Entry
  <2>2. <<e.peer, e.local>> = Key(t) /\ Key(t) \notin seen
    BY <1>3 DEF JournalCommit, Commit, Key
  <2>3. up # "down" /\ \A s \in Threads : pc[s] # "committing"
    BY <1>3 DEF JournalCommit, LockFree, Stopped
  <2>4. ASSUME NEW f \in Entries, f.kind = "commit", f.peer = e.peer, f.local = e.local
        PROVE  <<e.peer, e.local>> \in uncertain
    BY <2>2, <2>3, <2>4 DEF Remembered
  <2> QED BY <1>2, <2>1, <2>4
<1>4. ASSUME NEW t \in Threads, JournalRejection(t) PROVE ExactlyOnce'
  <2> DEFINE e == Rejection(nextSeq, Origin(t), job[t])
  <2>1. e \in Entry /\ e.kind # "commit" /\ audit' = Append(audit,
     e) /\ uncertain' = uncertain
    BY <1>4, Names DEF JournalRejection, TypeOK, Rejection, Entry
  <2> QED BY <1>2, <2>1
<1>5. ASSUME NEW t \in Threads, JournalEvent(t) PROVE ExactlyOnce'
  <2> DEFINE e == Record(Origin(t), job[t])
  <2>1. e \in Entry /\ e.kind # "commit" /\ audit' = Append(audit,
     e) /\ uncertain' = uncertain
    BY <1>5, Names DEF JournalEvent, TypeOK, Record, Entry
  <2> QED BY <1>2, <2>1
<1>6. ASSUME NEW t \in Threads, AppendFails(t) PROVE ExactlyOnce'
  <2> DEFINE e == Unwritten(t)
  <2>1. e \in Entry
    BY Names DEF TypeOK, Unwritten, Commit, Rejection, Record, Entry
  <2>2. e.kind = "commit" => <<e.peer, e.local>> = Key(t)
    BY <1>6 DEF AppendFails, Unwritten, Commit, Rejection, Record, Key
  <2>3. uncertain' = uncertain \union {Key(t)} /\ (audit' = audit \/ audit' = Append(audit,
     e))
    BY <1>6 DEF AppendFails
  <2>4. CASE audit' = audit
    BY <2>3, <2>4 DEF ExactlyOnce
  <2>5. CASE audit' = Append(audit, e)
    BY <1>2, <2>1, <2>2, <2>3, <2>5
  <2> QED BY <2>3, <2>4, <2>5
<1>7. ASSUME NEW t \in Threads, ApplyCommit(t) \/ BroadcastCommit(t) \/ ApplyRejection(t)
      PROVE  UNCHANGED <<audit, uncertain>>
  BY <1>7 DEF ApplyCommit, BroadcastCommit, ApplyRejection, durable
<1>8. ASSUME Quiet \/ Fence \/ HostCrash \/ HostRestart PROVE UNCHANGED <<audit, uncertain>>
  BY <1>8 DEF Quiet, Fence, HostCrash, HostRestart, durable
<1> QED BY <1>1, <1>3, <1>4, <1>5, <1>6, <1>7, <1>8, Footprint DEF Ordering

\* A game only adds to its outbox.
LEMMA OutboxStep ==
    ASSUME TypeOK, [Next]_vars, NEW p \in Peers
    PROVE  /\ Len(outbox[p]) \in Nat /\ Len(outbox'[p]) \in Nat
           /\ Len(outbox[p]) <= Len(outbox'[p])
<1>0. outbox \in [Peers -> Seq(Kinds)] /\ outbox[p] \in Seq(Kinds)
  BY DEF TypeOK
<1>1. ASSUME NEW q \in Peers, NEW kind \in Kinds, Emit(q, kind)
      PROVE  outbox'[p] = outbox[p] \/ outbox'[p] = Append(outbox[p], kind)
  BY <1>0, <1>1 DEF Emit
<1>2. ASSUME NEW q \in Peers, NEW kind \in Kinds, Emit(q, kind)
      PROVE  Len(outbox'[p]) \in Nat /\ Len(outbox[p]) <= Len(outbox'[p])
  BY <1>0, <1>1, <1>2
<1>3. ASSUME NEW c \in Clients, ClientStep(c) \/ ClientDrop(c) PROVE outbox' = outbox
  BY <1>3 DEF ClientStep, Connect, ReceiveOrdered, ReceiveSyncReady, ReceiveReceipt,
     ClientSend, ClientNoticesClose, ClientDrop, EndSession, durable
<1>4. ASSUME NEW k \in Conns, ConnStep(k) \/ Hangup(k) \/ EnterAuditFault(k)
      PROVE  outbox' = outbox
  BY <1>4 DEF ConnStep, ReplayBatch, ReplayMissing, Register, Read, ReplyToClient, Hangup,
     EnterAuditFault, durable
<1>5. ASSUME NEW t \in Threads, Order(t) \/ AppendFails(t) PROVE outbox' = outbox
  BY <1>5 DEF Order, AppendFails, Deduplicate, Refuse, JournalCommit, ApplyCommit,
     BroadcastCommit, RejectionExists, JournalRejection, ApplyRejection, JournalEvent,
     RefuseEvent, durable
<1>6. ASSUME MainStep \/ HostCrash \/ HostRestart \/ UNCHANGED vars PROVE outbox' = outbox
  BY <1>6 DEF MainStep, MainRead, MainAcknowledge, Fence, HostCrash, HostRestart, vars,
     durable
<1> QED BY <1>0, <1>2, <1>3, <1>4, <1>5, <1>6 DEF Next, Game

\* The steps that move a cursor or a read position, and what the others keep.
LEMMA PositionStep ==
    ASSUME TypeOK, [Next]_vars
    PROVE  \/ UNCHANGED <<cursor, got, sent, job>>
           \/ \E c \in Clients : Connect(c) \/ ReceiveReceipt(c) \/ ClientSend(c)
           \/ \E k \in Conns : Read(k)
           \/ MainRead \/ MainAcknowledge \/ HostCrash
<1>1. ASSUME NEW c \in Clients, ClientStep(c) \/ ClientDrop(c),
             ~ (Connect(c) \/ ReceiveReceipt(c) \/ ClientSend(c))
      PROVE  UNCHANGED <<cursor, got, sent, job>>
  BY <1>1 DEF ClientStep, ReceiveOrdered, ReceiveSyncReady, ClientNoticesClose, ClientDrop,
     EndSession, durable, conns, threads
<1>2. ASSUME NEW k \in Conns, ConnStep(k) \/ Hangup(k) \/ EnterAuditFault(k), ~ Read(k)
      PROVE  UNCHANGED <<cursor, got, sent, job>>
  BY <1>2 DEF ConnStep, ReplayBatch, ReplayMissing, Register, ReplyToClient, Hangup,
     EnterAuditFault, durable, threads, sockets
<1>3. ASSUME NEW t \in Threads, Order(t) \/ AppendFails(t)
      PROVE  UNCHANGED <<cursor, got, sent, job>>
  BY <1>3 DEF Order, AppendFails, Deduplicate, Refuse, JournalCommit, ApplyCommit,
     BroadcastCommit, RejectionExists, JournalRejection, ApplyRejection, JournalEvent,
     RefuseEvent, durable, conns, sockets
<1>4. ASSUME Game \/ Fence \/ HostRestart \/ UNCHANGED vars
      PROVE  UNCHANGED <<cursor, got, sent, job>>
  BY <1>4 DEF Game, Emit, Fence, HostRestart, vars, durable, conns, threads, sockets
<1> QED BY <1>1, <1>2, <1>3, <1>4 DEF Next, MainStep

\* No step moves a cursor, a read position or a receipt past the outbox it is about.
LEMMA BoundedStep ==
    ASSUME TypeOK, TypeOK', Bounded, Staged, [Next]_vars
    PROVE  Bounded'
<1>0. /\ \A p \in Peers : cursor[p] \in Nat /\ cursor'[p] \in Nat
      /\ \A k \in Conns : got[k] \in Nat /\ sent[k] \in Nat /\ k[1] \in Peers /\ k \in Threads
      /\ \A t \in Threads : job[t] \in Nat /\ Origin(t) \in Peers
      /\ cursor \in [Peers -> Nat] /\ got \in [Conns -> Nat] /\ sent \in [Conns -> Nat]
      /\ job \in [Threads -> Nat]
  BY ConnFacts, Names DEF TypeOK
<1>1. \A p \in Peers, n \in Nat : n <= Len(outbox[p]) => n <= Len(outbox'[p])
  BY OutboxStep
<1> DEFINE Positions ==
      /\ \A p \in Peers : cursor'[p] <= Len(outbox'[p])
      /\ \A k \in Conns : got'[k] <= sent'[k] /\ sent'[k] <= Len(outbox'[k[1]])
      /\ \A t \in Threads : job'[t] <= Len(outbox'[Origin(t)])
<1>2. /\ \A p \in Peers : cursor[p] <= Len(outbox'[p])
      /\ \A k \in Conns : got[k] <= sent[k] /\ sent[k] <= Len(outbox'[k[1]])
      /\ \A t \in Threads : job[t] <= Len(outbox'[Origin(t)])
  BY <1>0, <1>1 DEF Bounded
<1>3. ASSUME UNCHANGED <<cursor, got, sent, job>> PROVE Positions
  <2>1. cursor' = cursor /\ got' = got /\ sent' = sent /\ job' = job
    BY <1>3
  <2>2. \A p \in Peers : cursor'[p] <= Len(outbox'[p])
    BY <1>2, <2>1
  <2>3. \A k \in Conns : got'[k] <= sent'[k] /\ sent'[k] <= Len(outbox'[k[1]])
    BY <1>2, <2>1
  <2>4. \A t \in Threads : job'[t] <= Len(outbox'[Origin(t)])
    BY <1>2, <2>1
  <2> QED BY <2>2, <2>3, <2>4
<1>4. ASSUME NEW c \in Clients, Connect(c) PROVE Positions
  <2> DEFINE j == <<c, used[c] + 1>>
  <2>1. UNCHANGED <<cursor, job>> /\ got' = [got EXCEPT ![j] = cursor[c]]
        /\ sent' = [sent EXCEPT ![j] = cursor[c]] /\ j[1] = c /\ c \in Peers
    BY <1>4, Names DEF Connect, durable, threads
  <2>2. ASSUME NEW k \in Conns
        PROVE  got'[k] <= sent'[k] /\ sent'[k] <= Len(outbox'[k[1]])
    <3>1. CASE k = j
      BY <1>0, <1>2, <2>1, <3>1
    <3>2. CASE k # j
      BY <1>0, <1>2, <2>1, <3>2
    <3> QED BY <3>1, <3>2
  <2> QED BY <1>2, <2>1, <2>2
<1>5. ASSUME NEW c \in Clients, ReceiveReceipt(c) PROVE Positions
  <2> DEFINE j == <<c, session[c]>>
             n == Head(toClient[j]).local
  <2>1. j \in Conns /\ j[1] = c /\ c \in Peers
    BY <1>5, SessionConn, Names DEF ReceiveReceipt
  <2>2. toClient[j] \in Seq(Frame) /\ toClient[j] # << >> /\ Head(toClient[j]).kind = "receipt"
    BY <1>5, <2>1 DEF ReceiveReceipt, TypeOK
  <2>3. Head(toClient[j]) \in Frames(j) /\ Head(toClient[j]) \in Frame
    BY <2>2, RangeTail DEF Frames
  <2>4. n \in Nat
    BY <2>2, <2>3 DEF Frame, Entry, SyncReady
  <2>5. n <= Len(outbox[c])
    BY <2>1, <2>2, <2>3 DEF Bounded
  <2>6. n <= Len(outbox'[c])
    BY <1>1, <2>1, <2>4, <2>5
  <2>7. UNCHANGED <<got, sent,
                    job>> /\ cursor' = [cursor EXCEPT ![c] = IF n < @ THEN @ ELSE n]
    BY <1>5 DEF ReceiveReceipt, conns, threads
  <2> QED BY <1>0, <1>2, <2>1, <2>6, <2>7
<1>6. ASSUME NEW c \in Clients, ClientSend(c) PROVE Positions
  <2> DEFINE j == <<c, session[c]>>
  <2>1. j \in Conns /\ j[1] = c /\ c \in Peers
    BY <1>6, SessionConn, Names DEF ClientSend
  <2>2. UNCHANGED <<cursor, got, job, outbox>> /\ sent' = [sent EXCEPT ![j] = @ + 1]
        /\ sent[j] < Len(outbox[c])
    BY <1>6 DEF ClientSend, durable, conns, threads
  <2>3. sent[j] + 1 <= Len(outbox'[c])
    BY <1>0, <2>1, <2>2, OutboxStep
  <2>4. ASSUME NEW k \in Conns
        PROVE  got'[k] <= sent'[k] /\ sent'[k] <= Len(outbox'[k[1]])
    <3>1. CASE k = j
      BY <1>0, <1>2, <2>1, <2>2, <2>3, <3>1
    <3>2. CASE k # j
      BY <1>0, <1>2, <2>2, <3>2
    <3> QED BY <3>1, <3>2
  <2> QED BY <1>2, <2>2, <2>4
<1>7. ASSUME NEW j \in Conns, Read(j) PROVE Positions
  <2>1. /\ UNCHANGED <<cursor, sent>>
        /\ got' = [got EXCEPT ![j] = @ + 1] /\ job' = [job EXCEPT ![j] = got[j] + 1]
        /\ got[j] < sent[j]
    BY <1>7 DEF Read, durable, sockets
  <2>2. got[j] + 1 <= Len(outbox'[j[1]])
    BY <1>0, <1>2, <2>1, OutboxStep
  <2>3. \A k \in Conns : got'[k] <= sent'[k] /\ sent'[k] <= Len(outbox'[k[1]])
    BY <1>0, <1>2, <2>1
  <2>4. \A t \in Threads : job'[t] <= Len(outbox'[Origin(t)])
    BY <1>0, <1>2, <2>1, <2>2 DEF Origin
  <2> QED BY <1>2, <2>1, <2>3, <2>4
<1>8. ASSUME MainRead PROVE Positions
  <2>1. /\ UNCHANGED <<cursor, got, sent>>
        /\ job' = [job EXCEPT ![Main] = cursor[Host] + 1]
        /\ cursor[Host] < Len(outbox[Host]) /\ outbox' = outbox
    BY <1>8 DEF MainRead, durable, conns, sockets
  <2>2. Origin(Main) = Host /\ Host \in Peers
    BY Names DEF Origin, Main
  <2>3. cursor[Host] + 1 <= Len(outbox'[Host])
    BY <1>0, <2>1, <2>2, OutboxStep
  <2>4. \A p \in Peers : cursor'[p] <= Len(outbox'[p])
    BY <1>2, <2>1
  <2>5. \A k \in Conns : got'[k] <= sent'[k] /\ sent'[k] <= Len(outbox'[k[1]])
    BY <1>2, <2>1
  <2>6. ASSUME NEW t \in Threads PROVE job'[t] <= Len(outbox'[Origin(t)])
    <3>1. CASE t = Main
      BY <1>0, <2>1, <2>2, <2>3, <3>1
    <3>2. CASE t # Main
      BY <1>0, <1>2, <2>1, <3>2
    <3> QED BY <3>1, <3>2
  <2> QED BY <2>4, <2>5, <2>6
<1>9. ASSUME MainAcknowledge PROVE Positions
  <2>1. UNCHANGED <<got, sent, job>> /\ cursor' = [cursor EXCEPT ![Host] = job[Main]]
    BY <1>9 DEF MainAcknowledge, conns, sockets
  <2>2. Origin(Main) = Host /\ Host \in Peers /\ Main \in Threads
    BY Names DEF Origin, Main
  <2>3. job[Main] <= Len(outbox'[Host])
    BY <1>2, <2>2
  <2>4. ASSUME NEW p \in Peers PROVE cursor'[p] <= Len(outbox'[p])
    <3>1. CASE p = Host
      BY <1>0, <2>1, <2>3, <3>1
    <3>2. CASE p # Host
      BY <1>0, <1>2, <2>1, <3>2
    <3> QED BY <3>1, <3>2
  <2>5. \A k \in Conns : got'[k] <= sent'[k] /\ sent'[k] <= Len(outbox'[k[1]])
    BY <1>2, <2>1
  <2>6. \A t \in Threads : job'[t] <= Len(outbox'[Origin(t)])
    BY <1>2, <2>1
  <2> QED BY <2>4, <2>5, <2>6
<1>10. ASSUME HostCrash PROVE Positions
  <2>1. UNCHANGED <<cursor, got, sent>> /\ job' = [t \in Threads |-> 0]
    BY <1>10 DEF HostCrash, durable, sockets
  <2>2. ASSUME NEW t \in Threads PROVE job'[t] <= Len(outbox'[Origin(t)])
    <3>1. Origin(t) \in Peers
      BY <1>0
    <3>2. Len(outbox'[Origin(t)]) \in Nat
      BY <3>1, OutboxStep
    <3> QED BY <2>1, <3>2
  <2>3. \A p \in Peers : cursor'[p] <= Len(outbox'[p])
    BY <1>2, <2>1
  <2>4. \A k \in Conns : got'[k] <= sent'[k] /\ sent'[k] <= Len(outbox'[k[1]])
    BY <1>2, <2>1
  <2> QED BY <2>2, <2>3, <2>4
<1>11. Positions
  <2> HIDE DEF Positions
  <2> QED BY <1>3, <1>4, <1>5, <1>6, <1>7, <1>8, <1>9, <1>10, PositionStep
<1>12. ASSUME NEW k \in Conns, NEW m \in Frames(k)', m.kind = "receipt"
       PROVE  m.local <= Len(outbox'[k[1]])
  <2>1. \/ m \in Frames(k) \/ m \in commits' \/ m = Receipt(job[k])
    BY <1>12, FramesStep DEF SyncReady
  <2>2. m \notin commits'
    BY <1>12 DEF TypeOK, Entry
  <2>3. CASE m = Receipt(job[k])
    BY <1>0, <1>2, <2>3 DEF Receipt, Origin
  <2>4. CASE m \in Frames(k)
    <3>1. m \in Frame
      BY <2>4 DEF Frames, TypeOK, Range
    <3>2. m.local \in Nat
      BY <1>12, <3>1 DEF Frame, Entry, SyncReady
    <3>3. m.local <= Len(outbox[k[1]])
      BY <1>12, <2>4 DEF Bounded
    <3> QED BY <1>0, <1>1, <3>2, <3>3
  <2> QED BY <2>1, <2>2, <2>3, <2>4
<1> QED BY <1>11, <1>12 DEF Bounded

----------------------------------------------------------------------------
\* A freshly started host, with empty journal and inboxes, satisfies every part.
LEMMA InitSafe == ASSUME Init PROVE TypeOK /\ IInv
<1>1. TypeOK
  <2>1. None \in Entry
    BY Names DEF None, Record, Entry
  <2>2. 0 \in 0 .. MaxConn
    BY BoundAssumption
  <2>3. outbox \in [Peers -> Seq(Kinds)] /\ audit \in Seq(Entry)
        /\ toClient \in [Conns -> Seq(Frame)]
    BY DEF Init
  <2>4. cursor \in [Peers -> Nat] /\ inbox \in [Peers -> SUBSET Entry]
    BY DEF Init
  <2>5. /\ uncertain \subseteq Peers \X Nat /\ seen \subseteq Peers \X Nat
        /\ commits \subseteq Entry
    BY DEF Init
  <2>10. up = "up" /\ fault = FALSE /\ nextSeq = 1 /\ crashes = 0
    BY DEF Init
  <2>6. peers \in [Clients -> 0 .. MaxConn] /\ session \in [Clients -> 0 .. MaxConn]
        /\ used \in [Clients -> 0 .. MaxConn] /\ synced \in [Clients -> BOOLEAN]
    BY <2>2 DEF Init
  <2>7. job \in [Threads -> Nat] /\ staged \in [Threads -> Entry]
    BY <2>1 DEF Init
  <2>9. pc \in PcValues
    BY DEF Init, PcValues
  <2>8. serve \in [Conns -> {"none", "syncing", "ready", "shut", "gone"}]
        /\ replayed \in [Conns -> Nat] /\ got \in [Conns -> Nat] /\ sent \in [Conns -> Nat]
    BY DEF Init
  <2>11. up \in {"up", "fenced", "down"} /\ fault \in BOOLEAN
    BY <2>10
  <2>12. nextSeq \in Nat \ {0} /\ crashes \in Nat
    BY <2>10
  <2> QED BY <2>3, <2>4, <2>5, <2>6, <2>7, <2>8, <2>9, <2>11, <2>12, Zenon DEF TypeOK,
     PcValues
<1>2. Entries = {} /\ \A k \in Conns : Frames(k) = {}
  BY DEF Init, Entries, Frames, Range
<1>3. Bounded
  BY <1>2, ConnFacts, Names DEF Init, Bounded
<1>4. Stopped /\ Numbered /\ Staged /\ Sourced /\ Remembered /\ ExactlyOnce
  BY <1>2 DEF Init, Stopped, Numbered, Staged, Sourced, Remembered, ExactlyOnce, Ordered
<1> QED BY <1>1, <1>3, <1>4 DEF IInv

\* Every reachable state satisfies the type invariant and the inductive one.
THEOREM Safety == Spec => [](TypeOK /\ IInv)
<1>1. Init => TypeOK /\ IInv
  BY InitSafe
<1>2. TypeOK /\ IInv /\ [Next]_vars => (TypeOK /\ IInv)'
  <2> SUFFICES ASSUME TypeOK, IInv, [Next]_vars PROVE TypeOK' /\ IInv'
    OBVIOUS
  <2>1. Stopped /\ Bounded /\ Numbered /\ Staged /\ Sourced /\ Remembered /\ ExactlyOnce
    BY DEF IInv
  <2>2. TypeOK'
    BY <2>1, TypeStep
  <2>3. Bounded' /\ Stopped'
    BY <2>1, <2>2, BoundedStep, StoppedStep
  <2>4. Numbered' /\ Staged' /\ Sourced'
    BY <2>1, NumberedStep, StagedStep, SourcedStep
  <2>5. Remembered' /\ ExactlyOnce'
    BY <2>1, RememberedStep, ExactlyOnceStep
  <2> QED BY <2>2, <2>3, <2>4, <2>5 DEF IInv
<1> QED BY <1>1, <1>2, PTL DEF Spec

\* The type invariant holds in every instance.
THEOREM TypeCorrect == Spec => []TypeOK
  BY Safety, PTL

\* However the host crashes, its threads interleave, connections are replaced
\* and receipts are lost, an intent is committed at most once, unless the
\* journal itself could not say whether it was.
THEOREM CommitsExactlyOnce == Spec => []ExactlyOnce
<1>1. IInv => ExactlyOnce
  BY DEF IInv
<1> QED BY <1>1, Safety, PTL

\* No game is ever given an entry that is not in the journal, and no two games
\* are given different entries under one sequence number.
THEOREM WritesAhead == Spec => []WriteAhead
<1>1. TypeOK /\ IInv => WriteAhead
  BY DEF IInv, Sourced, Numbered, WriteAhead, Ordered
<1> QED BY <1>1, Safety, PTL

----------------------------------------------------------------------------
(***************************************************************************)
(* What the host decides: a message is acknowledged only when it was       *)
(* decided (AcknowledgedIsDecided), and one game's intents are committed   *)
(* in the order it made them (OriginOrder).                                *)
(*                                                                         *)
(* The argument.  A connection starts reading where the client's cursor    *)
(* is, and the cursor moves only over what was answered; so everything     *)
(* below the message a thread is working on was decided (Answered), and    *)
(* what it commits next comes after it in the journal (InTurn).  A decided *)
(* intent is not decided again: a rejection keeps its place, and a commit  *)
(* is in seen whenever the host runs (Kept).                               *)
(***************************************************************************)
\* The host's decision of an intent is in the journal: a rejection, or a commit
\* that a running host remembers.
Rejected(p, l) == \E e \in Entries : e.kind = "rejected" /\ e.peer = p /\ e.local = l
Kept(p, l)     == /\ <<p, l>> \in Committed(Entries)
                  /\ up # "down" => <<p, l>> \in seen
Decided(p, l)  == outbox[p][l] = "intent" => Rejected(p, l) \/ Kept(p, l)

\* A connection whose thread may still read.
Live(k) == serve[k] \in {"syncing", "ready", "shut"}

\* Only a ready connection holds a client's place, no connection is in use
\* before it is opened, and a thread works only for a connection that is served.
Linked ==
    /\ \A c \in Clients : /\ peers[c] # 0 => serve[<<c, peers[c]>>] = "ready"
                          /\ up = "down" => peers[c] = 0
                          /\ session[c] <= used[c]
    /\ \A k \in Conns : /\ k[2] > used[k[1]] => serve[k] = "none" /\ toClient[k] = << >>
                        /\ pc[k] # "idle" => serve[k] \in {"ready", "shut"}

\* A thread works on the message it read last, and knows its kind.
OnTheJob ==
    /\ \A k \in Conns : pc[k] # "idle" => job[k] = got[k] /\ got[k] > 0
    /\ pc[Main] # "idle" => job[Main] = cursor[Host] + 1
    /\ \A t \in Threads :
         /\ pc[t] \in Kinds => outbox[Origin(t)][job[t]] = pc[t]
         /\ pc[t] = "committing" => staged[t].kind = "commit"
         /\ pc[t] = "rejecting" => /\ staged[t].kind = "rejected"
                                   /\ <<staged[t].peer, staged[t].local>> = Key(t)

\* Everything up to a cursor, up to a receipt and up to what a live connection
\* has read is decided, but for the message its thread is working on.
CursorDecided   == \A p \in Peers : \A l \in 1 .. cursor[p] : Decided(p, l)
ReceiptsDecided == \A k \in Conns : \A m \in Frames(k) :
                       m.kind = "receipt" => \A l \in 1 .. m.local : Decided(k[1], l)
ReadDecided     == \A k \in Conns : Live(k) =>
                       \A l \in 1 .. got[k] :
                           Decided(k[1], l) \/ (pc[k] # "idle" /\ l = job[k])
RepliesDecided  == \A t \in Threads :
                       pc[t] \in {"broadcast", "reply"} => Decided(Origin(t), job[t])
Answered == /\ seen \subseteq Committed(Entries)
            /\ CursorDecided /\ ReceiptsDecided /\ ReadDecided /\ RepliesDecided

\* When the journal's i-th entry was written, every earlier intent of its game
\* was rejected, or is committed where a running host remembers it.
DecidedBefore(i, l) ==
    outbox[audit[i].peer][l] = "intent" =>
        \/ \E h \in 1 .. i : /\ audit[h].kind = "rejected"
                             /\ audit[h].peer = audit[i].peer /\ audit[h].local = l
        \/ Kept(audit[i].peer, l)
InTurn ==
    \A i \in DOMAIN audit : audit[i].kind = "commit" =>
        /\ audit[i].local \in 1 .. Len(outbox[audit[i].peer])
        /\ \A l \in 1 .. audit[i].local - 1 : DecidedBefore(i, l)

----------------------------------------------------------------------------
\* A game only adds to its outbox: what it emitted stays.
LEMMA OutboxKept ==
    ASSUME TypeOK, [Next]_vars, NEW p \in Peers, NEW l \in 1 .. Len(outbox[p])
    PROVE  l \in 1 .. Len(outbox'[p]) /\ outbox'[p][l] = outbox[p][l]
<1>0. outbox \in [Peers -> Seq(Kinds)] /\ outbox[p] \in Seq(Kinds)
  BY DEF TypeOK
<1>1. ASSUME NEW q \in Peers, NEW kind \in Kinds, Emit(q, kind)
      PROVE  outbox'[p] = outbox[p] \/ outbox'[p] = Append(outbox[p], kind)
  BY <1>0, <1>1 DEF Emit
<1>2. ASSUME NEW q \in Peers, NEW kind \in Kinds, Emit(q, kind)
      PROVE  l \in 1 .. Len(outbox'[p]) /\ outbox'[p][l] = outbox[p][l]
  <2>1. CASE outbox'[p] = outbox[p]
    BY <2>1
  <2>2. CASE outbox'[p] = Append(outbox[p], kind)
    BY <1>0, <2>2
  <2> QED BY <1>1, <1>2, <2>1, <2>2
<1>3. ASSUME NEW c \in Clients, ClientStep(c) \/ ClientDrop(c) PROVE outbox' = outbox
  BY <1>3 DEF ClientStep, Connect, ReceiveOrdered, ReceiveSyncReady, ReceiveReceipt,
     ClientSend, ClientNoticesClose, ClientDrop, EndSession, durable
<1>4. ASSUME NEW k \in Conns, ConnStep(k) \/ Hangup(k) \/ EnterAuditFault(k)
      PROVE  outbox' = outbox
  BY <1>4 DEF ConnStep, ReplayBatch, ReplayMissing, Register, Read, ReplyToClient, Hangup,
     EnterAuditFault, durable
<1>5. ASSUME NEW t \in Threads, Order(t) \/ AppendFails(t) PROVE outbox' = outbox
  BY <1>5 DEF Order, AppendFails, Deduplicate, Refuse, JournalCommit, ApplyCommit,
     BroadcastCommit, RejectionExists, JournalRejection, ApplyRejection, JournalEvent,
     RefuseEvent, durable
<1>6. CASE MainStep \/ HostCrash \/ HostRestart \/ UNCHANGED vars
  BY <1>6 DEF MainStep, MainRead, MainAcknowledge, Fence, HostCrash, HostRestart, vars,
     durable
<1> QED BY <1>2, <1>3, <1>4, <1>5, <1>6 DEF Next, Game

\* A running host forgets nothing, and a restarted one knows what the journal holds.
LEMMA MemoryStep ==
    ASSUME TypeOK, IInv, [Next]_vars
    PROVE  \/ HostCrash
           \/ up' = up /\ seen \subseteq seen' /\ commits \subseteq commits'
           \/ Fence /\ seen' = seen /\ commits' = commits
           \/ HostRestart /\ Entries' = Entries
<1>1. CASE Quiet
  BY <1>1 DEF Quiet
<1>2. ASSUME NEW t \in Threads, Ordering(t)
      PROVE  up' = up /\ seen \subseteq seen' /\ commits \subseteq commits'
  BY <1>2 DEF Ordering, JournalCommit, ApplyCommit, BroadcastCommit, JournalRejection,
     ApplyRejection, JournalEvent, AppendFails, hostVol
<1>3. CASE Fence
  BY <1>3 DEF Fence
<1>4. CASE HostRestart
  BY <1>4 DEF HostRestart, durable, Entries
<1> QED BY <1>1, <1>2, <1>3, <1>4, Footprint DEF IInv

\* What a running host remembers of its commits is remembered after any step.
LEMMA KeptStays ==
    ASSUME TypeOK, IInv, [Next]_vars, NEW p, NEW l, Kept(p, l)
    PROVE  Kept(p, l)'
<1>1. Committed(Entries) \subseteq Committed(Entries)'
  BY JournalKept DEF IInv, Committed
<1>2. CASE HostCrash
  BY <1>1, <1>2 DEF HostCrash, Kept
<1>3. CASE up' = up /\ seen \subseteq seen'
  BY <1>1, <1>3 DEF Kept
<1>4. CASE Fence /\ seen' = seen
  BY <1>1, <1>4 DEF Fence, Kept
<1>5. CASE HostRestart /\ Entries' = Entries
  BY <1>1, <1>5 DEF HostRestart, Kept
<1> QED BY <1>2, <1>3, <1>4, <1>5, MemoryStep

\* A decision is never undone.
LEMMA DecidedKept ==
    ASSUME TypeOK, IInv, [Next]_vars, NEW p \in Peers, NEW l \in 1 .. Len(outbox[p]),
           Decided(p, l)
    PROVE  Decided(p, l)'
<1>1. Rejected(p, l) => Rejected(p, l)'
  BY JournalKept DEF IInv, Rejected
<1> QED BY <1>1, KeptStays, OutboxKept DEF Decided

\* What a step makes of one thread: nothing, an end of its work, a message read, or a
\* stage of its ordering.
LEMMA ThreadStep ==
    ASSUME TypeOK, [Next]_vars, NEW t \in Threads
    PROVE  \/ pc'[t] = pc[t] /\ job'[t] = job[t] /\ staged'[t] = staged[t]
           \/ /\ pc'[t] = "idle"
              /\ \/ t \in Conns /\ (ReplyToClient(t) \/ EnterAuditFault(t))
                 \/ t = Main /\ (MainAcknowledge \/ Fence)
                 \/ HostCrash
           \/ t \in Conns /\ Read(t)
           \/ t = Main /\ MainRead
           \/ Order(t) \/ AppendFails(t)
<1>0. /\ pc \in PcValues /\ job \in [Threads -> Nat] /\ staged \in [Threads -> Entry]
      /\ Main \in Threads /\ Conns \subseteq Threads
  BY Names DEF TypeOK, PcValues
<1>1. CASE Game \/ HostRestart \/ UNCHANGED vars
  BY <1>1 DEF Game, Emit, HostRestart, vars, threads
<1>2. ASSUME NEW c \in Clients, ClientStep(c) \/ ClientDrop(c) PROVE UNCHANGED threads
  BY <1>2 DEF ClientStep, Connect, ReceiveOrdered, ReceiveSyncReady, ReceiveReceipt,
     ClientSend, ClientNoticesClose, ClientDrop, EndSession, threads
<1>3. ASSUME NEW k \in Conns, ReplayBatch(k) \/ ReplayMissing(k) \/ Register(k) \/ Hangup(k)
      PROVE  UNCHANGED threads
  BY <1>3 DEF ReplayBatch, ReplayMissing, Register, Hangup, threads
<1>4. ASSUME NEW k \in Conns, ReplyToClient(k) \/ EnterAuditFault(k)
      PROVE  pc' = [pc EXCEPT ![k] = "idle"] /\ job' = job /\ staged' = staged
  BY <1>4 DEF ReplyToClient, EnterAuditFault
<1>5. ASSUME NEW k \in Conns, Read(k), k # t
      PROVE  pc'[t] = pc[t] /\ job'[t] = job[t] /\ staged'[t] = staged[t]
  BY <1>0, <1>5 DEF Read, PcValues
<1>6. ASSUME MainAcknowledge \/ Fence
      PROVE  pc' = [pc EXCEPT ![Main] = "idle"] /\ job' = job /\ staged' = staged
  BY <1>6 DEF MainAcknowledge, Fence
<1>7. ASSUME MainRead, t # Main
      PROVE  pc'[t] = pc[t] /\ job'[t] = job[t] /\ staged'[t] = staged[t]
  BY <1>0, <1>7 DEF MainRead, PcValues
<1>8. ASSUME NEW s \in Threads, Order(s) \/ AppendFails(s), s # t
      PROVE  pc'[t] = pc[t] /\ job'[t] = job[t] /\ staged'[t] = staged[t]
  BY <1>0, <1>8 DEF Order, AppendFails, Deduplicate, Refuse, JournalCommit, ApplyCommit,
     BroadcastCommit, RejectionExists, JournalRejection, ApplyRejection, JournalEvent,
     RefuseEvent, PcValues
<1>9. ASSUME HostCrash PROVE pc'[t] = "idle"
  BY <1>9 DEF HostCrash
<1> QED
  <2>1. CASE \E k \in Conns : ReplyToClient(k) \/ EnterAuditFault(k)
    BY <1>0, <1>4, <2>1 DEF PcValues
  <2>2. CASE MainAcknowledge \/ Fence
    BY <1>0, <1>6, <2>2 DEF PcValues
  <2> QED BY <1>1, <1>2, <1>3, <1>5, <1>7, <1>8, <1>9, <2>1, <2>2
          DEF Next, MainStep, threads, ConnStep

\* What a step makes of the frames on their way on one connection.
LEMMA QueueStep ==
    ASSUME TypeOK, [Next]_vars, NEW k \in Conns
    PROVE  \/ toClient'[k] = toClient[k]
           \/ /\ toClient'[k] = << >>
              /\ ClientNoticesClose(k[1]) \/ ClientDrop(k[1])
              /\ k[2] = session[k[1]]
           \/ /\ toClient[k] # << >> /\ toClient'[k] = Tail(toClient[k])
              /\ ReceiveOrdered(k[1]) \/ ReceiveSyncReady(k[1]) \/ ReceiveReceipt(k[1])
              /\ k[2] = session[k[1]]
           \/ ReplayBatch(k) /\ toClient'[k] = toClient[k] \o Batch(k)
           \/ Register(k) /\ toClient'[k] = Append(toClient[k], SyncReady)
           \/ /\ ReplyToClient(k) /\ serve[k] = "ready"
              /\ toClient'[k] = Append(toClient[k], Receipt(job[k]))
           \/ \E t \in Threads : /\ BroadcastCommit(t) \/ ApplyRejection(t)
                                 /\ toClient'[k] = Append(toClient[k], staged[t])
<1>0. toClient \in [Conns -> Seq(Frame)] /\ k[1] \in Clients /\ k = <<k[1], k[2]>>
  BY Names DEF TypeOK
<1>1. CASE Game \/ MainStep \/ HostCrash \/ HostRestart \/ UNCHANGED vars
  BY <1>1 DEF Game, Emit, MainStep, MainRead, MainAcknowledge, Fence, HostCrash,
     HostRestart, vars, sockets
<1>2. ASSUME NEW c \in Clients, Connect(c) \/ ClientSend(c) PROVE toClient' = toClient
  BY <1>2 DEF Connect, ClientSend
<1>3. ASSUME NEW c \in Clients,
             ReceiveOrdered(c) \/ ReceiveSyncReady(c) \/ ReceiveReceipt(c)
      PROVE  \/ toClient'[k] = toClient[k]
             \/ /\ toClient[k] # << >> /\ toClient'[k] = Tail(toClient[k])
                /\ k = <<c, session[c]>>
  BY <1>0, <1>3 DEF ReceiveOrdered, ReceiveSyncReady, ReceiveReceipt
<1>4. ASSUME NEW c \in Clients, ClientNoticesClose(c) \/ ClientDrop(c)
      PROVE  \/ toClient'[k] = toClient[k]
             \/ toClient'[k] = << >> /\ k = <<c, session[c]>>
  BY <1>0, <1>4 DEF ClientNoticesClose, ClientDrop, EndSession
<1>5. ASSUME NEW j \in Conns, ConnStep(j), j # k PROVE toClient'[k] = toClient[k]
  BY <1>0, <1>5 DEF ConnStep, ReplayBatch, ReplayMissing, Register, Read, ReplyToClient,
     Send, sockets
<1>6. CASE ReplayMissing(k) \/ Read(k)
  BY <1>6 DEF ReplayMissing, Read, sockets
<1>7. CASE ReplayBatch(k)
  BY <1>0, <1>7 DEF ReplayBatch
<1>8. CASE Register(k)
  BY <1>0, <1>8 DEF Register, Send
<1>9. CASE ReplyToClient(k)
  BY <1>0, <1>9 DEF ReplyToClient, Send
<1>10. ASSUME NEW j \in Conns, Hangup(j) \/ EnterAuditFault(j) PROVE toClient' = toClient
  BY <1>10 DEF Hangup, EnterAuditFault, sockets
<1>11. ASSUME NEW t \in Threads, BroadcastCommit(t) \/ ApplyRejection(t)
       PROVE  \/ toClient'[k] = toClient[k]
              \/ toClient'[k] = Append(toClient[k], staged[t])
  BY <1>0, <1>11 DEF BroadcastCommit, ApplyRejection, Broadcast
<1>12. ASSUME NEW t \in Threads, Order(t) \/ AppendFails(t),
              ~ (BroadcastCommit(t) \/ ApplyRejection(t))
       PROVE  toClient' = toClient
  BY <1>12 DEF Order, AppendFails, Deduplicate, Refuse, JournalCommit, ApplyCommit,
     RejectionExists, JournalRejection, JournalEvent, RefuseEvent, sockets
<1> QED BY <1>0, <1>1, <1>2, <1>3, <1>4, <1>5, <1>6, <1>7, <1>8, <1>9, <1>10, <1>11, <1>12
        DEF Next, ClientStep, ConnStep

\* What a step makes of one connection: nothing, a message read, the end of its thread,
\* a close by the host, or a move of its catch-up; or it is opened.
LEMMA LinkStep ==
    ASSUME TypeOK, [Next]_vars, NEW k \in Conns
    PROVE  \/ serve'[k] = serve[k] /\ got'[k] = got[k] /\ replayed'[k] = replayed[k]
           \/ Read(k) /\ serve' = serve /\ replayed' = replayed
           \/ (ReplayBatch(k) \/ Register(k)) /\ got' = got
           \/ /\ serve'[k] = "gone"
              /\ got'[k] = got[k] /\ replayed'[k] = replayed[k]
              /\ ReplayMissing(k) \/ pc'[k] = "idle"
           \/ HostCrash /\ got' = got /\ replayed' = replayed
           \/ /\ serve'[k] = "shut" /\ peers[k[1]] = k[2]
              /\ got'[k] = got[k] /\ replayed'[k] = replayed[k]
              /\ Connect(k[1]) \/ Fence
           \/ Connect(k[1]) /\ k[2] = used[k[1]] + 1
<1>0. /\ serve \in [Conns -> {"none", "syncing", "ready", "shut", "gone"}]
      /\ got \in [Conns -> Nat] /\ replayed \in [Conns -> Nat] /\ pc \in PcValues
      /\ k[1] \in Clients /\ k = <<k[1], k[2]>> /\ k \in Threads
  BY Names DEF TypeOK, PcValues
<1>1. CASE Game \/ MainRead \/ MainAcknowledge \/ HostRestart \/ UNCHANGED vars
  BY <1>1 DEF Game, Emit, MainRead, MainAcknowledge, HostRestart, vars, conns
<1>2. ASSUME NEW c \in Clients, ClientStep(c) \/ ClientDrop(c), ~ Connect(c)
      PROVE  UNCHANGED conns
  BY <1>2 DEF ClientStep, ReceiveOrdered, ReceiveSyncReady, ReceiveReceipt,
     ClientSend, ClientNoticesClose, ClientDrop, EndSession, conns
<1>3. ASSUME NEW c \in Clients, Connect(c), <<c, used[c] + 1>> # k
      PROVE  /\ got'[k] = got[k] /\ replayed'[k] = replayed[k]
             /\ \/ serve'[k] = serve[k]
                \/ serve'[k] = "shut" /\ k[1] = c /\ peers[c] = k[2]
  BY <1>0, <1>3 DEF Connect
<1>4. ASSUME NEW j \in Conns, ConnStep(j) \/ Hangup(j) \/ EnterAuditFault(j), j # k
      PROVE  serve'[k] = serve[k] /\ got'[k] = got[k] /\ replayed'[k] = replayed[k]
  BY <1>0, <1>4 DEF ConnStep, ReplayBatch, ReplayMissing, Register, Read, ReplyToClient,
     Hangup, EnterAuditFault, conns
<1>5. CASE ReplayMissing(k) \/ ReplyToClient(k) \/ Hangup(k) \/ EnterAuditFault(k)
  <2>1. UNCHANGED <<got, replayed>>
    BY <1>5 DEF ReplayMissing, ReplyToClient, Hangup, EnterAuditFault
  <2>2. serve' = serve \/ serve' = [serve EXCEPT ![k] = "gone"]
    BY <1>5 DEF ReplayMissing, ReplyToClient, Hangup, EnterAuditFault
  <2>3. ReplayMissing(k) \/ pc'[k] = "idle"
    BY <1>0, <1>5 DEF ReplyToClient, Hangup, EnterAuditFault, PcValues, threads
  <2> QED BY <1>0, <2>1, <2>2, <2>3
<1>6. CASE Read(k) \/ ReplayBatch(k) \/ Register(k)
  BY <1>6 DEF Read, ReplayBatch, Register
<1>7. ASSUME NEW t \in Threads, Order(t) \/ AppendFails(t) PROVE UNCHANGED conns
  BY <1>7 DEF Order, AppendFails, Deduplicate, Refuse, JournalCommit, ApplyCommit,
     BroadcastCommit, RejectionExists, JournalRejection, ApplyRejection, JournalEvent,
     RefuseEvent, conns
<1>8. CASE HostCrash
  BY <1>0, <1>8 DEF HostCrash
<1>9. CASE Fence
  BY <1>0, <1>9 DEF Fence
<1> QED BY <1>0, <1>1, <1>2, <1>3, <1>4, <1>5, <1>6, <1>7, <1>8, <1>9
        DEF Next, MainStep, ConnStep, ClientStep, conns

\* Only ready connections hold a place, and nothing moves on one that is not open.
LEMMA LinkedStep == ASSUME TypeOK, IInv, Linked, [Next]_vars PROVE Linked'
<1>0. /\ serve \in [Conns -> {"none", "syncing", "ready", "shut", "gone"}]
      /\ pc \in PcValues /\ peers \in [Clients -> 0 .. MaxConn] /\ MaxConn \in Nat
      /\ session \in [Clients -> 0 .. MaxConn] /\ used \in [Clients -> 0 .. MaxConn]
      /\ toClient \in [Conns -> Seq(Frame)]
      /\ \A k \in Conns : /\ k[1] \in Clients /\ k[2] \in 1 .. MaxConn
                          /\ k = <<k[1], k[2]>> /\ k \in Threads
      /\ \A c \in Clients, i \in 1 .. MaxConn : <<c, i>> \in Conns
      /\ Main \in Threads /\ Main \notin Conns
      /\ \A c \in Clients : session[c] \in Nat /\ used[c] \in Nat
  <2>1. /\ serve \in [Conns -> {"none", "syncing", "ready", "shut", "gone"}]
        /\ pc \in PcValues /\ peers \in [Clients -> 0 .. MaxConn]
        /\ session \in [Clients -> 0 .. MaxConn] /\ used \in [Clients -> 0 .. MaxConn]
        /\ toClient \in [Conns -> Seq(Frame)]
    BY DEF TypeOK, PcValues
  <2>2. MaxConn \in Nat
    BY BoundAssumption
  <2>3. \A c \in Clients : session[c] \in Nat /\ used[c] \in Nat
    BY <2>1, <2>2
  <2>4. /\ \A k \in Conns : /\ k[1] \in Clients /\ k[2] \in 1 .. MaxConn
                            /\ k = <<k[1], k[2]>> /\ k \in Threads
        /\ \A c \in Clients, i \in 1 .. MaxConn : <<c, i>> \in Conns
    BY Names
  <2>5. Main \in Threads /\ Main \notin Conns
    BY Names, HostAssumption DEF Main
  <2> QED BY <2>1, <2>2, <2>3, <2>4, <2>5
<1>1. ASSUME UNCHANGED <<serve, pc, peers, session, used, toClient, up>> PROVE Linked'
  BY <1>1 DEF Linked
<1>2. CASE Game \/ UNCHANGED vars
  BY <1>1, <1>2 DEF Game, Emit, vars, hostVol, threads, conns, sockets
<1>3. ASSUME NEW c \in Clients, Connect(c) PROVE Linked'
  <2> DEFINE j == <<c, used[c] + 1>>
  <2>1. /\ serve' = [s \in Conns |-> IF s = j THEN "syncing"
                                     ELSE IF s[1] = c /\ s[2] = peers[c] THEN "shut"
                                     ELSE serve[s]]
        /\ peers' = [peers EXCEPT ![c] = 0] /\ session' = [session EXCEPT ![c] = used[c] + 1]
        /\ used' = [used EXCEPT ![c] = @ + 1] /\ up = "up"
        /\ UNCHANGED <<up, pc, toClient>> /\ used[c] < MaxConn
    BY <1>3 DEF Connect, threads
  <2>2. \A d \in Clients : peers[d] # 0 => <<d, peers[d]>> \in Conns
    BY <1>0
  <2>3. ASSUME NEW d \in Clients
        PROVE  /\ peers'[d] # 0 => serve'[<<d, peers'[d]>>] = "ready"
               /\ session'[d] <= used'[d]
    BY <1>0, <2>1, <2>2 DEF Linked
  <2>4. ASSUME NEW k \in Conns
        PROVE  /\ k[2] > used'[k[1]] => serve'[k] = "none" /\ toClient'[k] = << >>
               /\ pc'[k] # "idle" => serve'[k] \in {"ready", "shut"}
    <3>1. k[2] > used'[k[1]] => k[2] > used[k[1]] /\ k # j
      BY <1>0, <2>1
    <3>2. k[1] = c /\ k[2] = peers[c] => serve[k] = "ready"
      BY <1>0 DEF Linked
    <3>3. serve[j] = "none"
      <4>1. used[c] + 1 \in 1 .. MaxConn /\ used[c] + 1 > used[c]
        BY <1>0, <2>1
      <4>2. j \in Conns /\ j[1] = c /\ j[2] > used[j[1]]
        BY <1>0, <4>1
      <4> QED BY <4>2 DEF Linked
    <3> QED BY <1>0, <2>1, <3>1, <3>2, <3>3 DEF Linked
  <2> QED BY <2>1, <2>3, <2>4 DEF Linked
<1>4. ASSUME NEW c \in Clients, ClientStep(c) \/ ClientDrop(c), ~ Connect(c) PROVE Linked'
  <2>1. /\ UNCHANGED <<serve, pc, peers, used, up>>
        /\ \/ session' = session
           \/ session' = [session EXCEPT ![c] = 0]
        /\ session[c] # 0 \/ toClient' = toClient
        /\ \A k \in Conns : k # <<c, session[c]>> => toClient'[k] = toClient[k]
    BY <1>0, <1>4 DEF ClientStep, ReceiveOrdered, ReceiveSyncReady, ReceiveReceipt,
       ClientSend, ClientNoticesClose, ClientDrop, EndSession, hostVol, threads, conns
  <2>2. \A k \in Conns : k[2] > used[k[1]] => k # <<c, session[c]>>
    <3>1. session[c] <= used[c]
      BY DEF Linked
    <3> QED BY <1>0, <3>1
  <2>3. ASSUME NEW d \in Clients PROVE session'[d] <= used[d]
    <3>1. session[d] <= used[d] /\ used[d] \in Nat
      BY <1>0 DEF Linked
    <3>2. session'[d] \in {session[d], 0}
      BY <1>0, <2>1
    <3> QED BY <3>1, <3>2
  <2> QED BY <2>1, <2>2, <2>3 DEF Linked
<1>5. ASSUME NEW k \in Conns, ReplayBatch(k) PROVE Linked'
  <2>1. /\ UNCHANGED <<serve, pc, peers, session, used, up>> /\ serve[k] = "syncing"
        /\ \A j \in Conns : j # k => toClient'[j] = toClient[j]
    BY <1>0, <1>5 DEF ReplayBatch, hostVol, threads
  <2>2. \A j \in Conns : j[2] > used[j[1]] => toClient'[j] = toClient[j]
    BY <2>1 DEF Linked
  <2> QED BY <2>1, <2>2 DEF Linked
<1>6. ASSUME NEW k \in Conns, ReplayMissing(k) PROVE Linked'
  BY <1>0, <1>6 DEF ReplayMissing, Linked, hostVol, threads, sockets
<1>7. ASSUME NEW k \in Conns, Register(k) PROVE Linked'
  <2>1. /\ serve[k] = "syncing" /\ serve' = [serve EXCEPT ![k] = "ready"]
        /\ peers' = [peers EXCEPT ![k[1]] = k[2]]
        /\ UNCHANGED <<up, pc, session, used>>
        /\ \A j \in Conns : j # k => toClient'[j] = toClient[j]
    BY <1>0, <1>7 DEF Register, Send, threads
  <2>2. up # "down"
    BY <2>1 DEF IInv, Stopped
  <2>3. ASSUME NEW d \in Clients
        PROVE  peers'[d] # 0 => serve'[<<d, peers'[d]>>] = "ready"
    <3>1. CASE d = k[1]
      BY <1>0, <2>1, <3>1
    <3>2. CASE d # k[1]
      BY <1>0, <2>1, <3>2 DEF Linked
    <3> QED BY <3>1, <3>2
  <2>4. \A j \in Conns : j[2] > used[j[1]] => toClient'[j] = toClient[j] /\ serve'[j] = serve[j]
    BY <1>0, <2>1 DEF Linked
  <2>5. \A j \in Conns : pc[j] # "idle" => serve'[j] \in {"ready", "shut"}
    BY <1>0, <2>1 DEF Linked
  <2>6. /\ \A d \in Clients : session'[d] <= used'[d]
        /\ \A j \in Conns : j[2] > used'[j[1]] => serve'[j] = "none" /\ toClient'[j] = << >>
        /\ \A j \in Conns : pc'[j] # "idle" => serve'[j] \in {"ready", "shut"}
    BY <2>1, <2>4, <2>5 DEF Linked
  <2> QED BY <2>1, <2>2, <2>3, <2>6 DEF Linked
<1>8. ASSUME NEW k \in Conns, Read(k) PROVE Linked'
  <2>1. /\ serve[k] \in {"ready", "shut"} /\ UNCHANGED <<serve, peers, session, used, up, toClient>>
        /\ \A j \in Conns : j # k => pc'[j] = pc[j]
    BY <1>0, <1>8 DEF Read, hostVol, sockets, PcValues
  <2> QED BY <2>1 DEF Linked
<1>9. ASSUME NEW k \in Conns, ReplyToClient(k) PROVE Linked'
  <2>1. /\ pc[k] # "idle" /\ pc' = [pc EXCEPT ![k] = "idle"] /\ UNCHANGED <<peers, session, used, up>>
        /\ \/ serve' = serve
           \/ serve[k] # "ready" /\ serve' = [serve EXCEPT ![k] = "gone"]
        /\ \A j \in Conns : j # k => toClient'[j] = toClient[j]
    BY <1>0, <1>9 DEF ReplyToClient, Send, hostVol
  <2>2. serve[k] \in {"ready", "shut"}
    BY <2>1 DEF Linked
  <2>3. \A c \in Clients : peers[c] # 0 => serve'[<<c, peers[c]>>] = "ready"
    BY <1>0, <2>1 DEF Linked
  <2>4. \A j \in Conns : j[2] > used[j[1]] => toClient'[j] = toClient[j] /\ serve'[j] = serve[j]
    BY <1>0, <2>1, <2>2 DEF Linked
  <2>5. \A j \in Conns : pc'[j] # "idle" => serve'[j] \in {"ready", "shut"}
    BY <1>0, <2>1 DEF Linked, PcValues
  <2> QED BY <2>1, <2>3, <2>4, <2>5 DEF Linked
<1>10. ASSUME NEW k \in Conns, Hangup(k) \/ EnterAuditFault(k) PROVE Linked'
  <2>1. /\ serve[k] \in {"syncing", "ready", "shut"}
        /\ peers' = Without(k) /\ serve' = [serve EXCEPT ![k] = "gone"]
        /\ pc' = [pc EXCEPT ![k] = "idle"] /\ UNCHANGED <<session, used, toClient, up>>
    BY <1>0, <1>10 DEF Hangup, EnterAuditFault, threads, sockets, Linked, PcValues
  <2>2. \A c \in Clients : peers'[c] # 0 => peers'[c] = peers[c] /\ <<c, peers[c]>> # k
    BY <2>1 DEF Without
  <2>3. \A c \in Clients : peers'[c] # 0 => serve'[<<c, peers'[c]>>] = "ready"
    BY <1>0, <2>1, <2>2 DEF Linked
  <2>4. \A c \in Clients : up = "down" => peers'[c] = 0
    BY <2>2 DEF Linked
  <2>5. \A j \in Conns : j[2] > used[j[1]] => serve'[j] = serve[j]
    BY <1>0, <2>1 DEF Linked
  <2>6. \A j \in Conns : pc'[j] # "idle" => serve'[j] \in {"ready", "shut"}
    BY <1>0, <2>1 DEF Linked, PcValues
  <2> QED BY <2>1, <2>3, <2>4, <2>5, <2>6 DEF Linked
<1>11. CASE MainRead \/ MainAcknowledge
  <2>1. /\ UNCHANGED <<serve, peers, session, used, up, toClient>>
        /\ \A k \in Conns : pc'[k] = pc[k]
    BY <1>0, <1>11 DEF MainRead, MainAcknowledge, hostVol, conns, sockets, PcValues
  <2> QED BY <2>1 DEF Linked
<1>12. CASE Fence
  <2>1. /\ serve' = [k \in Conns |-> IF peers[k[1]] = k[2] THEN "shut" ELSE serve[k]]
        /\ peers' = [c \in Clients |-> 0] /\ UNCHANGED <<session, used, toClient>>
        /\ \A k \in Conns : pc'[k] = pc[k]
    BY <1>0, <1>12 DEF Fence, sockets, PcValues
  <2>2. \A k \in Conns : peers[k[1]] = k[2] => serve[k] = "ready"
    BY <1>0 DEF Linked
  <2> QED BY <1>0, <2>1, <2>2 DEF Linked
<1>13. ASSUME NEW t \in Threads, Order(t) \/ AppendFails(t) PROVE Linked'
  <2>1. /\ UNCHANGED <<serve, peers, session, used, up>>
        /\ pc[t] # "idle"
        /\ \A k \in Conns : k # t => pc'[k] = pc[k]
    BY <1>0, <1>13 DEF Order, AppendFails, Deduplicate, Refuse, JournalCommit, ApplyCommit,
       BroadcastCommit, RejectionExists, JournalRejection, ApplyRejection, JournalEvent,
       RefuseEvent, hostVol, conns, sockets, PcValues
  <2>2. \A k \in Conns : toClient'[k] # toClient[k] => session[k[1]] = k[2]
    BY <1>0, <1>13 DEF Order, AppendFails, Deduplicate, Refuse, JournalCommit, ApplyCommit,
       BroadcastCommit, RejectionExists, JournalRejection, ApplyRejection, JournalEvent,
       RefuseEvent, sockets, Broadcast
  <2>3. ASSUME NEW k \in Conns, k[2] > used[k[1]] PROVE toClient'[k] = toClient[k]
    <3>1. session[k[1]] <= used[k[1]]
      BY <1>0 DEF Linked
    <3> QED BY <1>0, <2>2, <2>3, <3>1
  <2>4. \A k \in Conns : pc'[k] # "idle" => pc[k] # "idle"
    BY <2>1
  <2> QED BY <2>1, <2>3, <2>4 DEF Linked
<1>14. CASE HostCrash
  BY <1>0, <1>14 DEF HostCrash, Linked, sockets
<1>15. CASE HostRestart
  BY <1>15 DEF HostRestart, Linked, threads, conns, sockets
<1> QED BY <1>2, <1>3, <1>4, <1>5, <1>6, <1>7, <1>8, <1>9, <1>10, <1>11, <1>12, <1>13, <1>14,
           <1>15
        DEF Next, ConnStep, MainStep, ClientStep

\* A working thread works on a message its game emitted.
LEMMA JobEmitted ==
    ASSUME TypeOK, IInv, OnTheJob, NEW t \in Threads, pc[t] # "idle"
    PROVE  Origin(t) \in Peers /\ job[t] \in 1 .. Len(outbox[Origin(t)])
<1>1. Origin(t) \in Peers /\ job[t] \in Nat /\ job[t] <= Len(outbox[Origin(t)])
  BY Names DEF TypeOK, IInv, Bounded
<1>2. outbox[Origin(t)] \in Seq(Kinds)
  BY <1>1 DEF TypeOK
<1>3. CASE t \in Conns
  BY <1>1, <1>2, <1>3 DEF OnTheJob
<1>4. CASE t = Main
  BY <1>1, <1>2, <1>4, Names DEF OnTheJob, TypeOK
<1> QED BY <1>3, <1>4 DEF Threads

\* An ordering thread goes on with its message, and nobody reads meanwhile.
LEMMA OrderStage ==
    ASSUME TypeOK, NEW t \in Threads, Order(t) \/ AppendFails(t)
    PROVE  /\ pc[t] # "idle" /\ pc'[t] \notin Kinds \union {"idle"}
           /\ UNCHANGED <<outbox, cursor, job, got, serve, session, peers, replayed, up>>
           /\ pc'[t] = "committing" => JournalCommit(t)
           /\ pc'[t] = "rejecting" => JournalRejection(t)
           /\ pc'[t] = "broadcast" => ApplyCommit(t)
           /\ pc'[t] = "reply" => \/ Deduplicate(t) \/ RejectionExists(t) \/ BroadcastCommit(t)
                                  \/ ApplyRejection(t) \/ JournalEvent(t) \/ RefuseEvent(t)
<1>0. pc \in PcValues
  BY DEF TypeOK, PcValues
<1>1. CASE Deduplicate(t) \/ Refuse(t) \/ RejectionExists(t) \/ RefuseEvent(t)
  BY <1>0, <1>1 DEF Deduplicate, Refuse, RejectionExists, RefuseEvent, Kinds, PcValues,
     durable, hostVol, conns, sockets
<1>2. CASE JournalCommit(t) \/ JournalRejection(t) \/ JournalEvent(t) \/ AppendFails(t)
  BY <1>0, <1>2 DEF JournalCommit, JournalRejection, JournalEvent, AppendFails, Kinds,
     PcValues, hostVol, conns, sockets
<1>3. CASE ApplyCommit(t) \/ BroadcastCommit(t) \/ ApplyRejection(t)
  BY <1>0, <1>3 DEF ApplyCommit, BroadcastCommit, ApplyRejection, Kinds, PcValues,
     durable, hostVol, conns, sockets
<1> QED BY <1>1, <1>2, <1>3 DEF Order

\* The host's own cursor moves only at the end of its main thread's work.
LEMMA HostCursorStep ==
    ASSUME TypeOK, [Next]_vars
    PROVE  cursor'[Host] = cursor[Host] \/ MainAcknowledge
<1>0. cursor \in [Peers -> Nat] /\ Host \in Peers
  BY Names DEF TypeOK
<1>1. CASE UNCHANGED <<cursor, got, sent, job>>
  BY <1>1
<1>2. ASSUME NEW c \in Clients, Connect(c) \/ ClientSend(c) PROVE cursor' = cursor
  BY <1>2 DEF Connect, ClientSend, durable
<1>3. ASSUME NEW c \in Clients, ReceiveReceipt(c) PROVE cursor'[Host] = cursor[Host]
  BY <1>0, <1>3, HostAssumption DEF ReceiveReceipt
<1>4. ASSUME NEW k \in Conns, Read(k) PROVE cursor' = cursor
  BY <1>4 DEF Read, durable
<1>5. CASE MainRead \/ HostCrash
  BY <1>5 DEF MainRead, HostCrash, durable
<1> QED BY <1>1, <1>2, <1>3, <1>4, <1>5, PositionStep

\* A thread stays on its message until it is done with it.
LEMMA OnTheJobStep == ASSUME TypeOK, IInv, Linked, OnTheJob, [Next]_vars PROVE OnTheJob'
<1>0. /\ got \in [Conns -> Nat] /\ job \in [Threads -> Nat] /\ pc \in PcValues
      /\ staged \in [Threads -> Entry] /\ outbox \in [Peers -> Seq(Kinds)]
      /\ cursor \in [Peers -> Nat] /\ Host \in Peers /\ Main \in Threads /\ Main \notin Conns
      /\ Conns \subseteq Threads /\ Origin(Main) = Host
  BY Names, HostAssumption DEF TypeOK, PcValues, Main, Conns, Origin
<1>1. ASSUME NEW k \in Conns, pc'[k] # "idle" PROVE job'[k] = got'[k] /\ got'[k] > 0
  <2>1. CASE Read(k)
    BY <1>0, <2>1 DEF Read
  <2>2. CASE pc'[k] = pc[k] /\ job'[k] = job[k] /\ ~ Read(k)
    <3>1. job[k] = got[k] /\ got[k] > 0
      BY <1>1, <2>2 DEF OnTheJob
    <3>2. ~ (k[2] = used[k[1]] + 1)
      <4>1. used[k[1]] \in 0 .. MaxConn /\ MaxConn \in Nat
        BY ConnFacts, BoundAssumption DEF TypeOK
      <4>2. ~ (k[2] > used[k[1]])
        BY <1>1, <2>2 DEF Linked
      <4> QED BY <4>1, <4>2
    <3>3. got'[k] = got[k]
      BY <1>1, <2>2, <3>2, LinkStep DEF HostCrash
    <3> QED BY <2>2, <3>1, <3>3
  <2>3. CASE Order(k) \/ AppendFails(k)
    BY <1>0, <2>3, OrderStage DEF OnTheJob
  <2> QED BY <1>0, <1>1, <2>1, <2>2, <2>3, ThreadStep
<1>2. ASSUME pc'[Main] # "idle" PROVE job'[Main] = cursor'[Host] + 1
  <2>1. CASE MainRead
    BY <1>0, <2>1 DEF MainRead, durable
  <2>2. ~ MainAcknowledge
    BY <1>0, <1>2 DEF MainAcknowledge, PcValues
  <2>3. cursor'[Host] = cursor[Host]
    BY <2>2, HostCursorStep
  <2>4. CASE pc'[Main] = pc[Main] /\ job'[Main] = job[Main]
    BY <1>2, <2>3, <2>4 DEF OnTheJob
  <2>5. CASE Order(Main) \/ AppendFails(Main)
    BY <1>0, <2>3, <2>5, OrderStage DEF OnTheJob
  <2> QED BY <1>0, <1>2, <2>1, <2>4, <2>5, ThreadStep
<1>3. ASSUME NEW t \in Threads
      PROVE  /\ pc'[t] \in Kinds => outbox'[Origin(t)][job'[t]] = pc'[t]
             /\ pc'[t] = "committing" => staged'[t].kind = "commit"
             /\ pc'[t] = "rejecting" => /\ staged'[t].kind = "rejected"
                                        /\ <<staged'[t].peer, staged'[t].local>> = Key(t)'
  <2>1. CASE pc'[t] = pc[t] /\ job'[t] = job[t] /\ staged'[t] = staged[t]
    <3>1. pc[t] \in Kinds => outbox'[Origin(t)][job[t]] = pc[t]
      BY JobEmitted, OutboxKept DEF OnTheJob, Kinds
    <3> QED BY <2>1, <3>1 DEF OnTheJob, Key
  <2>2. CASE pc'[t] = "idle"
    BY <2>2 DEF Kinds
  <2>3. CASE t \in Conns /\ Read(t)
    <3>1. /\ pc' = [pc EXCEPT ![t] = outbox[t[1]][got[t] + 1]]
          /\ job' = [job EXCEPT ![t] = got[t] + 1] /\ outbox' = outbox
          /\ got[t] < sent[t]
      BY <2>3 DEF Read, durable
    <3>2. outbox[t[1]][got[t] + 1] \in Kinds
      <4>1. /\ outbox[t[1]] \in Seq(Kinds) /\ got[t] \in Nat /\ sent[t] \in Nat
            /\ sent[t] <= Len(outbox[t[1]])
        BY <2>3, ConnFacts DEF TypeOK, IInv, Bounded
      <4> QED BY <3>1, <4>1
    <3> QED BY <1>0, <3>1, <3>2 DEF PcValues, Kinds, Origin
  <2>4. CASE t = Main /\ MainRead
    <3>1. /\ pc' = [pc EXCEPT ![t] = outbox[Host][cursor[Host] + 1]]
          /\ job' = [job EXCEPT ![t] = cursor[Host] + 1] /\ outbox' = outbox
          /\ cursor[Host] < Len(outbox[Host])
      BY <2>4 DEF MainRead, durable
    <3>2. outbox[Host][cursor[Host] + 1] \in Kinds
      BY <1>0, <3>1
    <3> QED BY <1>0, <2>4, <3>1, <3>2 DEF PcValues, Kinds
  <2>5. CASE Order(t) \/ AppendFails(t)
    <3>1. /\ pc'[t] \notin Kinds
          /\ pc'[t] = "committing" => JournalCommit(t)
          /\ pc'[t] = "rejecting" => JournalRejection(t)
          /\ job' = job
      BY <2>5, OrderStage
    <3>2. CASE JournalCommit(t)
      BY <1>0, <3>1, <3>2 DEF JournalCommit, Commit, PcValues
    <3>3. CASE JournalRejection(t)
      BY <1>0, <3>1, <3>3 DEF JournalRejection, Rejection, Key, PcValues
    <3> QED BY <3>1, <3>2, <3>3
  <2> QED BY <2>1, <2>2, <2>3, <2>4, <2>5, ThreadStep
<1> QED BY <1>1, <1>2, <1>3 DEF OnTheJob

\* What a thread that goes on to answer has behind it is a decision.
LEMMA RepliesStep ==
    ASSUME TypeOK, IInv, Linked, OnTheJob, Answered, [Next]_vars, NEW t \in Threads,
           pc'[t] \in {"broadcast", "reply"}, NEW l, l = job'[t]
    PROVE  Decided(Origin(t), l)'
<1>0. /\ pc \in PcValues /\ job \in [Threads -> Nat] /\ staged \in [Threads -> Entry]
      /\ Entries \subseteq Entry /\ seen \subseteq Peers \X Nat
  BY EntriesTyped DEF TypeOK, PcValues
<1>1. ASSUME pc[t] # "idle", Decided(Origin(t), l), job[t] = l
      PROVE  Decided(Origin(t), l)'
  BY <1>1, JobEmitted, DecidedKept
<1>2. CASE pc'[t] = pc[t] /\ job'[t] = job[t]
  <2>1. pc[t] # "idle" /\ Decided(Origin(t), l)
    BY <1>2 DEF Answered, RepliesDecided
  <2> QED BY <1>1, <1>2, <2>1
<1>3. CASE t \in Conns /\ Read(t)
  <2>1. pc'[t] \in Kinds
    <3>1. /\ outbox[t[1]] \in Seq(Kinds) /\ got[t] \in Nat /\ sent[t] \in Nat
          /\ sent[t] <= Len(outbox[t[1]]) /\ t \in Threads
      BY <1>3, ConnFacts DEF TypeOK, IInv, Bounded
    <3>2. pc'[t] = outbox[t[1]][got[t] + 1] /\ got[t] < sent[t]
      BY <1>0, <1>3 DEF Read, PcValues
    <3> QED BY <3>1, <3>2
  <2> QED BY <2>1 DEF Kinds
<1>4. CASE t = Main /\ MainRead
  <2>1. pc'[t] \in Kinds
    <3>1. outbox[Host] \in Seq(Kinds) /\ cursor[Host] \in Nat
      BY Names DEF TypeOK
    <3>2. pc'[t] = outbox[Host][cursor[Host] + 1] /\ cursor[Host] < Len(outbox[Host])
      BY <1>0, <1>4 DEF MainRead, PcValues
    <3> QED BY <3>1, <3>2
  <2> QED BY <2>1 DEF Kinds
<1>5. CASE Order(t) \/ AppendFails(t)
  <2>1. pc[t] # "idle" /\ job[t] = l /\ Key(t) = <<Origin(t), l>>
    BY <1>5, OrderStage DEF Key
  <2>2. CASE ApplyCommit(t)
    <3>1. /\ staged[t] \in Entries /\ staged[t].kind = "commit"
          /\ <<staged[t].peer, staged[t].local>> = Key(t)
      BY <2>2 DEF ApplyCommit, IInv, Staged, OnTheJob, Ordered
    <3>2. Entries' = Entries /\ seen' = seen \union {Key(t)}
      BY <2>2 DEF ApplyCommit, Entries
    <3> QED BY <2>1, <3>1, <3>2 DEF Decided, Kept, Committed, Key
  <2>3. CASE Deduplicate(t)
    <3>1. Key(t) \in Committed(Entries) /\ Key(t) \in seen
      BY <2>3 DEF Deduplicate, Answered
    <3> QED BY <1>1, <2>1, <3>1 DEF Decided, Kept, Key
  <2>4. CASE RejectionExists(t)
    <3>1. \E e \in Entries : e.kind = "rejected" /\ <<e.peer, e.local>> = Key(t)
      BY <2>4 DEF RejectionExists, IInv, Sourced, Ordered
    <3> QED BY <1>1, <2>1, <3>1 DEF Decided, Rejected, Key
  <2>5. CASE BroadcastCommit(t)
    BY <1>1, <2>1, <2>5 DEF BroadcastCommit, Answered, RepliesDecided
  <2>6. CASE ApplyRejection(t)
    <3>1. /\ staged[t] \in Entries /\ staged[t].kind = "rejected"
          /\ <<staged[t].peer, staged[t].local>> = Key(t)
      BY <2>6 DEF ApplyRejection, IInv, Staged, OnTheJob, Ordered
    <3> QED BY <1>1, <2>1, <3>1 DEF Decided, Rejected, Key
  <2>7. CASE JournalEvent(t) \/ RefuseEvent(t)
    <3>1. outbox[Origin(t)][l] = "event"
      BY <2>1, <2>7 DEF JournalEvent, RefuseEvent, OnTheJob, Kinds
    <3> QED BY <1>1, <2>1, <3>1 DEF Decided
  <2> QED BY <1>5, <2>2, <2>3, <2>4, <2>5, <2>6, <2>7, OrderStage
<1> QED BY <1>2, <1>3, <1>4, <1>5, ThreadStep

\* What a connection's thread has read is decided, up to what it is working on.
LEMMA ReadStep ==
    ASSUME TypeOK, IInv, Linked, OnTheJob, Answered, [Next]_vars, NEW k \in Conns,
           Live(k)', NEW l \in 1 .. got'[k]
    PROVE  Decided(k[1], l)' \/ (pc'[k] # "idle" /\ l = job'[k])
<1>0. /\ got \in [Conns -> Nat] /\ pc \in PcValues /\ k \in Threads /\ k[1] \in Clients
      /\ k[1] \in Peers /\ cursor \in [Peers -> Nat] /\ k = <<k[1], k[2]>>
      /\ got[k] <= Len(outbox[k[1]]) /\ cursor[k[1]] <= Len(outbox[k[1]])
      /\ Len(outbox[k[1]]) \in Nat /\ used[k[1]] \in Nat /\ Origin(k) = k[1]
  <2>1. k \in Threads /\ k[1] \in Clients /\ k[1] \in Peers /\ k = <<k[1], k[2]>>
    BY Names
  <2>2. outbox[k[1]] \in Seq(Kinds) /\ used[k[1]] \in 0 .. MaxConn /\ MaxConn \in Nat
    BY <2>1, BoundAssumption DEF TypeOK
  <2>3. got[k] \in Nat /\ sent[k] \in Nat
    BY DEF TypeOK
  <2>4. got \in [Conns -> Nat] /\ pc \in PcValues /\ cursor \in [Peers -> Nat]
    BY DEF TypeOK, PcValues
  <2>5. /\ got[k] <= sent[k] /\ sent[k] <= Len(outbox[k[1]])
        /\ cursor[k[1]] <= Len(outbox[k[1]])
    BY <2>1 DEF IInv, Bounded
  <2>6. Origin(k) = k[1]
    BY DEF Origin
  <2>7. got[k] <= Len(outbox[k[1]]) /\ Len(outbox[k[1]]) \in Nat /\ used[k[1]] \in Nat
    BY <2>2, <2>3, <2>5
  <2> QED BY <2>1, <2>4, <2>5, <2>6, <2>7
<1>1. CASE Connect(k[1]) /\ k[2] = used[k[1]] + 1
  <2>1. got'[k] = cursor[k[1]]
    BY <1>0, <1>1 DEF Connect
  <2>2. Decided(k[1], l)
    BY <1>0, <2>1 DEF Answered, CursorDecided
  <2>3. l \in 1 .. Len(outbox[k[1]])
    BY <1>0, <2>1
  <2> QED BY <1>0, <2>2, <2>3, DecidedKept
<1>2. CASE Read(k)
  <2>1. /\ Live(k) /\ pc[k] = "idle" /\ got'[k] = got[k] + 1 /\ job'[k] = got[k] + 1
    BY <1>0, <1>2 DEF Read, Live, TypeOK
  <2>2. pc'[k] # "idle"
    <3>1. /\ outbox[k[1]] \in Seq(Kinds) /\ sent[k] \in Nat /\ sent[k] <= Len(outbox[k[1]])
      BY <1>0 DEF TypeOK, IInv, Bounded
    <3>2. pc'[k] = outbox[k[1]][got[k] + 1] /\ got[k] < sent[k]
      BY <1>0, <1>2 DEF Read, PcValues
    <3>3. got[k] + 1 \in 1 .. Len(outbox[k[1]])
      BY <1>0, <3>1, <3>2
    <3> QED BY <3>1, <3>2, <3>3 DEF Kinds
  <2>3. CASE l = got[k] + 1
    BY <2>1, <2>2, <2>3
  <2>4. CASE l \in 1 .. got[k]
    <3>1. Decided(k[1], l) /\ l \in 1 .. Len(outbox[k[1]])
      BY <1>0, <2>1, <2>4 DEF Answered, ReadDecided
    <3> QED BY <1>0, <3>1, DecidedKept
  <2> QED BY <1>0, <2>1, <2>3, <2>4
<1>3. ASSUME Live(k), got'[k] = got[k], ~ Read(k), ~ HostCrash, ~ EnterAuditFault(k)
      PROVE  Decided(k[1], l)' \/ (pc'[k] # "idle" /\ l = job'[k])
  <2>1. l \in 1 .. Len(outbox[k[1]])
    BY <1>0, <1>3
  <2>2. CASE Decided(k[1], l)
    BY <1>0, <2>1, <2>2, DecidedKept
  <2>3. CASE pc[k] # "idle" /\ l = job[k]
    <3>1. CASE ReplyToClient(k)
      <4>1. pc[k] = "reply"
        BY <3>1 DEF ReplyToClient
      <4>2. Decided(k[1], l)
        BY <1>0, <2>3, <4>1 DEF Answered, RepliesDecided
      <4> QED BY <2>2, <4>2
    <3>2. CASE pc'[k] = pc[k] /\ job'[k] = job[k]
      BY <2>3, <3>2
    <3>3. CASE Order(k) \/ AppendFails(k)
      BY <1>0, <2>3, <3>3, OrderStage
    <3> QED BY <1>0, <1>3, <3>1, <3>2, <3>3, ThreadStep, Names, HostAssumption DEF Main
  <2> QED BY <1>3, <2>2, <2>3 DEF Answered, ReadDecided
<1>4. CASE ~ (Connect(k[1]) /\ k[2] = used[k[1]] + 1) /\ ~ Read(k)
  <2>1. ~ HostCrash
    BY <1>0 DEF HostCrash, Live
  <2>2. ~ EnterAuditFault(k)
    BY <1>0 DEF EnterAuditFault, Live, TypeOK
  <2>3. got'[k] = got[k]
    BY <1>4, <2>1, LinkStep
  <2>4. Live(k)
    <3>1. peers[k[1]] = k[2] => serve[k] = "ready"
      BY <1>0, Names DEF Linked
    <3> QED BY <1>4, <2>1, <3>1, LinkStep DEF Live, ReplayBatch, Register
  <2> QED BY <1>3, <1>4, <2>1, <2>2, <2>3, <2>4
<1> QED BY <1>1, <1>2, <1>4

\* A receipt is put on a connection only by its own thread, for the message it works on.
LEMMA NewReceipt ==
    ASSUME TypeOK, IInv, [Next]_vars, NEW k \in Conns, NEW m \in Frames(k)',
           m \notin Frames(k), m.kind = "receipt"
    PROVE  ReplyToClient(k) /\ serve[k] = "ready" /\ m = Receipt(job[k])
<1>0. /\ toClient[k] \in Seq(Frame) /\ commits \subseteq Entry
      /\ \A t \in Threads : staged[t] \in Entry
      /\ \A e \in Entry : e.kind # "receipt"
      /\ k \in Threads /\ job[k] \in Nat
  BY Names DEF TypeOK, Entry
<1>1. toClient'[k] # toClient[k] /\ toClient'[k] # << >>
  BY DEF Frames, Range
<1>2. ~ (toClient[k] # << >> /\ toClient'[k] = Tail(toClient[k]))
  BY <1>0, RangeTail DEF Frames
<1>3. ASSUME NEW f \in Frame, toClient'[k] = Append(toClient[k], f) PROVE m = f
  BY <1>0, <1>3, RangeAppend DEF Frames
<1>4. ~ ReplayBatch(k)
  <2>1. SUFFICES ASSUME ReplayBatch(k) PROVE FALSE
    OBVIOUS
  <2>2. replayed[k] \in Nat /\ nextSeq \in Nat /\ nextSeq - 1 - replayed[k] \in Nat
    BY <2>1 DEF TypeOK, ReplayBatch
  <2>3. Batch(k) \in Seq(commits) /\ commits \subseteq Frame
    BY <1>0, <2>1, <2>2, BatchTyped DEF ReplayBatch, Frame
  <2>4. toClient'[k] = toClient[k] \o Batch(k)
    BY <1>1, <2>1 DEF ReplayBatch, TypeOK
  <2>5. Batch(k) \in Seq(Frame)
    BY <2>3
  <2>6. Frames(k)' \subseteq Frames(k) \union Range(Batch(k))
    BY <1>0, <2>4, <2>5, RangeConcat DEF Frames
  <2>7. Range(Batch(k)) \subseteq commits
    BY <2>3 DEF Range
  <2> QED BY <1>0, <2>6, <2>7
<1>5. SyncReady \in Frame /\ SyncReady.kind # "receipt" /\ Receipt(job[k]) \in Frame
  BY <1>0 DEF SyncReady, Frame, Receipt
<1>6. ASSUME NEW t \in Threads, toClient'[k] = Append(toClient[k], staged[t]) PROVE FALSE
  BY <1>0, <1>3, <1>6 DEF Frame
<1> QED BY <1>1, <1>2, <1>3, <1>4, <1>5, <1>6, QueueStep

\* Every step keeps everything below a cursor, a receipt or a read position decided.
LEMMA AnsweredStep ==
    ASSUME TypeOK, IInv, Linked, OnTheJob, Answered, [Next]_vars PROVE Answered'
<1>0. /\ cursor \in [Peers -> Nat] /\ job \in [Threads -> Nat] /\ Host \in Peers
      /\ Main \in Threads /\ Origin(Main) = Host
      /\ \A p \in Peers : cursor[p] <= Len(outbox[p]) /\ Len(outbox[p]) \in Nat
      /\ \A k \in Conns : k \in Threads /\ Origin(k) = k[1] /\ k[1] \in Peers
  BY Names, OutboxStep DEF TypeOK, IInv, Bounded, Main, Origin
<1>1. seen' \subseteq Committed(Entries)'
  <2>1. Committed(Entries) \subseteq Committed(Entries)'
    BY JournalKept DEF IInv, Committed
  <2>2. CASE Quiet \/ Fence \/ HostCrash
    BY <2>1, <2>2 DEF Quiet, Fence, HostCrash, Answered
  <2>3. CASE HostRestart
    BY <2>1, <2>3 DEF HostRestart
  <2>4. ASSUME NEW t \in Threads, Ordering(t), ~ ApplyCommit(t) PROVE seen' = seen
    BY <2>4 DEF Ordering, JournalCommit, BroadcastCommit, JournalRejection,
       ApplyRejection, JournalEvent, AppendFails, hostVol
  <2>5. ASSUME NEW t \in Threads, ApplyCommit(t)
        PROVE  seen' \subseteq seen \union Committed(Entries)
    <3>1. /\ staged[t] \in Entries /\ staged[t].kind = "commit"
          /\ <<staged[t].peer, staged[t].local>> = Key(t)
      BY <2>5 DEF ApplyCommit, IInv, Staged, OnTheJob, Ordered
    <3>2. seen' = seen \union {Key(t)}
      BY <2>5 DEF ApplyCommit
    <3> QED BY <3>1, <3>2 DEF Committed
  <2> QED BY <2>1, <2>2, <2>3, <2>4, <2>5, Footprint DEF Answered, IInv
<1>2. ASSUME NEW p \in Peers, NEW l \in 1 .. cursor'[p] PROVE Decided(p, l)'
  <2>1. CASE l \in 1 .. cursor[p]
    <3>1. l \in 1 .. Len(outbox[p]) /\ Decided(p, l)
      BY <1>0, <2>1 DEF Answered, CursorDecided
    <3> QED BY <3>1, DecidedKept
  <2>2. ASSUME NEW c \in Clients, ReceiveReceipt(c), l \notin 1 .. cursor[p]
        PROVE  Decided(p, l)'
    <3> DEFINE k == <<c, session[c]>>
               m == Head(toClient[k])
    <3>1. k \in Conns /\ k[1] = c
      BY <2>2, SessionConn DEF ReceiveReceipt
    <3>2. m \in Frames(k) /\ m.kind = "receipt" /\ m \in Frame
      <4>1. toClient[k] \in Seq(Frame) /\ toClient[k] # << >>
        BY <2>2, <3>1 DEF ReceiveReceipt, TypeOK
      <4> QED BY <2>2, <4>1, RangeTail DEF ReceiveReceipt, Frames
    <3>3. m.local \in Nat
      BY <3>2 DEF Frame, Entry, SyncReady
    <3>4. p = c /\ l \in 1 .. m.local
      BY <1>0, <2>2, <3>3 DEF ReceiveReceipt
    <3>5. m.local <= Len(outbox[c])
      BY <3>1, <3>2 DEF IInv, Bounded
    <3>6. Decided(p, l)
      BY <3>1, <3>2, <3>4 DEF Answered, ReceiptsDecided
    <3>7. l \in 1 .. Len(outbox[p])
      BY <1>0, <3>3, <3>4, <3>5
    <3> QED BY <3>6, <3>7, DecidedKept
  <2>3. CASE MainAcknowledge /\ l \notin 1 .. cursor[p]
    <3>1. cursor' = [cursor EXCEPT ![Host] = job[Main]] /\ pc[Main] = "reply"
      BY <2>3 DEF MainAcknowledge
    <3>2. job[Main] = cursor[Host] + 1
      BY <3>1 DEF OnTheJob
    <3>3. p = Host /\ l = job[Main]
      BY <1>0, <2>3, <3>1, <3>2
    <3>4. Decided(p, l) /\ l \in 1 .. Len(outbox[p])
      BY <1>0, <3>1, <3>3, JobEmitted DEF Answered, RepliesDecided
    <3> QED BY <3>4, DecidedKept
  <2>4. CASE cursor' = cursor
    BY <2>1, <2>4
  <2>5. \/ cursor' = cursor \/ MainAcknowledge
        \/ \E c \in Clients : ReceiveReceipt(c)
    <3>1. ASSUME NEW c \in Clients, Connect(c) \/ ClientSend(c) PROVE cursor' = cursor
      BY <3>1 DEF Connect, ClientSend, durable
    <3>2. ASSUME NEW k \in Conns, Read(k) PROVE cursor' = cursor
      BY <3>2 DEF Read, durable
    <3>3. MainRead \/ HostCrash => cursor' = cursor
      BY DEF MainRead, HostCrash, durable
    <3> QED BY <3>1, <3>2, <3>3, PositionStep
  <2> QED BY <2>1, <2>2, <2>3, <2>4, <2>5
<1>3. ASSUME NEW k \in Conns, NEW m \in Frames(k)', m.kind = "receipt", NEW l \in 1 .. m.local
      PROVE  Decided(k[1], l)'
  <2>1. CASE m \in Frames(k)
    <3>1. m \in Frame
      BY <2>1 DEF Frames, TypeOK, Range
    <3>2. m.local \in Nat /\ m.local <= Len(outbox[k[1]])
      BY <1>3, <2>1, <3>1 DEF Frame, Entry, SyncReady, IInv, Bounded
    <3>3. Decided(k[1], l) /\ l \in 1 .. Len(outbox[k[1]])
      BY <1>0, <1>3, <2>1, <3>2 DEF Answered, ReceiptsDecided
    <3> QED BY <1>0, <3>3, DecidedKept
  <2>2. CASE m \notin Frames(k)
    <3>1. ReplyToClient(k) /\ m = Receipt(job[k])
      BY <1>3, <2>2, NewReceipt
    <3>2. /\ pc[k] = "reply" /\ m.local = job[k] /\ serve[k] \in {"ready", "shut"}
          /\ job[k] = got[k]
      BY <3>1 DEF ReplyToClient, Receipt, Linked, OnTheJob
    <3>3. Decided(k[1], l)
      <4>1. CASE l = job[k]
        BY <1>0, <3>2, <4>1 DEF Answered, RepliesDecided
      <4>2. CASE l # job[k]
        BY <3>2, <4>2 DEF Answered, ReadDecided, Live
      <4> QED BY <4>1, <4>2
    <3>4. l \in 1 .. Len(outbox[k[1]])
      BY <1>0, <1>3, <3>2, JobEmitted
    <3> QED BY <1>0, <3>3, <3>4, DecidedKept
  <2> QED BY <2>1, <2>2
<1>4. CursorDecided' /\ ReceiptsDecided' /\ ReadDecided'
  BY <1>2, <1>3, ReadStep DEF CursorDecided, ReceiptsDecided, ReadDecided, Live
<1>5. RepliesDecided'
  BY RepliesStep DEF RepliesDecided, Decided, Rejected, Kept
<1> QED BY <1>1, <1>4, <1>5 DEF Answered

\* Everything a game emitted before the message a thread works on is decided.
LEMMA BelowJob ==
    ASSUME TypeOK, IInv, Linked, OnTheJob, Answered, NEW t \in Threads, pc[t] # "idle",
           NEW l \in 1 .. job[t] - 1
    PROVE  Decided(Origin(t), l)
<1>0. job[t] \in Nat /\ cursor[Host] \in Nat
  BY Names DEF TypeOK
<1>1. CASE t \in Conns
  <2>1. Live(t) /\ job[t] = got[t] /\ l # job[t] /\ l \in 1 .. got[t]
    BY <1>0, <1>1 DEF Linked, OnTheJob, Live
  <2> QED BY <1>1, <2>1 DEF Answered, ReadDecided, Origin
<1>2. CASE t = Main
  <2>1. job[t] = cursor[Host] + 1 /\ Origin(t) = Host /\ Host \in Peers
    BY <1>2, Names DEF OnTheJob, Main, Origin
  <2>2. l \in 1 .. cursor[Host]
    BY <1>0, <2>1
  <2> QED BY <2>1, <2>2 DEF Answered, CursorDecided
<1> QED BY <1>1, <1>2 DEF Threads

\* The journal grows by one entry at a time, and by a commit only for an intent that the
\* host does not remember to have committed.
LEMMA AuditStep ==
    ASSUME TypeOK, IInv, [Next]_vars
    PROVE  \/ audit' = audit
           \/ \E t \in Threads, e \in Entry :
                /\ audit' = Append(audit, e) /\ pc[t] # "idle"
                /\ e.kind = "commit" =>
                     pc[t] = "intent" /\ Key(t) \notin seen /\ <<e.peer, e.local>> = Key(t)
<1>0. ASSUME NEW t \in Threads
      PROVE  /\ Commit(nextSeq, Origin(t), job[t]) \in Entry
             /\ Rejection(nextSeq, Origin(t), job[t]) \in Entry
             /\ Record(Origin(t), job[t]) \in Entry
  BY Names DEF TypeOK, Commit, Rejection, Record, Entry
<1>1. ASSUME NEW t \in Threads, JournalCommit(t) PROVE
        \E e \in Entry : /\ audit' = Append(audit, e) /\ pc[t] # "idle"
                         /\ pc[t] = "intent" /\ Key(t) \notin seen
                         /\ <<e.peer, e.local>> = Key(t)
  BY <1>0, <1>1 DEF JournalCommit, Commit, Key
<1>2. ASSUME NEW t \in Threads, JournalRejection(t) \/ JournalEvent(t) PROVE
        \E e \in Entry : audit' = Append(audit, e) /\ pc[t] # "idle" /\ e.kind # "commit"
  BY <1>0, <1>2 DEF JournalRejection, JournalEvent, Rejection, Record
<1>3. ASSUME NEW t \in Threads, AppendFails(t), audit' # audit PROVE
        \E e \in Entry :
            /\ audit' = Append(audit, e) /\ pc[t] # "idle"
            /\ e.kind = "commit" =>
                 pc[t] = "intent" /\ Key(t) \notin seen /\ <<e.peer, e.local>> = Key(t)
  <2>1. audit' = Append(audit, Unwritten(t)) /\ Unwritten(t) \in Entry
    BY <1>0, <1>3 DEF AppendFails, Unwritten
  <2>2. Unwritten(t).kind = "commit" =>
           pc[t] = "intent" /\ Key(t) \notin seen
           /\ <<Unwritten(t).peer, Unwritten(t).local>> = Key(t)
    BY <1>3 DEF AppendFails, Unwritten, Commit, Rejection, Record, Key
  <2>3. pc[t] # "idle"
    BY <1>3 DEF AppendFails
  <2> QED BY <2>1, <2>2, <2>3
<1>4. ASSUME NEW t \in Threads, ApplyCommit(t) \/ BroadcastCommit(t) \/ ApplyRejection(t)
      PROVE  audit' = audit
  BY <1>4 DEF ApplyCommit, BroadcastCommit, ApplyRejection, durable
<1>5. CASE Quiet \/ Fence \/ HostCrash \/ HostRestart
  BY <1>5 DEF Quiet, Fence, HostCrash, HostRestart, durable
<1> QED BY <1>1, <1>2, <1>3, <1>4, <1>5, Footprint DEF Ordering, IInv

\* A commit enters the journal after everything its game emitted before it was decided.
LEMMA InTurnStep ==
    ASSUME TypeOK, IInv, Linked, OnTheJob, Answered, InTurn, [Next]_vars PROVE InTurn'
<1>0. audit \in Seq(Entry) /\ DOMAIN audit = 1 .. Len(audit) /\ Len(audit) \in Nat
      /\ \A i \in DOMAIN audit : audit[i] \in Entry /\ audit[i].peer \in Peers
  <2>1. audit \in Seq(Entry)
    BY DEF TypeOK
  <2>2. DOMAIN audit = 1 .. Len(audit) /\ Len(audit) \in Nat
    BY <2>1
  <2>3. \A i \in DOMAIN audit : audit[i] \in Entry
    BY <2>1, <2>2
  <2> QED BY <2>1, <2>2, <2>3 DEF Entry
<1>1. ASSUME NEW i \in DOMAIN audit, \A h \in 1 .. i : audit'[h] = audit[h],
             audit[i].kind = "commit"
      PROVE  /\ audit'[i].local \in 1 .. Len(outbox'[audit'[i].peer])
             /\ \A l \in 1 .. audit'[i].local - 1 : DecidedBefore(i, l)'
  <2>0. PICK p \in Peers, n \in Nat : p = audit[i].peer /\ n = audit[i].local
    BY <1>0 DEF Entry
  <2>1. audit'[i] = audit[i] /\ n \in 1 .. Len(outbox[p]) /\ outbox[p] \in Seq(Kinds)
    BY <1>0, <1>1, <2>0 DEF InTurn, TypeOK
  <2>2. n \in 1 .. Len(outbox'[p])
    BY <2>1, OutboxKept
  <2>3. ASSUME NEW l \in 1 .. n - 1 PROVE DecidedBefore(i, l)'
    <3>1. l \in 1 .. Len(outbox[p])
      BY <2>1
    <3>2. outbox'[p][l] = outbox[p][l]
      BY <2>1, <3>1, OutboxKept
    <3>3. DecidedBefore(i, l)
      BY <1>1, <2>0 DEF InTurn
    <3>4. Kept(p, l) => Kept(p, l)'
      BY KeptStays
    <3> QED BY <1>1, <2>0, <2>1, <3>2, <3>3, <3>4 DEF DecidedBefore, Kept
  <2> QED BY <2>0, <2>1, <2>2, <2>3
<1>2. CASE audit' = audit
  <2>1. \A i \in DOMAIN audit : \A h \in 1 .. i : audit'[h] = audit[h]
    BY <1>2
  <2> QED BY <1>1, <1>2, <2>1 DEF InTurn
<1>3. ASSUME NEW t \in Threads, NEW e \in Entry, audit' = Append(audit, e), pc[t] # "idle",
             e.kind = "commit" =>
                pc[t] = "intent" /\ Key(t) \notin seen /\ <<e.peer, e.local>> = Key(t)
      PROVE  InTurn'
  <2>1. /\ DOMAIN audit' = 1 .. Len(audit) + 1 /\ audit'[Len(audit) + 1] = e
        /\ \A h \in 1 .. Len(audit) : audit'[h] = audit[h]
    BY <1>0, <1>3
  <2>2. \A i \in DOMAIN audit : \A h \in 1 .. i : audit'[h] = audit[h]
    BY <1>0, <2>1
  <2>3. ASSUME e.kind = "commit", NEW i, i = Len(audit) + 1
        PROVE  /\ audit'[i].local \in 1 .. Len(outbox'[audit'[i].peer])
               /\ \A l \in 1 .. audit'[i].local - 1 : DecidedBefore(i, l)'
    <3>1. /\ e.peer = Origin(t) /\ e.local = job[t] /\ Origin(t) \in Peers
          /\ job[t] \in 1 .. Len(outbox[Origin(t)]) /\ job[t] \in Nat
          /\ outbox[Origin(t)] \in Seq(Kinds)
      BY <1>3, <2>3, JobEmitted DEF Key, TypeOK
    <3>2. e.local \in 1 .. Len(outbox'[e.peer])
      BY <3>1, OutboxKept
    <3>3. ASSUME NEW l \in 1 .. e.local - 1 PROVE DecidedBefore(i, l)'
      <4>1. l \in 1 .. Len(outbox[e.peer]) /\ e.peer \in Peers
        BY <3>1
      <4>2. outbox'[e.peer][l] = outbox[e.peer][l]
        BY <4>1, OutboxKept
      <4>3. Decided(e.peer, l)
        BY <1>3, <3>1, BelowJob
      <4>4. Rejected(e.peer, l) => \E h \in 1 .. i : /\ audit'[h].kind = "rejected"
                                                     /\ audit'[h].peer = e.peer
                                                     /\ audit'[h].local = l
        BY <1>0, <2>1, <2>3 DEF Rejected, Entries, Range
      <4>5. Kept(e.peer, l) => Kept(e.peer, l)'
        BY KeptStays
      <4> QED BY <2>1, <2>3, <4>2, <4>3, <4>4, <4>5 DEF DecidedBefore, Decided, Kept
    <3> QED BY <2>1, <2>3, <3>2, <3>3
  <2>4. \A i \in DOMAIN audit' : i \in DOMAIN audit \/ i = Len(audit) + 1
    BY <1>0, <2>1
  <2> QED BY <1>0, <1>1, <2>1, <2>2, <2>3, <2>4 DEF InTurn
<1> QED BY <1>2, <1>3, AuditStep

\* No commit enters the journal behind a later one of the same game, unless it was
\* rejected before that one.
LEMMA OriginOrderStep ==
    ASSUME TypeOK, IInv, Linked, OnTheJob, Answered, InTurn, OriginOrder, [Next]_vars
    PROVE  OriginOrder'
<1>0. audit \in Seq(Entry) /\ DOMAIN audit = 1 .. Len(audit) /\ Len(audit) \in Nat
      /\ \A i \in DOMAIN audit : audit[i] \in Entry /\ audit[i].local \in Nat
  <2>1. audit \in Seq(Entry)
    BY DEF TypeOK
  <2>2. DOMAIN audit = 1 .. Len(audit) /\ Len(audit) \in Nat
    BY <2>1
  <2>3. \A i \in DOMAIN audit : audit[i] \in Entry
    BY <2>1, <2>2
  <2> QED BY <2>1, <2>2, <2>3 DEF Entry
<1>1. CASE audit' = audit
  BY <1>1 DEF OriginOrder
<1>2. ASSUME NEW t \in Threads, NEW e \in Entry, audit' = Append(audit, e), pc[t] # "idle",
             e.kind = "commit" =>
                pc[t] = "intent" /\ Key(t) \notin seen /\ <<e.peer, e.local>> = Key(t)
      PROVE  OriginOrder'
  <2>1. /\ DOMAIN audit' = 1 .. Len(audit) + 1 /\ audit'[Len(audit) + 1] = e
        /\ \A h \in 1 .. Len(audit) : audit'[h] = audit[h]
    BY <1>0, <1>2
  <2> SUFFICES ASSUME NEW i \in DOMAIN audit', NEW j \in DOMAIN audit', i < j,
                      audit'[i].kind = "commit", audit'[j].kind = "commit",
                      audit'[i].peer = audit'[j].peer, audit'[j].local < audit'[i].local
               PROVE  \E h \in 1 .. i : /\ audit'[h].kind = "rejected"
                                        /\ audit'[h].peer = audit'[j].peer
                                        /\ audit'[h].local = audit'[j].local
    BY DEF OriginOrder
  <2>2. /\ i \in DOMAIN audit /\ audit'[i] = audit[i]
        /\ \A h \in 1 .. i : h \in DOMAIN audit /\ audit'[h] = audit[h]
    BY <1>0, <2>1
  <2>3. CASE j \in DOMAIN audit
    <3>1. audit'[j] = audit[j]
      BY <1>0, <2>1, <2>3
    <3> QED BY <2>2, <2>3, <3>1 DEF OriginOrder
  <2>4. CASE j \notin DOMAIN audit
    <3> DEFINE p == audit[i].peer
               l == e.local
    <3>0. audit'[j] = e /\ e.peer = p
      BY <1>0, <2>1, <2>2, <2>4
    <3>1. /\ pc[t] = "intent" /\ <<p, l>> \notin seen /\ l = job[t]
          /\ p = Origin(t)
      BY <1>2, <3>0 DEF Key
    <3>2. outbox[p][l] = "intent" /\ l \in 1 .. Len(outbox[p])
      BY <3>1, JobEmitted DEF OnTheJob, Kinds
    <3>3. l \in 1 .. audit[i].local - 1
      BY <1>0, <2>2, <3>0, <3>2
    <3>4. DecidedBefore(i, l)
      BY <2>2, <3>3 DEF InTurn
    <3>5. ~ Kept(p, l)
      BY <3>1 DEF Kept, IInv, Stopped
    <3>6. \E h \in 1 .. i : /\ audit[h].kind = "rejected"
                            /\ audit[h].peer = p /\ audit[h].local = l
      BY <3>2, <3>4, <3>5 DEF DecidedBefore
    <3> QED BY <2>2, <3>0, <3>6
  <2> QED BY <2>3, <2>4
<1> QED BY <1>1, <1>2, AuditStep

----------------------------------------------------------------------------
DInv == Linked /\ OnTheJob /\ Answered /\ InTurn /\ OriginOrder

\* Every reachable state satisfies the inductive invariant of what is decided.
THEOREM Decisions == Spec => []DInv
<1>1. Init => DInv
  <2> SUFFICES ASSUME Init PROVE DInv
    OBVIOUS
  <2>1. Main \in Threads /\ Conns \subseteq Threads /\ \A k \in Conns : k[1] \in Clients
    BY Names
  <2>2. /\ Entries = {} /\ \A k \in Conns : Frames(k) = {} /\ toClient[k] = << >>
        /\ DOMAIN audit = {}
    BY DEF Init, Entries, Frames, Range
  <2>3. Linked
    BY <2>1 DEF Init, Linked
  <2>4. OnTheJob
    BY <2>1 DEF Init, OnTheJob, Kinds
  <2>5. Answered
    BY <2>1, <2>2 DEF Init, Answered, CursorDecided, ReceiptsDecided, ReadDecided,
       RepliesDecided, Live
  <2>6. InTurn /\ OriginOrder
    BY <2>2 DEF InTurn, OriginOrder
  <2> QED BY <2>3, <2>4, <2>5, <2>6 DEF DInv
<1>2. TypeOK /\ IInv /\ DInv /\ [Next]_vars => DInv'
  BY LinkedStep, OnTheJobStep, AnsweredStep, InTurnStep, OriginOrderStep DEF DInv
<1> QED BY <1>1, <1>2, Safety, PTL DEF Spec

\* A message the companion will not send again was decided, whichever thread
\* answered it and whatever crashed in between.
THEOREM AcknowledgesDecided == Spec => []AcknowledgedIsDecided
<1>1. TypeOK /\ IInv /\ DInv => AcknowledgedIsDecided
  <2> SUFFICES ASSUME TypeOK, IInv, DInv, NEW p \in Peers, NEW l \in 1 .. cursor[p],
                      outbox[p][l] = "intent"
               PROVE  \E e \in Ordered(Entries) : e.peer = p /\ e.local = l
    BY DEF AcknowledgedIsDecided
  <2>1. Decided(p, l)
    BY DEF DInv, Answered, CursorDecided
  <2> QED BY <2>1 DEF Decided, Rejected, Kept, Committed, Ordered, IsOrdered
<1> QED BY <1>1, Safety, Decisions, PTL

\* One game's intents are committed in the order it made them, except one that
\* was rejected before the later one was committed.
THEOREM KeepsOriginOrder == Spec => []OriginOrder
<1>1. DInv => OriginOrder
  BY DEF DInv
<1> QED BY <1>1, Decisions, PTL

----------------------------------------------------------------------------
(***************************************************************************)
(* What the host delivers: no receipt skips a message                      *)
(* (AcknowledgementsHaveNoGap), and a registered connection misses no      *)
(* entry (NothingMissed).                                                  *)
(*                                                                         *)
(* The argument.  Receipts travel in the order their thread sends them, so *)
(* one that skips the client's cursor has its predecessor before it        *)
(* (Consecutive).  A connection that catches up holds everything up to the *)
(* number it was replayed to; order_lock keeps an entry above that number  *)
(* from being published between the last look at the history and the       *)
(* registration, and from then on every entry is broadcast (CaughtUp).     *)
(***************************************************************************)
\* A client has, or is being sent, the receipt of message n.
Reached(k, n) == n <= cursor[k[1]] \/ Receipt(n) \in Frames(k)

\* The receipts on a client's connection follow its cursor without a gap, up to
\* what its thread has answered.
InStep(k) ==
    \A i \in DOMAIN toClient[k] : toClient[k][i].kind = "receipt" =>
        \/ toClient[k][i].local <= cursor[k[1]] + 1
        \/ \E j \in 1 .. i - 1 : toClient[k][j] = Receipt(toClient[k][i].local - 1)
Consecutive ==
    \A k \in Conns : session[k[1]] = k[2] =>
        /\ InStep(k)
        /\ Live(k) => IF pc[k] = "idle" THEN Reached(k, got[k]) ELSE Reached(k, got[k] - 1)

\* An entry the client of k holds, or will if the connection lasts.
Delivered(k, e) == e \in inbox[k[1]] \/ e \in Frames(k)

\* A connection that catches up holds everything it was replayed, and what is
\* being ordered now is beyond that.
CaughtUp ==
    \A k \in Conns : serve[k] = "syncing" =>
        /\ replayed[k] < nextSeq
        /\ \A t \in Threads :
               pc[t] \in {"committing", "rejecting"} => staged[t].seq > replayed[k]
        /\ session[k[1]] = k[2] =>
               \A e \in commits : e.seq <= replayed[k] => Delivered(k, e)

----------------------------------------------------------------------------
\* A client's connection in use changes only when it is opened or closed.
LEMMA SessionStep ==
    ASSUME TypeOK, [Next]_vars, NEW c \in Clients
    PROVE  session'[c] \in {session[c], 0} \/ Connect(c)
<1>0. session \in [Clients -> 0 .. MaxConn]
  BY DEF TypeOK
<1>1. CASE Game \/ MainStep \/ HostCrash \/ HostRestart \/ UNCHANGED vars
  BY <1>1 DEF Game, Emit, MainStep, MainRead, MainAcknowledge, Fence, HostCrash,
     HostRestart, vars, sockets
<1>2. ASSUME NEW d \in Clients, ClientStep(d) \/ ClientDrop(d), ~ Connect(d)
      PROVE  session'[c] \in {session[c], 0}
  BY <1>0, <1>2 DEF ClientStep, ReceiveOrdered, ReceiveSyncReady, ReceiveReceipt,
     ClientSend, ClientNoticesClose, ClientDrop, EndSession
<1>3. ASSUME NEW d \in Clients, Connect(d), d # c PROVE session'[c] = session[c]
  BY <1>0, <1>3 DEF Connect
<1>4. ASSUME NEW k \in Conns, ConnStep(k) \/ Hangup(k) \/ EnterAuditFault(k)
      PROVE  session' = session
  BY <1>4 DEF ConnStep, ReplayBatch, ReplayMissing, Register, Read, ReplyToClient, Hangup,
     EnterAuditFault, sockets
<1>5. ASSUME NEW t \in Threads, Order(t) \/ AppendFails(t) PROVE session' = session
  BY <1>5, OrderStage
<1> QED BY <1>1, <1>2, <1>3, <1>4, <1>5 DEF Next

\* A client's cursor only moves forward, and at least to the receipt it takes.
LEMMA CursorStep ==
    ASSUME TypeOK, [Next]_vars, NEW c \in Clients
    PROVE  \/ cursor'[c] = cursor[c] /\ ~ ReceiveReceipt(c)
           \/ /\ ReceiveReceipt(c) /\ cursor'[c] \in Nat /\ cursor[c] <= cursor'[c]
              /\ Head(toClient[<<c, session[c]>>]).local <= cursor'[c]
<1>0. cursor \in [Peers -> Nat] /\ c \in Peers /\ c # Host
  BY Names, HostAssumption DEF TypeOK
<1>1. CASE ReceiveReceipt(c)
  <2> DEFINE k == <<c, session[c]>>
  <2>1. k \in Conns /\ toClient[k] \in Seq(Frame) /\ toClient[k] # << >>
    BY <1>1, SessionConn DEF ReceiveReceipt, TypeOK
  <2>2. Head(toClient[k]) \in Frame /\ Head(toClient[k]).kind = "receipt"
    BY <1>1, <2>1 DEF ReceiveReceipt
  <2>3. Head(toClient[k]).local \in Nat
    BY <2>2 DEF Frame, Entry, SyncReady
  <2>4. cursor'[c] = IF Head(toClient[k]).local < cursor[c] THEN cursor[c]
                     ELSE Head(toClient[k]).local
    BY <1>0, <1>1 DEF ReceiveReceipt
  <2> QED BY <1>0, <1>1, <2>3, <2>4
<1>2. ASSUME NEW d \in Clients, ReceiveReceipt(d), d # c PROVE cursor'[c] = cursor[c]
  BY <1>0, <1>2 DEF ReceiveReceipt
<1>3. ASSUME NEW d \in Clients, Connect(d) \/ ClientSend(d) PROVE cursor' = cursor
  BY <1>3 DEF Connect, ClientSend, durable
<1>4. ASSUME NEW k \in Conns, Read(k) PROVE cursor' = cursor
  BY <1>4 DEF Read, durable
<1>5. MainRead \/ HostCrash => cursor' = cursor
  BY DEF MainRead, HostCrash, durable
<1>6. MainAcknowledge => cursor'[c] = cursor[c]
  BY <1>0 DEF MainAcknowledge
<1> QED BY <1>1, <1>2, <1>3, <1>4, <1>5, <1>6, PositionStep

\* A frame that is not the first is still there when the first is taken.
LEMMA TailKeeps ==
    ASSUME NEW S, NEW s \in Seq(S), s # << >>, NEW m \in Range(s), m # Head(s)
    PROVE  m \in Range(Tail(s))
<1>1. PICK i \in 1 .. Len(s) : m = s[i]
  BY DEF Range
<1>2. i # 1 /\ DOMAIN Tail(s) = 1 .. Len(s) - 1
  BY <1>1
<1>3. i - 1 \in 1 .. Len(s) - 1 /\ Tail(s)[i - 1] = s[i]
  BY <1>1, <1>2
<1> QED BY <1>1, <1>2, <1>3 DEF Range

\* A catch-up batch is put behind what is on its way, and holds every entry of the
\* host's memory that the connection lacks.
LEMMA ReplayKeeps ==
    ASSUME TypeOK, IInv, NEW k \in Conns, ReplayBatch(k),
           toClient'[k] = toClient[k] \o Batch(k)
    PROVE  /\ Frames(k) \subseteq Frames(k)'
           /\ \A e \in commits : replayed[k] < e.seq => e \in Frames(k)'
<1>0. /\ toClient[k] \in Seq(Frame) /\ replayed[k] \in Nat /\ nextSeq \in Nat
      /\ nextSeq - 1 - replayed[k] \in Nat /\ commits \subseteq Frame /\ commits \subseteq Entry
  BY DEF TypeOK, ReplayBatch, Frame
<1>1. Batch(k) \in Seq(commits) /\ Len(Batch(k)) = nextSeq - 1 - replayed[k]
  <2>1. Batch(k) \in Seq(commits)
    BY <1>0, BatchTyped DEF ReplayBatch
  <2>2. DOMAIN Batch(k) = 1 .. nextSeq - 1 - replayed[k]
    BY DEF Batch
  <2> QED BY <1>0, <2>1, <2>2
<1>2. Batch(k) \in Seq(Frame)
  BY <1>0, <1>1
<1>3. Frames(k) \subseteq Frames(k)'
  <2>1. \A i \in 1 .. Len(toClient[k]) :
            i \in DOMAIN (toClient[k] \o Batch(k)) /\ (toClient[k] \o Batch(k))[i] = toClient[k][i]
    BY <1>0, <1>2
  <2>2. DOMAIN toClient[k] = 1 .. Len(toClient[k])
    BY <1>0
  <2> QED BY <2>1, <2>2 DEF Frames, Range
<1>4. ASSUME NEW e \in commits, replayed[k] < e.seq PROVE e \in Frames(k)'
  <2> DEFINE j == e.seq - replayed[k]
  <2>1. e.seq \in Nat /\ e.seq < nextSeq
    <3>1. e \in Entries /\ up # "down"
      BY <1>4 DEF IInv, Sourced, Stopped, Ordered
    <3> QED BY <1>0, <1>4, <3>1 DEF IInv, Numbered, Entry
  <2>2. j \in 1 .. nextSeq - 1 - replayed[k]
    BY <1>0, <1>4, <2>1
  <2>3. \A f \in commits : f.seq = e.seq => f = e
    BY <1>4 DEF IInv, Sourced, Numbered
  <2>4. Batch(k)[j] = e
    <3>1. Batch(k)[j] = CHOOSE f \in commits : f.seq = replayed[k] + j
      BY <2>2 DEF Batch
    <3>2. replayed[k] + j = e.seq
      BY <1>0, <2>1
    <3> QED BY <1>4, <2>3, <3>1, <3>2
  <2>5. /\ Len(toClient[k]) + j \in DOMAIN (toClient[k] \o Batch(k))
        /\ (toClient[k] \o Batch(k))[Len(toClient[k]) + j] = Batch(k)[j]
    BY <1>0, <1>1, <1>2, <2>2
  <2> QED BY <2>4, <2>5 DEF Frames, Range
<1> QED BY <1>3, <1>4

\* On the connection a client goes on using, a receipt taken or on its way is not lost,
\* and neither is an entry.
LEMMA ReachedStays ==
    ASSUME TypeOK, IInv, [Next]_vars, NEW k \in Conns, session[k[1]] = k[2],
           session'[k[1]] = k[2], NEW n \in Nat, Reached(k, n)
    PROVE  Reached(k, n)'
<1>0. /\ toClient \in [Conns -> Seq(Frame)] /\ toClient[k] \in Seq(Frame)
      /\ k[1] \in Clients /\ k[1] \in Peers /\ cursor[k[1]] \in Nat
      /\ k = <<k[1], k[2]>> /\ k[2] # 0
      /\ SyncReady \in Frame /\ Receipt(job[k]) \in Frame
      /\ \A t \in Threads : staged[t] \in Frame
  <2>1. /\ k[1] \in Clients /\ k[1] \in Peers /\ k \in Threads /\ k[2] \in 1 .. MaxConn
        /\ k = <<k[1], k[2]>>
    BY Names
  <2>2. toClient \in [Conns -> Seq(Frame)] /\ cursor[k[1]] \in Nat /\ job[k] \in Nat
    BY <2>1 DEF TypeOK
  <2>3. \A t \in Threads : staged[t] \in Frame
    BY DEF TypeOK, Frame
  <2>4. SyncReady \in Frame /\ Receipt(job[k]) \in Frame
    BY <2>2 DEF Frame, Receipt, SyncReady
  <2> QED BY <2>1, <2>2, <2>3, <2>4, BoundAssumption
<1>1. cursor[k[1]] <= cursor'[k[1]] /\ cursor'[k[1]] \in Nat
  BY <1>0, CursorStep
<1>2. CASE n <= cursor[k[1]]
  BY <1>0, <1>1, <1>2 DEF Reached
<1>3. ASSUME NEW f \in Frame, toClient'[k] = Append(toClient[k], f)
      PROVE  Frames(k) \subseteq Frames(k)'
  BY <1>0, <1>3, RangeAppend DEF Frames
<1>4. CASE Receipt(n) \in Frames(k)
  <2>1. CASE toClient[k] # << >> /\ toClient'[k] = Tail(toClient[k])
             /\ (ReceiveOrdered(k[1]) \/ ReceiveSyncReady(k[1]) \/ ReceiveReceipt(k[1]))
    <3>1. CASE Head(toClient[k]) = Receipt(n)
      <4>1. ReceiveReceipt(k[1])
        <5>1. <<k[1], session[k[1]]>> = k /\ Head(toClient[k]).kind = "receipt"
          BY <1>0, <3>1 DEF Receipt
        <5>2. ~ ReceiveOrdered(k[1])
          BY <5>1 DEF ReceiveOrdered, IsOrdered
        <5>3. ~ ReceiveSyncReady(k[1])
          <6>1. SyncReady.kind # "receipt"
            BY DEF SyncReady
          <6> QED BY <5>1, <6>1 DEF ReceiveSyncReady
        <5> QED BY <2>1, <5>2, <5>3
      <4>2. n <= cursor'[k[1]]
        BY <1>0, <3>1, <4>1, CursorStep DEF Receipt
      <4> QED BY <4>2 DEF Reached
    <3>2. CASE Head(toClient[k]) # Receipt(n)
      BY <1>0, <1>4, <2>1, <3>2, TailKeeps DEF Frames, Reached
    <3> QED BY <3>1, <3>2
  <2>2. CASE ReplayBatch(k) /\ toClient'[k] = toClient[k] \o Batch(k)
    BY <1>4, <2>2, ReplayKeeps DEF Reached
  <2>3. ~ ((ClientNoticesClose(k[1]) \/ ClientDrop(k[1])) /\ k[2] = session[k[1]])
    BY <1>0 DEF ClientNoticesClose, ClientDrop, EndSession, TypeOK
  <2>4. CASE toClient'[k] = toClient[k]
    BY <1>4, <2>4 DEF Reached, Frames
  <2> QED BY <1>0, <1>3, <1>4, <2>1, <2>2, <2>3, <2>4, QueueStep DEF Reached
<1> QED BY <1>2, <1>4 DEF Reached

\* Receipts stay in step with the cursor: the next one follows the last one sent.
LEMMA InStepStep ==
    ASSUME TypeOK, IInv, DInv, [Next]_vars, NEW k \in Conns, session[k[1]] = k[2],
           session'[k[1]] = k[2], InStep(k),
           pc[k] = "reply" /\ serve[k] = "ready" => Reached(k, got[k] - 1)
    PROVE  InStep(k)'
<1>0. /\ toClient[k] \in Seq(Frame) /\ k[1] \in Clients /\ k[1] \in Peers
      /\ cursor[k[1]] \in Nat /\ k = <<k[1], k[2]>> /\ k \in Threads
      /\ DOMAIN toClient[k] = 1 .. Len(toClient[k]) /\ Len(toClient[k]) \in Nat
      /\ job[k] \in Nat /\ got[k] \in Nat
  <2>1. k[1] \in Clients /\ k[1] \in Peers /\ k = <<k[1], k[2]>> /\ k \in Threads
    BY Names
  <2>2. toClient[k] \in Seq(Frame)
    BY DEF TypeOK
  <2>3. cursor[k[1]] \in Nat /\ job[k] \in Nat /\ got[k] \in Nat
    BY <2>1 DEF TypeOK
  <2>4. DOMAIN toClient[k] = 1 .. Len(toClient[k]) /\ Len(toClient[k]) \in Nat
    BY <2>2
  <2> QED BY <2>1, <2>2, <2>3, <2>4
<1>1. cursor[k[1]] <= cursor'[k[1]] /\ cursor'[k[1]] \in Nat
  BY <1>0, CursorStep
<1>2. ASSUME NEW i \in DOMAIN toClient[k], toClient[k][i].kind = "receipt"
      PROVE  toClient[k][i].local \in Nat
  <2>1. toClient[k][i] \in Frame
    BY <1>0
  <2> QED BY <1>2, <2>1 DEF Frame, Entry, SyncReady
<1>3. ASSUME NEW i \in DOMAIN toClient[k], toClient[k][i].kind = "receipt"
      PROVE  \/ toClient[k][i].local <= cursor'[k[1]] + 1
             \/ \E j \in 1 .. i - 1 : toClient[k][j] = Receipt(toClient[k][i].local - 1)
  <2>1. CASE toClient[k][i].local <= cursor[k[1]] + 1
    BY <1>0, <1>1, <1>2, <1>3, <2>1
  <2> QED BY <1>3, <2>1 DEF InStep
<1>4. CASE toClient'[k] = toClient[k]
  BY <1>3, <1>4 DEF InStep
<1>5. CASE /\ toClient[k] # << >> /\ toClient'[k] = Tail(toClient[k])
           /\ ReceiveOrdered(k[1]) \/ ReceiveSyncReady(k[1]) \/ ReceiveReceipt(k[1])
  <2>1. /\ DOMAIN toClient'[k] = 1 .. Len(toClient[k]) - 1
        /\ \A i \in DOMAIN toClient'[k] :
             i + 1 \in DOMAIN toClient[k] /\ toClient'[k][i] = toClient[k][i + 1]
    BY <1>0, <1>5
  <2>2. ASSUME NEW n \in Nat, toClient[k][1] = Receipt(n) PROVE n <= cursor'[k[1]]
    <3>1. <<k[1], session[k[1]]>> = k /\ Head(toClient[k]) = Receipt(n)
          /\ Head(toClient[k]).kind = "receipt" /\ Head(toClient[k]).local = n
      BY <1>0, <1>5, <2>2 DEF Receipt
    <3>2. ~ ReceiveOrdered(k[1])
      BY <3>1 DEF ReceiveOrdered, IsOrdered
    <3>3. ~ ReceiveSyncReady(k[1])
      <4>1. SyncReady.kind # "receipt"
        BY DEF SyncReady
      <4> QED BY <3>1, <4>1 DEF ReceiveSyncReady
    <3> QED BY <1>0, <1>5, <3>1, <3>2, <3>3, CursorStep
  <2>3. ASSUME NEW i \in DOMAIN toClient'[k], toClient'[k][i].kind = "receipt"
        PROVE  \/ toClient'[k][i].local <= cursor'[k[1]] + 1
               \/ \E j \in 1 .. i - 1 : toClient'[k][j] = Receipt(toClient'[k][i].local - 1)
    <3>0. PICK n \in Nat : n = toClient[k][i + 1].local
      BY <1>2, <2>1, <2>3
    <3>1. \/ n <= cursor'[k[1]] + 1
          \/ \E j \in 1 .. i : toClient[k][j] = Receipt(n - 1)
      BY <1>0, <1>3, <2>1, <2>3, <3>0
    <3>2. ASSUME NEW j \in 1 .. i, toClient[k][j] = Receipt(n - 1), n > 0
          PROVE  \/ n <= cursor'[k[1]] + 1
                 \/ \E h \in 1 .. i - 1 : toClient'[k][h] = Receipt(n - 1)
      <4>1. CASE j = 1
        BY <1>1, <2>2, <3>2, <4>1
      <4>2. CASE j # 1
        <5>1. j - 1 \in 1 .. i - 1 /\ j - 1 \in DOMAIN toClient'[k] /\ (j - 1) + 1 = j
          BY <1>0, <2>1, <4>2
        <5>2. toClient'[k][j - 1] = toClient[k][j]
          BY <2>1, <5>1
        <5> QED BY <3>2, <5>1, <5>2
      <4> QED BY <4>1, <4>2
    <3>3. n = 0 => n <= cursor'[k[1]] + 1
      BY <1>1
    <3>4. n = 0 \/ n > 0
      OBVIOUS
    <3>5. toClient'[k][i].local = n
      BY <2>1, <3>0
    <3>6. \/ n <= cursor'[k[1]] + 1
          \/ \E h \in 1 .. i - 1 : toClient'[k][h] = Receipt(n - 1)
      BY <3>1, <3>2, <3>3, <3>4
    <3> QED BY <3>5, <3>6
  <2> QED BY <2>3 DEF InStep
<1>6. ASSUME NEW f \in Frame, toClient'[k] = Append(toClient[k], f),
             f.kind = "receipt" => /\ f.local = job[k]
                                   /\ \/ job[k] <= cursor[k[1]] + 1
                                      \/ Receipt(job[k] - 1) \in Frames(k)
      PROVE  InStep(k)'
  <2>1. /\ DOMAIN toClient'[k] = 1 .. Len(toClient[k]) + 1
        /\ toClient'[k][Len(toClient[k]) + 1] = f
        /\ \A i \in 1 .. Len(toClient[k]) : toClient'[k][i] = toClient[k][i]
    BY <1>0, <1>6
  <2>2. ASSUME NEW i \in DOMAIN toClient[k], toClient[k][i].kind = "receipt"
        PROVE  \/ toClient'[k][i].local <= cursor'[k[1]] + 1
               \/ \E j \in 1 .. i - 1 : toClient'[k][j] = Receipt(toClient'[k][i].local - 1)
    <3>1. toClient'[k][i] = toClient[k][i] /\ \A j \in 1 .. i - 1 : toClient'[k][j] = toClient[k][j]
      BY <1>0, <2>1
    <3> QED BY <1>3, <2>2, <3>1
  <2>3. ASSUME f.kind = "receipt"
        PROVE  \/ f.local <= cursor'[k[1]] + 1
               \/ \E j \in 1 .. Len(toClient[k]) : toClient'[k][j] = Receipt(f.local - 1)
    <3>1. CASE job[k] <= cursor[k[1]] + 1
      BY <1>0, <1>1, <1>6, <2>3, <3>1
    <3>2. CASE Receipt(job[k] - 1) \in Frames(k)
      BY <1>0, <1>6, <2>1, <2>3, <3>2 DEF Frames, Range
    <3> QED BY <1>6, <2>3, <3>1, <3>2
  <2>4. \A i \in DOMAIN toClient'[k] :
            i \in DOMAIN toClient[k] \/ (i = Len(toClient[k]) + 1 /\ i - 1 = Len(toClient[k]))
    BY <1>0, <2>1
  <2> QED
    <3> SUFFICES ASSUME NEW i \in DOMAIN toClient'[k], toClient'[k][i].kind = "receipt"
        PROVE  \/ toClient'[k][i].local <= cursor'[k[1]] + 1
               \/ \E j \in 1 .. i - 1 : toClient'[k][j] = Receipt(toClient'[k][i].local - 1)
      BY DEF InStep
    <3>1. CASE i \in DOMAIN toClient[k]
      BY <1>0, <2>1, <2>2, <3>1
    <3>2. CASE i = Len(toClient[k]) + 1 /\ i - 1 = Len(toClient[k])
      BY <2>1, <2>3, <3>2
    <3> QED BY <2>4, <3>1, <3>2
<1>7. CASE ReplayBatch(k) /\ toClient'[k] = toClient[k] \o Batch(k)
  <2>1. /\ replayed[k] \in Nat /\ nextSeq \in Nat /\ nextSeq - 1 - replayed[k] \in Nat
        /\ commits \subseteq Entry
    BY <1>7 DEF TypeOK, ReplayBatch
  <2>2. Batch(k) \in Seq(commits)
    BY <1>7, <2>1, BatchTyped DEF ReplayBatch
  <2>3. \A j \in 1 .. Len(Batch(k)) : Batch(k)[j].kind # "receipt"
    <3>1. \A j \in 1 .. Len(Batch(k)) : Batch(k)[j] \in commits
      BY <2>2
    <3>2. \A e \in commits : e.kind # "receipt"
      BY <2>1 DEF Entry
    <3> QED BY <3>1, <3>2
  <2>4. /\ DOMAIN toClient'[k] = 1 .. Len(toClient[k]) + Len(Batch(k)) /\ Len(Batch(k)) \in Nat
        /\ \A i \in 1 .. Len(toClient[k]) : toClient'[k][i] = toClient[k][i]
        /\ \A i \in Len(toClient[k]) + 1 .. Len(toClient[k]) + Len(Batch(k)) :
             toClient'[k][i] = Batch(k)[i - Len(toClient[k])]
    BY <1>0, <1>7, <2>2
  <2> SUFFICES ASSUME NEW i \in DOMAIN toClient'[k], toClient'[k][i].kind = "receipt"
      PROVE  \/ toClient'[k][i].local <= cursor'[k[1]] + 1
             \/ \E j \in 1 .. i - 1 : toClient'[k][j] = Receipt(toClient'[k][i].local - 1)
    BY DEF InStep
  <2>5. i \in DOMAIN toClient[k]
    <3>1. CASE i > Len(toClient[k])
      <4>1. /\ i - Len(toClient[k]) \in 1 .. Len(Batch(k))
            /\ toClient'[k][i] = Batch(k)[i - Len(toClient[k])]
        <5>1. Len(toClient[k]) \in Nat /\ i \in 1 .. Len(toClient[k]) + Len(Batch(k))
          BY <1>0, <2>4
        <5>2. i \in Len(toClient[k]) + 1 .. Len(toClient[k]) + Len(Batch(k))
          BY <2>4, <3>1, <5>1
        <5>3. toClient'[k][i] = Batch(k)[i - Len(toClient[k])]
          BY <2>4, <5>2
        <5>4. i - Len(toClient[k]) \in 1 .. Len(Batch(k))
          BY <2>4, <5>1, <5>2
        <5> QED BY <5>3, <5>4
      <4> QED BY <2>3, <4>1
    <3> QED BY <1>0, <2>4, <3>1
  <2>6. toClient'[k][i] = toClient[k][i] /\ \A j \in 1 .. i - 1 : toClient'[k][j] = toClient[k][j]
    BY <1>0, <2>4, <2>5
  <2> QED BY <1>3, <2>5, <2>6
<1>8. CASE Register(k) /\ toClient'[k] = Append(toClient[k], SyncReady)
  <2>1. SyncReady \in Frame /\ SyncReady.kind # "receipt"
    BY DEF SyncReady, Frame
  <2> QED BY <1>6, <1>8, <2>1
<1>9. CASE /\ ReplyToClient(k) /\ serve[k] = "ready"
           /\ toClient'[k] = Append(toClient[k], Receipt(job[k]))
  <2>1. Receipt(job[k]) \in Frame /\ Receipt(job[k]).local = job[k]
    BY <1>0 DEF Receipt, Frame
  <2>2. pc[k] = "reply" /\ job[k] = got[k]
    BY <1>9 DEF ReplyToClient, DInv, OnTheJob
  <2>3. Reached(k, got[k] - 1)
    BY <1>9, <2>2
  <2>4. job[k] <= cursor[k[1]] + 1 \/ Receipt(job[k] - 1) \in Frames(k)
    BY <1>0, <2>2, <2>3 DEF Reached
  <2> QED BY <1>6, <1>9, <2>1, <2>4
<1>10. ASSUME NEW t \in Threads, toClient'[k] = Append(toClient[k], staged[t])
       PROVE  InStep(k)'
  <2>1. staged[t] \in Frame /\ staged[t].kind # "receipt"
    BY DEF TypeOK, Frame, Entry
  <2> QED BY <1>6, <1>10, <2>1
<1>11. ~ ((ClientNoticesClose(k[1]) \/ ClientDrop(k[1])) /\ k[2] = session[k[1]])
  <2>1. k[2] # 0
    BY Names, BoundAssumption
  <2>2. session \in [Clients -> 0 .. MaxConn]
    BY DEF TypeOK
  <2> QED BY <1>0, <2>1, <2>2 DEF ClientNoticesClose, ClientDrop, EndSession
<1> QED BY <1>4, <1>5, <1>7, <1>8, <1>9, <1>10, <1>11, QueueStep

\* A step on the connection a client is using keeps its receipts consecutive.
LEMMA ConsecutiveStep ==
    ASSUME TypeOK, IInv, DInv, Consecutive, [Next]_vars PROVE Consecutive'
<1> SUFFICES ASSUME NEW k \in Conns, session'[k[1]] = k[2]
             PROVE  /\ InStep(k)'
                    /\ Live(k)' => IF pc'[k] = "idle" THEN Reached(k, got[k])'
                                   ELSE Reached(k, got[k] - 1)'
  BY DEF Consecutive
<1>0. /\ toClient[k] \in Seq(Frame) /\ k[1] \in Clients /\ k[1] \in Peers
      /\ cursor[k[1]] \in Nat /\ k = <<k[1], k[2]>> /\ k \in Threads
      /\ job[k] \in Nat /\ got \in [Conns -> Nat] /\ used[k[1]] \in Nat /\ k[2] # 0
      /\ Origin(k) = k[1]
  <2>1. k[1] \in Clients /\ k[1] \in Peers /\ k = <<k[1], k[2]>> /\ k \in Threads
        /\ k[2] \in 1 .. MaxConn /\ MaxConn \in Nat
    BY Names, BoundAssumption
  <2>2. used[k[1]] \in 0 .. MaxConn
    BY <2>1 DEF TypeOK
  <2>3. toClient[k] \in Seq(Frame) /\ cursor[k[1]] \in Nat
    BY <2>1 DEF TypeOK
  <2>4. job[k] \in Nat /\ got \in [Conns -> Nat]
    BY <2>1 DEF TypeOK
  <2>5. used[k[1]] \in Nat /\ k[2] # 0
    BY <2>1, <2>2
  <2>6. Origin(k) = k[1]
    BY DEF Origin
  <2> QED BY <2>1, <2>3, <2>4, <2>5, <2>6
<1>1. CASE Connect(k[1])
  <2>1. /\ k[2] = used[k[1]] + 1 /\ toClient' = toClient
        /\ got' = [got EXCEPT ![k] = cursor[k[1]]]
        /\ pc' = pc /\ cursor' = cursor
    <3>1. session' = [session EXCEPT ![k[1]] = used[k[1]] + 1]
      BY <1>1 DEF Connect
    <3>2. k[2] = used[k[1]] + 1
      BY <1>0, <3>1 DEF TypeOK
    <3> QED BY <1>0, <1>1, <3>2 DEF Connect, threads, durable
  <2>2. toClient[k] = << >> /\ pc[k] = "idle"
    BY <1>0, <2>1 DEF DInv, Linked
  <2>3. InStep(k)'
    BY <2>1, <2>2 DEF InStep
  <2>4. Reached(k, got[k])'
    BY <1>0, <2>1 DEF Reached
  <2> QED BY <2>1, <2>2, <2>3, <2>4
<1>2. CASE ~ Connect(k[1])
  <2>1. session[k[1]] = k[2]
    BY <1>0, <1>2, SessionStep
  <2>2. /\ InStep(k)
        /\ Live(k) => IF pc[k] = "idle" THEN Reached(k, got[k]) ELSE Reached(k, got[k] - 1)
    BY <2>1 DEF Consecutive
  <2>3. InStep(k)'
    BY <2>1, <2>2, InStepStep DEF Live
  <2>4. ASSUME Live(k)'
        PROVE  IF pc'[k] = "idle" THEN Reached(k, got[k])' ELSE Reached(k, got[k] - 1)'
    <3>1. PICK n \in Nat : n = got[k]
      BY <1>0
    <3>2. PICK m \in Nat : m = IF pc[k] = "idle" THEN n ELSE n - 1
      <4>1. pc[k] # "idle" => n > 0
        BY <3>1 DEF DInv, OnTheJob
      <4> QED BY <4>1
    <3>3. Live(k) => Reached(k, m)'
      BY <2>1, <2>2, <3>1, <3>2, ReachedStays DEF Reached
    <3>4. ~ HostCrash /\ ~ EnterAuditFault(k)
      BY <2>4 DEF HostCrash, EnterAuditFault, Live, TypeOK
    <3>5. CASE Read(k)
      <4>1. Live(k) /\ pc[k] = "idle" /\ got'[k] = n + 1
        BY <1>0, <3>1, <3>5 DEF Read, Live
      <4>2. pc'[k] # "idle"
        <5>1. /\ outbox[k[1]] \in Seq(Kinds) /\ sent[k] \in Nat /\ sent[k] <= Len(outbox[k[1]])
              /\ pc \in PcValues
          BY <1>0 DEF TypeOK, IInv, Bounded, PcValues
        <5>2. pc'[k] = outbox[k[1]][n + 1] /\ n < sent[k]
          BY <1>0, <3>1, <3>5, <5>1 DEF Read, PcValues
        <5>3. n + 1 \in 1 .. Len(outbox[k[1]])
          BY <5>1, <5>2
        <5> QED BY <5>1, <5>2, <5>3 DEF Kinds
      <4>3. Reached(k, n)' => Reached(k, got[k] - 1)'
        BY <4>1 DEF Reached
      <4> QED BY <3>2, <3>3, <4>1, <4>2, <4>3
    <3>6. CASE ~ Read(k)
      <4>1. got'[k] = n /\ Live(k)
        <5>1. peers[k[1]] = k[2] => serve[k] = "ready"
          BY <1>0 DEF DInv, Linked
        <5> QED BY <1>2, <2>4, <3>1, <3>4, <3>6, <5>1, LinkStep DEF Live, ReplayBatch, Register
      <4>2. CASE pc'[k] = pc[k]
        BY <3>2, <3>3, <4>1, <4>2 DEF Reached
      <4>3. CASE ReplyToClient(k)
        <5>1. /\ pc[k] = "reply" /\ pc'[k] = "idle" /\ job[k] = n
          BY <1>0, <3>1, <4>3 DEF ReplyToClient, DInv, OnTheJob, TypeOK
        <5>2. serve[k] = "ready"
          BY <1>0, <2>4, <4>3 DEF ReplyToClient, Live, TypeOK
        <5>3. toClient'[k] = Append(toClient[k], Receipt(n))
          BY <1>0, <2>1, <4>3, <5>1, <5>2 DEF ReplyToClient, Send, TypeOK
        <5>4. Receipt(n) \in Frame
          BY DEF Receipt, Frame
        <5>5. Receipt(n) \in Frames(k)'
          BY <1>0, <5>3, <5>4, RangeAppend DEF Frames
        <5> QED BY <4>1, <5>1, <5>5 DEF Reached
      <4>4. CASE Order(k) \/ AppendFails(k)
        <5>1. pc[k] # "idle" /\ pc'[k] # "idle"
          BY <1>0, <4>4, OrderStage
        <5> QED BY <3>2, <3>3, <4>1, <5>1 DEF Reached
      <4>5. k # Main
        BY Names, HostAssumption DEF Main
      <4> QED BY <1>0, <3>4, <3>6, <4>2, <4>3, <4>4, <4>5, ThreadStep
    <3> QED BY <3>5, <3>6
  <2> QED BY <2>3, <2>4
<1> QED BY <1>1, <1>2


----------------------------------------------------------------------------
\* What a game's directory holds stays there.
LEMMA InboxKept ==
    ASSUME TypeOK, [Next]_vars, NEW p \in Peers
    PROVE  inbox[p] \subseteq inbox'[p]
<1>0. inbox \in [Peers -> SUBSET Entry] /\ Host \in Peers /\ Clients \subseteq Peers
  BY Names DEF TypeOK
<1>1. ASSUME NEW c \in Clients, ReceiveOrdered(c) PROVE inbox[p] \subseteq inbox'[p]
  BY <1>0, <1>1 DEF ReceiveOrdered
<1>2. ASSUME NEW t \in Threads, ApplyCommit(t) \/ ApplyRejection(t)
      PROVE  inbox[p] \subseteq inbox'[p]
  BY <1>0, <1>2 DEF ApplyCommit, ApplyRejection
<1>3. CASE Game \/ MainStep \/ HostCrash \/ HostRestart \/ UNCHANGED vars
  BY <1>3 DEF Game, Emit, MainStep, MainRead, MainAcknowledge, Fence, HostCrash,
     HostRestart, vars, durable
<1>4. ASSUME NEW c \in Clients, ClientStep(c) \/ ClientDrop(c), ~ ReceiveOrdered(c)
      PROVE  inbox' = inbox
  BY <1>4 DEF ClientStep, Connect, ReceiveSyncReady, ReceiveReceipt, ClientSend,
     ClientNoticesClose, ClientDrop, EndSession, durable
<1>5. ASSUME NEW k \in Conns, ConnStep(k) \/ Hangup(k) \/ EnterAuditFault(k)
      PROVE  inbox' = inbox
  BY <1>5 DEF ConnStep, ReplayBatch, ReplayMissing, Register, Read, ReplyToClient, Hangup,
     EnterAuditFault, durable
<1>6. ASSUME NEW t \in Threads, Order(t) \/ AppendFails(t),
             ~ (ApplyCommit(t) \/ ApplyRejection(t))
      PROVE  inbox' = inbox
  BY <1>6 DEF Order, AppendFails, Deduplicate, Refuse, JournalCommit, BroadcastCommit,
     RejectionExists, JournalRejection, JournalEvent, RefuseEvent, durable
<1> QED BY <1>1, <1>2, <1>3, <1>4, <1>5, <1>6 DEF Next

\* An entry the client of a connection holds, or is being sent, is not lost while the
\* connection lasts.
LEMMA DeliveredStays ==
    ASSUME TypeOK, IInv, [Next]_vars, NEW k \in Conns, session[k[1]] = k[2],
           session'[k[1]] = k[2], NEW e \in Entry, IsOrdered(e), Delivered(k, e)
    PROVE  Delivered(k, e)'
<1>0. /\ toClient[k] \in Seq(Frame) /\ k[1] \in Clients /\ k[1] \in Peers /\ k \in Threads
      /\ k = <<k[1], k[2]>> /\ k[2] # 0 /\ job[k] \in Nat
      /\ inbox \in [Peers -> SUBSET Entry] /\ session \in [Clients -> 0 .. MaxConn]
  <2>1. k[1] \in Clients /\ k[1] \in Peers /\ k \in Threads /\ k = <<k[1], k[2]>>
    BY Names
  <2>2. k[2] # 0
    BY Names, BoundAssumption
  <2> QED BY <2>1, <2>2 DEF TypeOK
<1>1. SyncReady \in Frame /\ Receipt(job[k]) \in Frame /\ \A t \in Threads : staged[t] \in Frame
  BY <1>0 DEF TypeOK, Frame, Receipt, SyncReady
<1>2. CASE e \in inbox[k[1]]
  BY <1>0, <1>2, InboxKept DEF Delivered
<1>3. ASSUME NEW f \in Frame, toClient'[k] = Append(toClient[k], f)
      PROVE  Frames(k) \subseteq Frames(k)'
  BY <1>0, <1>3, RangeAppend DEF Frames
<1>4. CASE e \in Frames(k)
  <2>1. CASE toClient[k] # << >> /\ toClient'[k] = Tail(toClient[k])
             /\ (ReceiveOrdered(k[1]) \/ ReceiveSyncReady(k[1]) \/ ReceiveReceipt(k[1]))
    <3>1. CASE Head(toClient[k]) = e
      <4>1. ReceiveOrdered(k[1])
        <5>1. <<k[1], session[k[1]]>> = k
          BY <1>0
        <5>2. ~ ReceiveReceipt(k[1])
          BY <3>1, <5>1 DEF ReceiveReceipt, IsOrdered
        <5>3. ~ ReceiveSyncReady(k[1])
          BY <3>1, <5>1 DEF ReceiveSyncReady, IsOrdered, SyncReady
        <5> QED BY <2>1, <5>2, <5>3
      <4>2. inbox' = [inbox EXCEPT ![k[1]] = @ \union {Head(toClient[k])}]
        BY <1>0, <4>1 DEF ReceiveOrdered
      <4> QED BY <1>0, <3>1, <4>2 DEF Delivered
    <3>2. CASE Head(toClient[k]) # e
      BY <1>0, <1>4, <2>1, <3>2, TailKeeps DEF Frames, Delivered
    <3> QED BY <3>1, <3>2
  <2>2. CASE ReplayBatch(k) /\ toClient'[k] = toClient[k] \o Batch(k)
    BY <1>4, <2>2, ReplayKeeps DEF Delivered
  <2>3. ~ ((ClientNoticesClose(k[1]) \/ ClientDrop(k[1])) /\ k[2] = session[k[1]])
    BY <1>0 DEF ClientNoticesClose, ClientDrop, EndSession
  <2>4. CASE toClient'[k] = toClient[k]
    BY <1>4, <2>4 DEF Delivered, Frames
  <2> QED BY <1>1, <1>3, <1>4, <2>1, <2>2, <2>3, <2>4, QueueStep DEF Delivered
<1> QED BY <1>2, <1>4 DEF Delivered

\* What a running host remembers grows by the entry a thread applies.
LEMMA CommitsStep ==
    ASSUME TypeOK, IInv, [Next]_vars, ~ HostCrash, ~ HostRestart
    PROVE  \/ commits' = commits
           \/ \E t \in Threads : /\ ApplyCommit(t) \/ ApplyRejection(t)
                                 /\ commits' = commits \union {staged[t]}
<1>1. ASSUME NEW t \in Threads, Ordering(t), ~ (ApplyCommit(t) \/ ApplyRejection(t))
      PROVE  commits' = commits
  BY <1>1 DEF Ordering, JournalCommit, BroadcastCommit, JournalRejection, JournalEvent,
     AppendFails, hostVol
<1>2. ASSUME NEW t \in Threads, ApplyCommit(t) \/ ApplyRejection(t)
      PROVE  commits' = commits \union {staged[t]}
  BY <1>2 DEF ApplyCommit, ApplyRejection
<1> QED BY <1>1, <1>2, Footprint DEF IInv, Quiet, Fence

\* The number counter of a running host only moves forward.
LEMMA SeqStep ==
    ASSUME TypeOK, IInv, [Next]_vars, ~ HostCrash, ~ HostRestart
    PROVE  nextSeq \in Nat /\ nextSeq' \in Nat /\ nextSeq <= nextSeq'
<1>0. nextSeq \in Nat
  BY DEF TypeOK
<1>1. ASSUME NEW t \in Threads, Ordering(t) PROVE nextSeq' \in {nextSeq, nextSeq + 1}
  BY <1>1 DEF Ordering, JournalCommit, ApplyCommit, BroadcastCommit, JournalRejection,
     ApplyRejection, JournalEvent, AppendFails, hostVol
<1>2. nextSeq' \in {nextSeq, nextSeq + 1}
  BY <1>1, Footprint DEF IInv, Quiet, Fence
<1> QED BY <1>0, <1>2

\* A thread that is ordering an entry goes on with it, or has just given it the next
\* number.
LEMMA NumberTaken ==
    ASSUME TypeOK, IInv, [Next]_vars, NEW t \in Threads,
           pc'[t] \in {"committing", "rejecting"}
    PROVE  \/ pc[t] \in {"committing", "rejecting"} /\ staged'[t] = staged[t]
           \/ staged'[t].seq = nextSeq
<1>0. staged \in [Threads -> Entry] /\ pc \in PcValues /\ Main \in Threads
  BY Names DEF TypeOK, PcValues
<1>1. CASE Order(t) \/ AppendFails(t)
  <2>1. JournalCommit(t) \/ JournalRejection(t)
    BY <1>1, OrderStage
  <2> QED BY <1>0, <2>1 DEF JournalCommit, JournalRejection, Commit, Rejection
<1>2. ~ (t \in Conns /\ Read(t)) /\ ~ (t = Main /\ MainRead)
  <2>1. ASSUME t \in Conns, Read(t) PROVE FALSE
    <3>1. /\ t[1] \in Peers /\ outbox[t[1]] \in Seq(Kinds) /\ got[t] \in Nat
          /\ sent[t] \in Nat /\ sent[t] <= Len(outbox[t[1]])
      BY <2>1, ConnFacts DEF TypeOK, IInv, Bounded
    <3>2. got[t] + 1 \in 1 .. Len(outbox[t[1]])
      BY <2>1, <3>1 DEF Read
    <3>3. pc'[t] = outbox[t[1]][got[t] + 1]
      BY <1>0, <2>1 DEF Read, PcValues
    <3> QED BY <3>1, <3>2, <3>3 DEF Kinds
  <2>2. ASSUME t = Main, MainRead PROVE FALSE
    <3>1. outbox[Host] \in Seq(Kinds) /\ cursor[Host] \in Nat
      BY Names DEF TypeOK
    <3>2. cursor[Host] + 1 \in 1 .. Len(outbox[Host])
      BY <2>2, <3>1 DEF MainRead
    <3>3. pc'[t] = outbox[Host][cursor[Host] + 1]
      BY <1>0, <2>2 DEF MainRead, PcValues
    <3> QED BY <3>1, <3>2, <3>3 DEF Kinds
  <2> QED BY <2>1, <2>2
<1> QED BY <1>1, <1>2, ThreadStep

\* A step keeps what a connection that catches up holds.
LEMMA CaughtUpStep ==
    ASSUME TypeOK, IInv, CaughtUp, [Next]_vars PROVE CaughtUp'
<1> SUFFICES ASSUME NEW k \in Conns, serve'[k] = "syncing"
             PROVE  /\ replayed'[k] < nextSeq'
                    /\ \A t \in Threads : pc'[t] \in {"committing", "rejecting"} =>
                           staged'[t].seq > replayed'[k]
                    /\ session'[k[1]] = k[2] =>
                           \A e \in commits' : e.seq <= replayed'[k] => Delivered(k, e)'
  BY DEF CaughtUp
<1>0. /\ serve \in [Conns -> {"none", "syncing", "ready", "shut", "gone"}]
      /\ replayed \in [Conns -> Nat] /\ nextSeq \in Nat /\ commits \subseteq Entry
      /\ k[1] \in Clients /\ k[1] \in Peers /\ k = <<k[1], k[2]>> /\ k[2] # 0
      /\ session \in [Clients -> 0 .. MaxConn] /\ used[k[1]] \in Nat
      /\ staged \in [Threads -> Entry]
  <2>1. k[1] \in Clients /\ k[1] \in Peers /\ k = <<k[1], k[2]>>
    BY Names
  <2>2. k[2] # 0 /\ MaxConn \in Nat
    BY Names, BoundAssumption
  <2>3. used[k[1]] \in 0 .. MaxConn
    BY <2>1 DEF TypeOK
  <2>4. used[k[1]] \in Nat
    BY <2>2, <2>3
  <2> QED BY <2>1, <2>2, <2>4 DEF TypeOK
<1>1. ~ HostCrash /\ ~ HostRestart
  <2>1. HostCrash => serve'[k] # "syncing"
    BY DEF HostCrash
  <2>2. HostRestart => serve'[k] # "syncing"
    BY DEF HostRestart, conns, IInv, Stopped
  <2> QED BY <2>1, <2>2
<1>2. CASE Connect(k[1]) /\ k[2] = used[k[1]] + 1
  <2>1. PICK last \in 0 .. nextSeq - 1 :
          /\ LastContiguous(inbox[k[1]], last) /\ replayed'[k] = last
          /\ up = "up" /\ LockFree
          /\ UNCHANGED <<nextSeq, commits, pc, staged, inbox>>
    BY <1>0, <1>2 DEF Connect, durable, threads
  <2>2. ASSUME NEW e \in commits, e.seq <= last PROVE Delivered(k, e)'
    <3>1. e \in Ordered(Entries) /\ e.seq > 0 /\ e.seq \in Nat
      BY <1>0, <2>2 DEF IInv, Sourced, Numbered, Entry
    <3>2. PICK f \in inbox[k[1]] : f.seq = e.seq
      BY <2>1, <2>2, <3>1 DEF LastContiguous, Seqs
    <3>3. f = e
      BY <1>0, <3>1, <3>2 DEF IInv, Sourced, Numbered
    <3> QED BY <2>1, <3>2, <3>3 DEF Delivered
  <2> QED BY <1>0, <2>1, <2>2 DEF LockFree
<1>3. CASE ReplayBatch(k)
  <2>1. /\ serve[k] = "syncing" /\ replayed'[k] = nextSeq - 1 /\ LockFree
        /\ session' = session /\ UNCHANGED <<nextSeq, commits, pc, staged, inbox>>
    BY <1>0, <1>3 DEF ReplayBatch, durable, hostVol, threads
  <2>2. ASSUME session[k[1]] = k[2], NEW e \in commits PROVE Delivered(k, e)'
    <3>1. toClient'[k] = toClient[k] \o Batch(k)
      BY <1>3, <2>2 DEF ReplayBatch, TypeOK
    <3>2. CASE e.seq <= replayed[k]
      BY <1>3, <2>1, <2>2, <3>1, <3>2, ReplayKeeps DEF CaughtUp, Delivered
    <3>3. CASE replayed[k] < e.seq
      BY <1>3, <2>2, <3>1, <3>3, ReplayKeeps DEF Delivered
    <3>4. e.seq \in Nat /\ replayed[k] \in Nat
      BY <1>0 DEF Entry
    <3> QED BY <3>2, <3>3, <3>4
  <2> QED BY <1>0, <2>1, <2>2 DEF LockFree
<1>4. CASE ~ (Connect(k[1]) /\ k[2] = used[k[1]] + 1) /\ ~ ReplayBatch(k)
  <2>1. serve[k] = "syncing" /\ replayed'[k] = replayed[k]
    <3>1. ~ Register(k)
      BY <1>0 DEF Register
    <3> QED BY <1>0, <1>1, <1>4, <3>1, LinkStep
  <2>2. /\ replayed[k] < nextSeq /\ nextSeq <= nextSeq' /\ nextSeq' \in Nat
        /\ \A t \in Threads :
               pc[t] \in {"committing", "rejecting"} => staged[t].seq > replayed[k]
        /\ session[k[1]] = k[2] => \A e \in commits : e.seq <= replayed[k] => Delivered(k, e)
    BY <1>1, <2>1, SeqStep DEF CaughtUp
  <2>3. replayed'[k] < nextSeq'
    BY <1>0, <2>1, <2>2
  <2>4. ASSUME NEW t \in Threads, pc'[t] \in {"committing", "rejecting"}
        PROVE  staged'[t].seq > replayed'[k]
    BY <1>0, <2>1, <2>2, <2>4, NumberTaken
  <2>5. ASSUME session'[k[1]] = k[2], NEW e \in commits', e.seq <= replayed[k]
        PROVE  Delivered(k, e)'
    <3>1. session[k[1]] = k[2]
      <4>1. Connect(k[1]) => session'[k[1]] = used[k[1]] + 1
        BY <1>0 DEF Connect
      <4> QED BY <1>0, <1>4, <2>5, <4>1, SessionStep
    <3>2. e \in commits
      <4>1. ASSUME NEW t \in Threads, ApplyCommit(t) \/ ApplyRejection(t), e = staged[t]
            PROVE  FALSE
        <5>1. pc[t] \in {"committing", "rejecting"}
          BY <4>1 DEF ApplyCommit, ApplyRejection
        <5>2. staged[t].seq > replayed[k] /\ staged[t].seq \in Nat
          BY <1>0, <2>2, <5>1 DEF Entry
        <5> QED BY <1>0, <2>5, <4>1, <5>2
      <4> QED BY <1>1, <2>5, <4>1, CommitsStep
    <3>3. e \in Entry /\ IsOrdered(e)
      BY <1>0, <3>2 DEF IInv, Sourced, Ordered
    <3> QED BY <2>2, <2>5, <3>1, <3>2, <3>3, DeliveredStays
  <2> QED BY <2>1, <2>3, <2>4, <2>5
<1> QED BY <1>2, <1>3, <1>4

\* A registration is the only way into host.peers.
LEMMA PlaceStep ==
    ASSUME TypeOK, [Next]_vars, NEW c \in Clients, peers'[c] # 0, peers'[c] # peers[c]
    PROVE  <<c, peers'[c]>> \in Conns /\ Register(<<c, peers'[c]>>)
<1>0. peers \in [Clients -> 0 .. MaxConn]
  BY DEF TypeOK
<1>1. CASE Game \/ MainStep \/ HostCrash \/ HostRestart \/ UNCHANGED vars
  BY <1>0, <1>1 DEF Game, Emit, MainStep, MainRead, MainAcknowledge, Fence, HostCrash,
     HostRestart, vars, hostVol
<1>2. ASSUME NEW d \in Clients, ClientStep(d) \/ ClientDrop(d) PROVE FALSE
  <2>1. CASE Connect(d)
    BY <1>0, <2>1 DEF Connect
  <2>2. CASE ~ Connect(d)
    BY <1>2, <2>2 DEF ClientStep, ReceiveOrdered, ReceiveSyncReady, ReceiveReceipt,
       ClientSend, ClientNoticesClose, ClientDrop, EndSession, hostVol
  <2> QED BY <2>1, <2>2
<1>3. ASSUME NEW k \in Conns, ReplayBatch(k) \/ ReplayMissing(k) \/ Read(k) \/ ReplyToClient(k)
      PROVE  FALSE
  BY <1>3 DEF ReplayBatch, ReplayMissing, Read, ReplyToClient, hostVol
<1>4. ASSUME NEW k \in Conns, Hangup(k) \/ EnterAuditFault(k) PROVE FALSE
  BY <1>0, <1>4 DEF Hangup, EnterAuditFault, Without
<1>5. ASSUME NEW k \in Conns, Register(k) PROVE k = <<c, peers'[c]>>
  <2>1. k[1] \in Clients /\ k = <<k[1], k[2]>> /\ peers' = [peers EXCEPT ![k[1]] = k[2]]
    BY <1>5, Names DEF Register
  <2>2. k[1] = c /\ peers'[c] = k[2]
    BY <1>0, <2>1
  <2> QED BY <2>1, <2>2
<1>6. ASSUME NEW t \in Threads, Order(t) \/ AppendFails(t) PROVE FALSE
  BY <1>6, OrderStage
<1> QED BY <1>1, <1>2, <1>3, <1>4, <1>5, <1>6 DEF Next, ConnStep

\* A commit that is applied is broadcast, unless the host stops first.
LEMMA BroadcastStays ==
    ASSUME TypeOK, IInv, [Next]_vars, NEW t \in Threads, pc[t] = "broadcast", ~ HostCrash
    PROVE  \/ pc'[t] = "broadcast" /\ staged'[t] = staged[t]
           \/ BroadcastCommit(t)
<1>1. CASE Order(t) \/ AppendFails(t)
  BY <1>1 DEF Order, AppendFails, Deduplicate, Refuse, JournalCommit, ApplyCommit,
     RejectionExists, JournalRejection, ApplyRejection, JournalEvent, RefuseEvent
<1>2. CASE t \in Conns /\ (ReplyToClient(t) \/ EnterAuditFault(t) \/ Read(t))
  BY <1>2 DEF ReplyToClient, EnterAuditFault, Read
<1>3. CASE t = Main /\ (MainAcknowledge \/ Fence \/ MainRead)
  BY <1>3 DEF MainAcknowledge, Fence, MainRead
<1> QED BY <1>1, <1>2, <1>3, ThreadStep

\* No step leaves a registered connection without an entry, or the thread that will
\* broadcast it.
LEMMA NothingMissedStep ==
    ASSUME TypeOK, TypeOK', IInv, DInv, CaughtUp, NothingMissed, [Next]_vars
    PROVE  NothingMissed'
<1> SUFFICES ASSUME NEW c \in Clients, session'[c] # 0, peers'[c] = session'[c],
                    NEW e \in commits'
             PROVE  \/ e \in inbox'[c]
                    \/ e \in Range(toClient'[<<c, session'[c]>>])
                    \/ \E t \in Threads : pc'[t] = "broadcast" /\ staged'[t] = e
  BY DEF NothingMissed, Frames
<1> DEFINE k == <<c, session'[c]>>
<1>0. k \in Conns /\ k[1] = c /\ k[2] = session'[c] /\ c \in Peers
  <2>1. session'[c] \in 0 .. MaxConn /\ MaxConn \in Nat
    BY BoundAssumption DEF TypeOK
  <2>2. session'[c] \in 1 .. MaxConn
    BY <2>1
  <2> QED BY <2>2, Names
<1>1. session[c] = session'[c]
  <2>1. Connect(c) => peers'[c] = 0
    BY DEF Connect, TypeOK
  <2> QED BY <2>1, SessionStep
<1>2. ~ HostCrash
  BY DEF HostCrash
<1>3. ASSUME Delivered(k, e), e \in commits
      PROVE  e \in inbox'[c] \/ e \in Range(toClient'[k])
  <2>1. e \in Entry /\ IsOrdered(e)
    BY <1>3 DEF IInv, Sourced, Ordered, TypeOK
  <2>2. e \in inbox'[k[1]] \/ e \in Range(toClient'[k])
    <3>1. PICK j \in Conns : j = k
      BY <1>0
    <3>2. Delivered(j, e)'
      BY <1>0, <1>1, <1>3, <2>1, <3>1, DeliveredStays
    <3> QED BY <3>1, <3>2 DEF Delivered, Frames
  <2> QED BY <1>0, <2>2
<1>4. CASE Register(k)
  <2>1. /\ serve[k] = "syncing" /\ replayed[k] = nextSeq - 1 /\ commits' = commits
    BY <1>4 DEF Register
  <2>2. up # "down"
    BY <1>0, <2>1 DEF IInv, Stopped
  <2>3. e \in Entries /\ e \in Entry /\ e.seq \in Nat /\ nextSeq \in Nat
    <3>1. e \in Entry
      BY <2>1 DEF TypeOK
    <3>2. e.seq \in Nat
      BY <3>1 DEF Entry
    <3> QED BY <2>1, <3>1, <3>2 DEF IInv, Sourced, Ordered, TypeOK
  <2>4. e.seq <= replayed[k]
    BY <2>1, <2>2, <2>3 DEF IInv, Numbered
  <2>5. Delivered(k, e)
    BY <1>0, <1>1, <2>1, <2>4 DEF CaughtUp
  <2> QED BY <1>3, <2>1, <2>5
<1>5. CASE ~ Register(k)
  <2>1. peers[c] = session[c] /\ session[c] # 0
    BY <1>1, <1>5, PlaceStep
  <2>2. ~ HostRestart
    BY <2>1 DEF HostRestart, DInv, Linked
  <2>3. ASSUME NEW t \in Threads, toClient' = Broadcast(staged[t]), staged[t] = e
        PROVE  e \in Range(toClient'[k])
    <3>1. toClient[k] \in Seq(Frame) /\ e \in Frame
      BY <1>0, <2>3 DEF TypeOK, Frame
    <3>2. toClient'[k] = Append(toClient[k], e)
      BY <1>0, <1>1, <2>1, <2>3 DEF Broadcast
    <3> QED BY <3>1, <3>2, RangeAppend
  <2>4. CASE e \in commits
    <3>1. CASE Delivered(k, e)
      BY <1>3, <2>4, <3>1
    <3>2. ASSUME NEW t \in Threads, pc[t] = "broadcast", staged[t] = e
          PROVE  \/ e \in Range(toClient'[k])
                 \/ pc'[t] = "broadcast" /\ staged'[t] = e
      BY <1>2, <2>3, <3>2, BroadcastStays DEF BroadcastCommit
    <3> QED BY <1>0, <1>1, <2>1, <2>4, <3>1, <3>2 DEF NothingMissed, Delivered
  <2>5. ASSUME NEW t \in Threads, ApplyCommit(t) \/ ApplyRejection(t), staged[t] = e
        PROVE  e \in Range(toClient'[k]) \/ (pc'[t] = "broadcast" /\ staged'[t] = e)
    <3>1. CASE ApplyCommit(t)
      BY <2>5, <3>1 DEF ApplyCommit, TypeOK
    <3>2. CASE ApplyRejection(t)
      BY <2>3, <2>5, <3>2 DEF ApplyRejection
    <3> QED BY <2>5, <3>1, <3>2
  <2> QED BY <1>2, <2>2, <2>4, <2>5, CommitsStep
<1> QED BY <1>4, <1>5

----------------------------------------------------------------------------
\* In every reachable state receipts are consecutive, and a connection is owed nothing
\* that is not filed, on its way or about to be broadcast.
THEOREM Deliveries == Spec => [](Consecutive /\ CaughtUp /\ NothingMissed)
<1>1. Init => Consecutive /\ CaughtUp /\ NothingMissed
  <2> SUFFICES ASSUME Init PROVE Consecutive /\ CaughtUp /\ NothingMissed
    OBVIOUS
  <2>1. \A k \in Conns : k[1] \in Clients /\ k[2] # 0
    BY Names, BoundAssumption
  <2>2. Consecutive
    BY <2>1 DEF Init, Consecutive
  <2>3. CaughtUp /\ NothingMissed
    BY <2>1 DEF Init, CaughtUp, NothingMissed
  <2> QED BY <2>2, <2>3
<1>2. /\ TypeOK /\ IInv /\ DInv /\ TypeOK'
      /\ Consecutive /\ CaughtUp /\ NothingMissed /\ [Next]_vars
      => Consecutive' /\ CaughtUp' /\ NothingMissed'
  BY ConsecutiveStep, CaughtUpStep, NothingMissedStep
<1> QED BY <1>1, <1>2, Safety, Decisions, PTL DEF Spec

\* No receipt skips a message: "outbox acknowledgement gap" is never raised, however
\* connections are replaced and the host crashes.
THEOREM ReceiptsHaveNoGap == Spec => []AcknowledgementsHaveNoGap
<1>1. TypeOK /\ Consecutive => AcknowledgementsHaveNoGap
  <2> SUFFICES ASSUME TypeOK, Consecutive, NEW c \in Clients, session[c] # 0,
                      toClient[<<c, session[c]>>] # << >>,
                      Head(toClient[<<c, session[c]>>]).kind = "receipt"
               PROVE  Head(toClient[<<c, session[c]>>]).local <= cursor[c] + 1
    BY DEF AcknowledgementsHaveNoGap
  <2> DEFINE k == <<c, session[c]>>
  <2>1. k \in Conns /\ k[1] = c /\ k[2] = session[c]
    BY SessionConn
  <2>2. toClient[k] \in Seq(Frame)
    BY <2>1 DEF TypeOK
  <2>3. 1 \in DOMAIN toClient[k] /\ Head(toClient[k]) = toClient[k][1]
    BY <2>2
  <2>4. InStep(k)
    BY <2>1 DEF Consecutive
  <2> QED BY <2>1, <2>3, <2>4 DEF InStep
<1> QED BY <1>1, Safety, Deliveries, PTL

\* A registered connection misses nothing, however commits race with its catch-up.
THEOREM MissesNothing == Spec => []NothingMissed
BY Deliveries, PTL

----------------------------------------------------------------------------
(***************************************************************************)
(* The refinement: CommitOrder implements OrderedLog while no journal      *)
(* append fails.  The host's journal is the log, and what a game has been  *)
(* given is its directory.                                                 *)
(*                                                                         *)
(* The argument.  A journal append under order_lock decides the next       *)
(* entry, a game learns an entry when its companion files it, and every    *)
(* other step, a crash and a restart included, leaves both alone.  The     *)
(* abstract log numbers its entries 1, 2, 3, ...; the host takes its       *)
(* numbers from a counter that a crash erases, so what has to be proved is *)
(* that a running host's counter is one beyond the number of entries       *)
(* (Counted), which needs that no append has failed: a number spent on an  *)
(* entry that never reached the disk is a hole.                            *)
(***************************************************************************)
\* The abstract log.
Log == Ordered(Entries)

\* The journal's numbers have no hole, and the host's counter is just beyond them.
Counted ==
    uncertain = {} =>
        /\ \A e \in Entries : ~ IsOrdered(e) => e.seq = 0
        /\ IsFiniteSet(Log) /\ Seqs(Log) = 1 .. Cardinality(Log)
        /\ up # "down" => nextSeq = Cardinality(Log) + 1

----------------------------------------------------------------------------
\* A step that no append failure belongs to leaves the ordered entries as they are, or a
\* thread decides one more.
LEMMA LogStep ==
    ASSUME TypeOK, Bounded, [Next]_vars, \A t \in Threads : ~ AppendFails(t)
    PROVE  \/ /\ Entries' = Entries
              /\ \/ up' = up /\ nextSeq' = nextSeq
                 \/ Fence /\ nextSeq' = nextSeq
                 \/ HostCrash
                 \/ HostRestart
           \/ \E t \in Threads :
                \/ JournalCommit(t) /\ Entries' = Entries \union {Commit(nextSeq, Origin(t), job[t])}
                \/ JournalRejection(t)
                   /\ Entries' = Entries \union {Rejection(nextSeq, Origin(t), job[t])}
                \/ JournalEvent(t) /\ Entries' = Entries \union {Record(Origin(t), job[t])}
<1>1. CASE Quiet
  BY <1>1 DEF Quiet, Entries
<1>2. ASSUME NEW t \in Threads, ApplyCommit(t) \/ BroadcastCommit(t) \/ ApplyRejection(t)
      PROVE  Entries' = Entries /\ up' = up /\ nextSeq' = nextSeq
  BY <1>2 DEF ApplyCommit, BroadcastCommit, ApplyRejection, Entries, durable, hostVol
<1>3. Fence \/ HostCrash \/ HostRestart => Entries' = Entries
  BY DEF Fence, HostCrash, HostRestart, Entries, durable
<1>4. Fence => nextSeq' = nextSeq
  BY DEF Fence
<1> QED BY <1>1, <1>2, <1>3, <1>4, Footprint, JournalStep DEF Ordering

\* An entry with the next number lengthens a log that has no hole.
LEMMA LogGrows ==
    ASSUME NEW S, NEW e, IsFiniteSet(S), Seqs(S) = 1 .. Cardinality(S),
           e.seq = Cardinality(S) + 1
    PROVE  /\ IsFiniteSet(S \union {e}) /\ Cardinality(S \union {e}) = Cardinality(S) + 1
           /\ Seqs(S \union {e}) = 1 .. Cardinality(S \union {e})
<1>1. Cardinality(S) \in Nat
  BY FS_CardinalityType
<1>2. e \notin S
  <2>1. Cardinality(S) + 1 \notin 1 .. Cardinality(S)
    BY <1>1
  <2> QED BY <2>1 DEF Seqs
<1>3. IsFiniteSet(S \union {e}) /\ Cardinality(S \union {e}) = Cardinality(S) + 1
  BY <1>2, FS_AddElement
<1>4. Seqs(S \union {e}) = Seqs(S) \union {Cardinality(S) + 1}
  BY DEF Seqs
<1>5. 1 .. Cardinality(S) + 1 = (1 .. Cardinality(S)) \union {Cardinality(S) + 1}
  BY <1>1
<1> QED BY <1>3, <1>4, <1>5

\* Every step keeps the journal without a hole, as long as no append fails.
LEMMA CountedStep == ASSUME TypeOK, IInv, Counted, [Next]_vars PROVE Counted'
<1> SUFFICES ASSUME uncertain' = {}
             PROVE  /\ \A e \in Entries' : ~ IsOrdered(e) => e.seq = 0
                    /\ IsFiniteSet(Log') /\ Seqs(Log') = 1 .. Cardinality(Log')
                    /\ up' # "down" => nextSeq' = Cardinality(Log') + 1
  BY DEF Counted, Seqs
<1>1. \A t \in Threads : ~ AppendFails(t)
  BY DEF AppendFails
<1>2. uncertain = {}
  <2>1. ASSUME NEW t \in Threads, Ordering(t), ~ AppendFails(t) PROVE uncertain' = uncertain
    BY <2>1 DEF Ordering, JournalCommit, ApplyCommit, BroadcastCommit, JournalRejection,
       ApplyRejection, JournalEvent, durable
  <2> QED BY <1>1, <2>1, Footprint DEF IInv, Quiet, Fence, HostCrash, HostRestart, durable
<1>3. /\ \A e \in Entries : ~ IsOrdered(e) => e.seq = 0
      /\ IsFiniteSet(Log) /\ Seqs(Log) = 1 .. Cardinality(Log)
      /\ up # "down" => nextSeq = Cardinality(Log) + 1
  BY <1>2 DEF Counted
<1>4. CASE Entries' = Entries
  <2>1. Log' = Log
    BY <1>4 DEF Log, Ordered, IsOrdered
  <2>2. up' # "down" => nextSeq' = Cardinality(Log) + 1
    <3>1. CASE HostCrash
      BY <3>1 DEF HostCrash
    <3>2. CASE HostRestart
      <4>0. /\ Cardinality(Log) \in Nat /\ \A e \in Entries : e \in Entry /\ e.seq \in Nat
        BY <1>3, FS_CardinalityType, EntriesTyped DEF TypeOK, Entry
      <4>1. \A e \in Log : e.seq \in 1 .. Cardinality(Log)
        BY <1>3 DEF Seqs
      <4>2. \A e \in Entries : e.seq <= Cardinality(Log)
        BY <1>3, <4>0, <4>1 DEF Log, Ordered
      <4>3. nextSeq' \in Nat /\ nextSeq' <= Cardinality(Log) + 1
        BY <3>2, <4>0, <4>2 DEF HostRestart
      <4>4. nextSeq' > Cardinality(Log)
        <5>1. CASE Cardinality(Log) = 0
          BY <3>2, <4>0, <5>1 DEF HostRestart
        <5>2. CASE Cardinality(Log) # 0
          <6>1. Cardinality(Log) \in Seqs(Log)
            BY <1>3, <4>0, <5>2
          <6>2. PICK e \in Log : e.seq = Cardinality(Log)
            BY <6>1 DEF Seqs
          <6>3. e \in Entries
            BY <6>2 DEF Log, Ordered
          <6> QED BY <3>2, <4>0, <6>2, <6>3 DEF HostRestart
        <5> QED BY <5>1, <5>2
      <4> QED BY <4>0, <4>3, <4>4
    <3>3. CASE (up' = up \/ Fence) /\ nextSeq' = nextSeq
      BY <1>3, <3>3 DEF Fence
    <3>4. ASSUME NEW t \in Threads, JournalCommit(t) \/ JournalRejection(t),
                 Entries' = Entries \union {Commit(nextSeq, Origin(t), job[t])}
                 \/ Entries' = Entries \union {Rejection(nextSeq, Origin(t), job[t])}
          PROVE  FALSE
      <4>1. up # "down"
        BY <3>4 DEF IInv, Stopped, JournalCommit, JournalRejection
      <4>2. \A e \in Entries : e.seq < nextSeq
        BY <4>1 DEF IInv, Numbered
      <4>3. \E e \in Entries : e.seq = nextSeq
        <5>1. /\ Commit(nextSeq, Origin(t), job[t]).seq = nextSeq
              /\ Rejection(nextSeq, Origin(t), job[t]).seq = nextSeq
          BY DEF Commit, Rejection
        <5>2. \/ Commit(nextSeq, Origin(t), job[t]) \in Entries
              \/ Rejection(nextSeq, Origin(t), job[t]) \in Entries
          BY <1>4, <3>4
        <5> QED BY <5>1, <5>2
      <4> QED BY <4>2, <4>3 DEF TypeOK
    <3>5. ASSUME NEW t \in Threads, JournalEvent(t)
          PROVE  up' = up /\ nextSeq' = nextSeq
      BY <3>5 DEF JournalEvent, hostVol
    <3> QED BY <1>1, <3>1, <3>2, <3>3, <3>4, <3>5, LogStep DEF IInv
  <2> QED BY <1>3, <1>4, <2>1, <2>2
<1>5. ASSUME NEW t \in Threads, NEW e, JournalCommit(t) \/ JournalRejection(t),
             Entries' = Entries \union {e}, IsOrdered(e), e.seq = nextSeq
      PROVE  /\ \A f \in Entries' : ~ IsOrdered(f) => f.seq = 0
             /\ IsFiniteSet(Log') /\ Seqs(Log') = 1 .. Cardinality(Log')
             /\ up' # "down" => nextSeq' = Cardinality(Log') + 1
  <2>1. up # "down" /\ nextSeq' = nextSeq + 1
    BY <1>5 DEF JournalCommit, JournalRejection, IInv, Stopped
  <2>2. Log' = Log \union {e}
    BY <1>5 DEF Log, Ordered, IsOrdered
  <2> QED BY <1>3, <1>5, <2>1, <2>2, LogGrows
<1>6. ASSUME NEW t \in Threads, JournalEvent(t),
             Entries' = Entries \union {Record(Origin(t), job[t])}
      PROVE  /\ \A f \in Entries' : ~ IsOrdered(f) => f.seq = 0
             /\ IsFiniteSet(Log') /\ Seqs(Log') = 1 .. Cardinality(Log')
             /\ up' # "down" => nextSeq' = Cardinality(Log') + 1
  <2>1. up' = up /\ nextSeq' = nextSeq
    BY <1>6 DEF JournalEvent, hostVol
  <2>2. Log' = Log
    BY <1>6 DEF Log, Ordered, IsOrdered, Record
  <2> QED BY <1>3, <1>6, <2>1, <2>2 DEF Record
<1>7. ASSUME NEW t \in Threads
      PROVE  /\ LET e == Commit(nextSeq, Origin(t), job[t]) IN IsOrdered(e) /\ e.seq = nextSeq
             /\ LET e == Rejection(nextSeq, Origin(t), job[t]) IN IsOrdered(e) /\ e.seq = nextSeq
  BY DEF Commit, Rejection, IsOrdered
<1> QED BY <1>1, <1>4, <1>5, <1>6, <1>7, LogStep DEF IInv

\* The entries in a game's directory change only when its companion files one.
LEMMA InboxCases ==
    ASSUME [Next]_vars
    PROVE  \/ inbox' = inbox
           \/ \E c \in Clients : ReceiveOrdered(c)
           \/ \E t \in Threads : ApplyCommit(t) \/ ApplyRejection(t)
<1>1. CASE Game \/ MainStep \/ HostCrash \/ HostRestart \/ UNCHANGED vars
  BY <1>1 DEF Game, Emit, MainStep, MainRead, MainAcknowledge, Fence, HostCrash,
     HostRestart, vars, durable
<1>2. ASSUME NEW c \in Clients, ClientStep(c) \/ ClientDrop(c), ~ ReceiveOrdered(c)
      PROVE  inbox' = inbox
  BY <1>2 DEF ClientStep, Connect, ReceiveSyncReady, ReceiveReceipt, ClientSend,
     ClientNoticesClose, ClientDrop, EndSession, durable
<1>3. ASSUME NEW k \in Conns, ConnStep(k) \/ Hangup(k) \/ EnterAuditFault(k)
      PROVE  inbox' = inbox
  BY <1>3 DEF ConnStep, ReplayBatch, ReplayMissing, Register, Read, ReplyToClient, Hangup,
     EnterAuditFault, durable
<1>4. ASSUME NEW t \in Threads, Order(t) \/ AppendFails(t),
             ~ (ApplyCommit(t) \/ ApplyRejection(t))
      PROVE  inbox' = inbox
  BY <1>4 DEF Order, AppendFails, Deduplicate, Refuse, JournalCommit, BroadcastCommit,
     RejectionExists, JournalRejection, JournalEvent, RefuseEvent, durable
<1> QED BY <1>1, <1>2, <1>3, <1>4 DEF Next

\* An ordering thread decides the next entry of the abstract log, and an intent it
\* commits was not committed before.
LEMMA DecideStep ==
    ASSUME TypeOK, IInv, Counted, uncertain = {}, NEW t \in Threads,
           NEW e \in Entry, Entries' = Entries \union {e},
           \/ JournalCommit(t) /\ e = Commit(nextSeq, Origin(t), job[t])
           \/ JournalRejection(t) /\ e = Rejection(nextSeq, Origin(t), job[t])
    PROVE  OL!Next
<1>1. up # "down" /\ inbox' = inbox
  BY DEF JournalCommit, JournalRejection, IInv, Stopped
<1>2. e.seq = Cardinality(Log) + 1
  BY <1>1 DEF Counted, Commit, Rejection
<1>3. IsOrdered(e) /\ e = [kind |-> e.kind, seq |-> e.seq, peer |-> e.peer, local |-> e.local]
  BY DEF Commit, Rejection, IsOrdered
<1>4. Log' = Log \union {e}
  BY <1>3 DEF Log, Ordered, IsOrdered
<1>5. ASSUME e.kind = "commit", NEW d \in Log, d.kind = "commit", d.peer = e.peer,
             d.local = e.local
      PROVE  FALSE
  <2>1. JournalCommit(t) /\ <<d.peer, d.local>> = Key(t)
    BY <1>5 DEF Commit, Rejection, Key
  <2>2. d \in Entries
    BY DEF Log, Ordered
  <2>3. <<d.peer, d.local>> \notin seen /\ LockFree
    BY <2>1 DEF JournalCommit
  <2> QED BY <1>1, <1>5, <2>2, <2>3 DEF IInv, Remembered, LockFree
<1>6. OL!Decide(e.kind, e.peer, e.local)
  <2>1. e = [kind |-> e.kind, seq |-> Cardinality(Log) + 1, peer |-> e.peer,
             local |-> e.local]
    BY <1>2, <1>3
  <2>2. Log' = Log \union {[kind |-> e.kind, seq |-> Cardinality(Log) + 1,
                            peer |-> e.peer, local |-> e.local]}
    BY <1>4, <2>1
  <2>3. e.kind = "commit" =>
            ~ \E d \in Log : d.kind = "commit" /\ d.peer = e.peer /\ d.local = e.local
    BY <1>5
  <2>4. OL!Cardinality(Log) = Cardinality(Log)
    BY DEF OL!Cardinality, Cardinality
  <2> QED BY <1>1, <2>2, <2>3, <2>4 DEF OL!Decide, Log
<1>7. e \in Log'
  BY <1>4
<1> QED BY <1>6, <1>7 DEF OL!Next, Log

\* Filing an ordered entry is learning it.
LEMMA LearnStep ==
    ASSUME TypeOK, IInv, NEW p \in Peers, NEW e \in Log, Entries' = Entries,
           inbox' = [inbox EXCEPT ![p] = @ \union {e}]
    PROVE  OL!Next
<1>1. OL!Learn(p)
  BY DEF OL!Learn, Log, Ordered, IsOrdered
<1> QED BY <1>1 DEF OL!Next

\* Every step that no append failure belongs to is a step of the abstract log or a
\* stutter.
LEMMA RefinementStep ==
    ASSUME TypeOK, IInv, Counted, [Next]_vars, uncertain = {}, uncertain' = {}
    PROVE  [OL!Next]_<<Log, inbox>>
<1>1. \A t \in Threads : ~ AppendFails(t)
  BY DEF AppendFails
<1>2. ASSUME NEW c \in Clients, ReceiveOrdered(c) PROVE OL!Next
  <2> DEFINE k == <<c, session[c]>>
  <2>1. k \in Conns /\ c \in Peers
    BY <1>2, SessionConn, Names DEF ReceiveOrdered
  <2>2. toClient[k] \in Seq(Frame) /\ toClient[k] # << >> /\ IsOrdered(Head(toClient[k]))
    BY <1>2, <2>1 DEF TypeOK, ReceiveOrdered
  <2>3. Head(toClient[k]) \in Frames(k)
    BY <2>2, RangeTail DEF Frames
  <2>4. Head(toClient[k]) \in Log
    BY <2>1, <2>2, <2>3 DEF IInv, Sourced, Log
  <2>5. Entries' = Entries /\ inbox' = [inbox EXCEPT ![c] = @ \union {Head(toClient[k])}]
    BY <1>2 DEF ReceiveOrdered, Entries
  <2> QED BY <2>1, <2>4, <2>5, LearnStep
<1>3. ASSUME NEW t \in Threads, ApplyCommit(t) \/ ApplyRejection(t) PROVE OL!Next
  <2>1. staged[t] \in Log /\ Host \in Peers
    BY <1>3, Names DEF ApplyCommit, ApplyRejection, IInv, Staged, Log
  <2>2. Entries' = Entries /\ inbox' = [inbox EXCEPT ![Host] = @ \union {staged[t]}]
    BY <1>3 DEF ApplyCommit, ApplyRejection, Entries
  <2> QED BY <2>1, <2>2, LearnStep
<1>4. ASSUME NEW t \in Threads,
             \/ /\ JournalCommit(t)
                /\ Entries' = Entries \union {Commit(nextSeq, Origin(t), job[t])}
             \/ /\ JournalRejection(t)
                /\ Entries' = Entries \union {Rejection(nextSeq, Origin(t), job[t])}
      PROVE  OL!Next
  <2>1. /\ Commit(nextSeq, Origin(t), job[t]) \in Entry
        /\ Rejection(nextSeq, Origin(t), job[t]) \in Entry
    BY Names DEF TypeOK, Commit, Rejection, Entry
  <2> QED BY <1>4, <2>1, DecideStep
<1>5. ASSUME NEW t \in Threads, JournalEvent(t),
             Entries' = Entries \union {Record(Origin(t), job[t])}
      PROVE  Log' = Log /\ inbox' = inbox
  BY <1>5 DEF JournalEvent, Log, Ordered, IsOrdered, Record
<1>6. Entries' = Entries => Log' = Log
  BY DEF Log, Ordered, IsOrdered
<1> QED BY <1>1, <1>2, <1>3, <1>4, <1>5, <1>6, LogStep, InboxCases DEF IInv

----------------------------------------------------------------------------
\* While no append fails, the journal's numbers have no hole.
THEOREM Counts == Spec => []Counted
<1>1. Init => Counted
  <2> SUFFICES ASSUME Init PROVE Counted
    OBVIOUS
  <2>1. Entries = {} /\ Log = {} /\ nextSeq = 1
    BY DEF Init, Entries, Range, Log, Ordered
  <2>2. IsFiniteSet({}) /\ Cardinality({}) = 0
    BY FS_EmptySet
  <2> QED BY <2>1, <2>2 DEF Counted, Seqs
<1>2. TypeOK /\ IInv /\ Counted /\ [Next]_vars => Counted'
  BY CountedStep
<1> QED BY <1>1, <1>2, Safety, PTL DEF Spec

\* While no append fails, the host, its clients and the sockets between them implement
\* one log that commits an intent at most once and that every game reads: crashes,
\* replaced connections and lost receipts are invisible.
THEOREM Implements == Spec /\ [](uncertain = {}) => ImplementsOrderedLog
<1>1. Init => OL!Init
  BY DEF Init, OL!Init, Entries, Range, Ordered
<1>2. TypeOK /\ IInv /\ Counted /\ [Next]_vars /\ uncertain = {} /\ (uncertain = {})'
      => [OL!Next]_<<Ordered(Entries), inbox>>
  BY RefinementStep DEF Log
<1> QED BY <1>1, <1>2, Safety, Counts, PTL DEF Spec, ImplementsOrderedLog, OL!Spec
=============================================================================
