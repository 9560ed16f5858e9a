------------------------------- MODULE SaveSync -------------------------------
(***************************************************************************)
(* The pre-session transfer of the host's starting save (save_sync.py).    *)
(* The host hashes its native save set into a manifest and serves it on a  *)
(* listener of its own; every call of receive_save is one attempt: it      *)
(* stages the files, verifies them against the manifest, renames them into *)
(* the save directory with the .sav last, and answers with a receipt.      *)
(*                                                                         *)
(* A file is a sequence of chunks and a chunk is the number of the rewrite *)
(* it was written by, so a hash is the sequence itself: two files have one *)
(* hash exactly when their chunks agree.  The native game may rewrite its  *)
(* own files at any time, connections break, renames and the removals of a *)
(* rollback fail, and either side may crash.                               *)
(***************************************************************************)
EXTENDS Naturals, Sequences, FiniteSets

CONSTANTS Attempt,       \* the calls of receive_save, into one save directory
          Preview,       \* whether the native save set may have a preview image
          Limits,        \* how a server may be limited: slots, the transfers it
                         \* serves at a time (BoundedSemaphore(2)), and downloads,
                         \* the transfers it ever starts (max_downloads)
          MaxEdit,       \* bound: rewrites of a file by the host's game
          MaxTrouble     \* bound: crashes, lost connections, failed file calls

ASSUME SaveSyncAssumption ==
    /\ IsFiniteSet(Attempt)
    /\ Preview \in SUBSET BOOLEAN /\ Preview # {}
    /\ Limits \subseteq [slots : Nat \ {0}, downloads : Nat \ {0}]
    /\ MaxEdit \in Nat /\ MaxTrouble \in Nat

VARIABLES limits,   \* the limits of this host's servers
          source,   \* the host's save set, role by role
          moments,  \* every save set the host's disk ever held (history)
          server,   \* the SaveSyncServer object and its manifest
          handler,  \* one _handle thread for each accepted connection
          client,   \* one receive_save call for each attempt
          wire,     \* bytes and frames from a handler to its client
          back,     \* the receipts a client has sent its handler
          disk,     \* the files in the receivers' save directory
          edits, trouble

hostDisk == <<limits, source, moments>>
budget == <<edits, trouble>>
vars == <<limits, source, moments, server, handler, client, wire, back, disk, edits,
          trouble>>

Role == {"save", "metadata", "preview"}

\* The order of the manifest's files, and the order of their installation.
SendOrder == <<"save", "metadata", "preview">>
InstallOrderMut == <<"save", "metadata", "preview">>
InstallOrder == <<"metadata", "preview", "save">>

\* The roles are taken one by one: the first of those left, in one order or the other.
Place(order, role) == CHOOSE i \in 1 .. 3 : order[i] = role
First(order, roles) ==
    CHOOSE r \in roles : \A q \in roles : Place(order, r) <= Place(order, q)

\* A control frame read where file bytes are expected is bytes of no rewrite.
Junk == MaxEdit + 1
Chunks == Seq(0 .. MaxEdit)
Required == {"save", "metadata"}
SaveSets == [Required -> Chunks] \cup [Role -> Chunks]
NoSet == [role \in {} |-> <<>>]

Frame(kind) == [kind |-> kind]
ManifestFrame(m) == [kind |-> "manifest", manifest |-> m]
Bytes(n) == [kind |-> "bytes", chunk |-> n]

NewHandler == [phase |-> "none", left |-> {}, sent |-> <<>>]
NewClient == [phase |-> "idle", manifest |-> NoSet, left |-> {}, got |-> <<>>,
              suffix |-> 1, created |-> {}, kept |-> {}]
ServerDown == [phase |-> "down", before |-> NoSet, manifest |-> NoSet,
               active |-> 0, started |-> 0, successful |-> 0]

Init ==
    /\ limits \in Limits
    /\ \E with \in Preview :
          source = [r \in IF with THEN Role ELSE Role \ {"preview"} |->
                      IF r = "save" THEN <<0, 0>> ELSE <<0>>]
    /\ moments = {source}
    /\ server = ServerDown
    /\ handler = [a \in Attempt |-> NewHandler]
    /\ client = [a \in Attempt |-> NewClient]
    /\ wire = [a \in Attempt |-> <<>>]
    /\ back = [a \in Attempt |-> <<>>]
    /\ disk = {}
    /\ edits = 0
    /\ trouble = 0

-----------------------------------------------------------------------------
(* The host's disk and the manifest                                        *)

\* The native game saves over one file of the set: other bytes, or more of them.
Rewrite(role) ==
    /\ edits < MaxEdit
    /\ edits' = edits + 1
    /\ \E new \in {[i \in DOMAIN source[role] |-> edits + 1],
                   Append(source[role], edits + 1)} :
          source' = [source EXCEPT ![role] = new]
    /\ moments' = moments \cup {source'}
    /\ UNCHANGED <<limits, server, handler, client, wire, back, disk, trouble>>

\* build_save_sync_manifest: the stat of every file before the first hash ...
StartHost ==
    /\ server.phase = "down"
    /\ server' = [ServerDown EXCEPT !.phase = "hashing", !.before = source]
    /\ UNCHANGED <<hostDisk, handler, client, wire, back, disk, budget>>

\* ... then the hash of one file after the other ...
HashFile ==
    /\ server.phase = "hashing"
    /\ DOMAIN server.manifest # DOMAIN source
    /\ LET role == First(SendOrder, DOMAIN source \ DOMAIN server.manifest)
       IN server' = [server EXCEPT !.manifest =
             [r \in DOMAIN @ \cup {role} |-> IF r = role THEN source[role] ELSE @[r]]]
    /\ UNCHANGED <<hostDisk, handler, client, wire, back, disk, budget>>

\* The stat tells every rewrite: its time is newer whatever its size.
Unchanged(before) == before = source

\* ... and the stat of every file after the last: a save that changed is refused.
FinishManifest ==
    /\ server.phase = "hashing" /\ DOMAIN server.manifest = DOMAIN source
    /\ server' = IF Unchanged(server.before)
                 THEN [server EXCEPT !.phase = "listening"]
                 ELSE ServerDown
    /\ UNCHANGED <<hostDisk, handler, client, wire, back, disk, budget>>

-----------------------------------------------------------------------------
(* SaveSyncServer._handle                                                  *)

Ended(a) == client[a].phase \in {"failed", "done", "crashed"}
Served(a) == handler[a].phase \in {"closed", "broken"}
Serving(a) == handler[a].phase \in {"request", "sending", "receipt"}

\* What a handler writes reaches the client only while the connection stands.
Put(a, frame) == IF Ended(a) THEN wire ELSE [wire EXCEPT ![a] = Append(@, frame)]

\* The semaphore is taken without waiting; a third transfer is turned away.
Accept(a) ==
    IF server.active < limits.slots
    THEN /\ server' = [server EXCEPT !.active = @ + 1]
         /\ handler' = [handler EXCEPT ![a].phase = "request"]
         /\ wire' = wire
    ELSE /\ wire' = [wire EXCEPT ![a] = <<Frame("error")>>]
         /\ handler' = [handler EXCEPT ![a].phase = "closed"]
         /\ server' = server

\* The except and finally clauses: an error frame, the connection closed, the
\* slot returned.
Fail(a) ==
    /\ wire' = Put(a, Frame("error"))
    /\ handler' = [handler EXCEPT ![a].phase = "closed"]
    /\ server' = [server EXCEPT !.active = @ - 1]

\* The transfer is counted before a byte is streamed, and stays counted.
Request(a) ==
    /\ handler[a].phase = "request"
    /\ IF server.started >= limits.downloads THEN Fail(a)
       ELSE /\ server' = [server EXCEPT !.started = @ + 1]
            /\ wire' = Put(a, ManifestFrame(server.manifest))
            /\ handler' = [handler EXCEPT ![a].phase = "sending",
                  ![a].left = DOMAIN server.manifest]
    /\ UNCHANGED <<hostDisk, client, back, disk, budget>>

\* One chunk read from the file as it is now.
SendChunk(a) ==
    /\ handler[a].phase = "sending" /\ handler[a].left # {}
    /\ LET file == source[First(SendOrder, handler[a].left)]
           sent == handler[a].sent
       IN /\ Len(sent) < Len(file)
          /\ wire' = Put(a, Bytes(file[Len(sent) + 1]))
          /\ handler' = [handler EXCEPT ![a].sent = Append(@, file[Len(sent) + 1])]
    /\ UNCHANGED <<hostDisk, server, client, back, disk, budget>>

\* The end of the file: what was sent must be what the manifest promised.
FileSent(a) ==
    /\ handler[a].phase = "sending" /\ handler[a].left # {}
    /\ LET role == First(SendOrder, handler[a].left)
       IN /\ Len(handler[a].sent) >= Len(source[role])
          /\ IF handler[a].sent # server.manifest[role] THEN Fail(a)
             ELSE /\ handler' = [handler EXCEPT ![a].left = @ \ {role}, ![a].sent = <<>>]
                  /\ UNCHANGED <<server, wire>>
    /\ UNCHANGED <<hostDisk, client, back, disk, budget>>

SendEnd(a) ==
    /\ handler[a].phase = "sending" /\ handler[a].left = {}
    /\ wire' = Put(a, Frame("end"))
    /\ handler' = [handler EXCEPT ![a].phase = "receipt"]
    /\ UNCHANGED <<hostDisk, server, client, back, disk, budget>>

\* The receipt the handler waits for before it counts a download.
ReceiptedMut(a) == TRUE
Receipted(a) == back[a] # <<>>

CountDownload(a) ==
    /\ handler[a].phase = "receipt" /\ Receipted(a)
    /\ server' = [server EXCEPT !.successful = @ + 1, !.active = @ - 1]
    /\ handler' = [handler EXCEPT ![a].phase = "closed"]
    /\ UNCHANGED <<hostDisk, client, wire, back, disk, budget>>

\* The peer closed the connection without the frame the handler waits for.
PeerLeft(a) ==
    /\ Serving(a) /\ Ended(a)
    /\ handler[a].phase = "receipt" => back[a] = <<>>
    /\ Fail(a)
    /\ UNCHANGED <<hostDisk, client, back, disk, budget>>

\* The transfer timeout passes on the host, or its read or send raises.
HandlerError(a) ==
    /\ Serving(a) /\ trouble < MaxTrouble
    /\ trouble' = trouble + 1
    /\ Fail(a)
    /\ UNCHANGED <<hostDisk, client, back, disk, edits>>

\* The host's process ends: its handlers go with it, and what they had written
\* reaches the client or does not.
HostCrash ==
    /\ server.phase # "down" /\ trouble < MaxTrouble
    /\ trouble' = trouble + 1
    /\ server' = ServerDown
    /\ handler' = [a \in Attempt |->
          IF handler[a].phase \in {"none", "closed"} THEN handler[a]
          ELSE [handler[a] EXCEPT !.phase = "broken"]]
    /\ \/ wire' = wire
       \/ wire' = [a \in Attempt |->
             IF handler'[a].phase = "broken" THEN <<>> ELSE wire[a]]
    /\ UNCHANGED <<hostDisk, client, back, disk, edits>>

-----------------------------------------------------------------------------
(* receive_save                                                            *)

Give(a, phase) == client' = [client EXCEPT ![a].phase = phase]

\* create_connection and the request; without a listener the deadline passes.
Connect(a) ==
    /\ client[a].phase = "idle"
    /\ IF server.phase = "listening"
       THEN Give(a, "manifest") /\ Accept(a)
       ELSE Give(a, "failed") /\ UNCHANGED <<server, handler, wire>>
    /\ UNCHANGED <<hostDisk, back, disk, budget>>

Next1(a) == wire[a][1]
Take(a) == wire' = [wire EXCEPT ![a] = Tail(@)]
StarvedMut(a) == wire[a] = <<>> /\ handler[a].phase = "closed"
\* The other end is closed and nothing more will come: the read returns nothing.
Starved(a) == wire[a] = <<>> /\ Served(a)

\* A valid manifest opens the transfer; an error frame ends the attempt.
ReadManifest(a) ==
    /\ client[a].phase = "manifest" /\ wire[a] # <<>>
    /\ Take(a)
    /\ IF Next1(a).kind = "manifest"
       THEN client' = [client EXCEPT ![a].phase = "files",
               ![a].manifest = Next1(a).manifest,
               ![a].left = DOMAIN Next1(a).manifest]
       ELSE Give(a, "failed")
    /\ UNCHANGED <<hostDisk, server, handler, back, disk, budget>>

Reading(a) == First(SendOrder, client[a].left)
Wanted(a) == client[a].manifest[Reading(a)]

\* The digest of the staged bytes against the manifest's.
Verified(a, got) == got = Wanted(a)

\* _receive_exact takes as many bytes as the manifest says, whatever they are,
\* and refuses the file when its digest is another.
ReadChunk(a) ==
    /\ client[a].phase = "files" /\ client[a].left # {} /\ wire[a] # <<>>
    /\ Take(a)
    /\ LET got == Append(client[a].got,
                         IF Next1(a).kind = "bytes" THEN Next1(a).chunk ELSE Junk)
       IN IF Len(got) < Len(Wanted(a)) THEN client' = [client EXCEPT ![a].got = got]
          ELSE IF Verified(a, got)
          THEN client' = [client EXCEPT ![a].got = <<>>, ![a].left = @ \ {Reading(a)}]
          ELSE Give(a, "failed")
    /\ UNCHANGED <<hostDisk, server, handler, back, disk, budget>>

ReadEnd(a) ==
    /\ client[a].phase = "files" /\ client[a].left = {} /\ wire[a] # <<>>
    /\ Take(a)
    /\ Give(a, IF Next1(a).kind = "end" THEN "choosing" ELSE "failed")
    /\ UNCHANGED <<hostDisk, server, handler, back, disk, budget>>

\* The connection ended before the bytes or the frame arrived.
HostLeft(a) ==
    /\ client[a].phase \in {"manifest", "files"} /\ Starved(a)
    /\ Give(a, "failed")
    /\ UNCHANGED <<hostDisk, server, handler, wire, back, disk, budget>>

-----------------------------------------------------------------------------
(* _install_received                                                       *)

\* A destination name is made of the bundle's id and a suffix.
Files(m, suffix) == {f \in disk : f.bundle = m /\ f.suffix = suffix}
File(m, suffix, role, bytes) ==
    [bundle |-> m, suffix |-> suffix, role |-> role, bytes |-> bytes]

\* _matches_existing
Matches(m, suffix) ==
    \A role \in DOMAIN m : File(m, suffix, role, m[role]) \in disk

LastSuffix == Cardinality(Attempt) + 1

\* One candidate name: the set is there already, or it is free, or the next.
Choose(a) ==
    /\ client[a].phase = "choosing"
    /\ LET m == client[a].manifest
           s == client[a].suffix
       IN IF Matches(m, s) THEN Give(a, "receipt")
          ELSE IF Files(m, s) = {}
          THEN client' = [client EXCEPT ![a].phase = "renaming",
                  ![a].left = DOMAIN m]
          ELSE /\ s < LastSuffix
               /\ client' = [client EXCEPT ![a].suffix = @ + 1]
    /\ UNCHANGED <<hostDisk, server, handler, wire, back, disk, budget>>

Undo(a) == Give(a, "undoing")

\* One rename.  It never replaces a file that appeared in the meantime.
Rename(a) ==
    /\ client[a].phase = "renaming" /\ client[a].left # {}
    /\ LET role == First(InstallOrder, client[a].left)
           m == client[a].manifest
           s == client[a].suffix
       IN IF \E f \in Files(m, s) : f.role = role
          THEN Undo(a) /\ disk' = disk
          ELSE /\ disk' = disk \cup {File(m, s, role, m[role])}
               /\ client' = [client EXCEPT ![a].left = @ \ {role},
                                           ![a].created = @ \cup {role}]
    /\ UNCHANGED <<hostDisk, server, handler, wire, back, budget>>

\* A rename raises, or the final verification does when it reads a file again.
InstallFails(a) ==
    /\ client[a].phase = "renaming" /\ trouble < MaxTrouble
    /\ trouble' = trouble + 1
    /\ Undo(a)
    /\ UNCHANGED <<hostDisk, server, handler, wire, back, disk, edits>>

\* The final verification of the installed files.
Installed(a) ==
    /\ client[a].phase = "renaming" /\ client[a].left = {}
    /\ IF Matches(client[a].manifest, client[a].suffix) THEN Give(a, "receipt") ELSE Undo(a)
    /\ UNCHANGED <<hostDisk, server, handler, wire, back, disk, budget>>

\* The file unlinked next by the rollback: the latest of those renamed.
NextUnlink(created) ==
    CHOOSE r \in created :
        \A q \in created : Place(InstallOrder, q) <= Place(InstallOrder, r)

Unlink(a) ==
    /\ client[a].phase = "undoing"
    /\ IF client[a].created = {}
       THEN Give(a, "failed") /\ disk' = disk
       ELSE LET role == NextUnlink(client[a].created)
            IN /\ disk' = {f \in disk : ~ (/\ f.bundle = client[a].manifest
                                           /\ f.suffix = client[a].suffix
                                           /\ f.role = role)}
               /\ client' = [client EXCEPT ![a].created = @ \ {role}]
    /\ UNCHANGED <<hostDisk, server, handler, wire, back, budget>>

\* An unlink that raises is swallowed: the file stays and the rollback goes on with the
\* next.  kept is a history of those files.
UnlinkFails(a) ==
    /\ client[a].phase = "undoing" /\ client[a].created # {}
    /\ LET role == NextUnlink(client[a].created)
       IN client' = [client EXCEPT ![a].created = @ \ {role}, ![a].kept = @ \cup {role}]
    /\ UNCHANGED <<hostDisk, server, handler, wire, back, disk, budget>>

\* The receipt is sent and receive_save returns; a send into a connection the
\* host has closed may raise instead.
SendReceipt(a) ==
    /\ client[a].phase = "receipt"
    /\ \/ /\ Give(a, "done")
          /\ back' = [back EXCEPT ![a] = IF Served(a) THEN @ ELSE <<"receipt">>]
       \/ /\ Served(a)
          /\ Give(a, "failed")
          /\ back' = back
    /\ UNCHANGED <<hostDisk, server, handler, wire, disk, budget>>

\* The receiver's process ends wherever it is; its files stay as they are.
ClientCrash(a) ==
    /\ client[a].phase # "idle" /\ ~ Ended(a) /\ trouble < MaxTrouble
    /\ trouble' = trouble + 1
    /\ Give(a, "crashed")
    /\ UNCHANGED <<hostDisk, server, handler, wire, back, disk, edits>>

-----------------------------------------------------------------------------
Handle(a) ==
    \/ Request(a) \/ SendChunk(a) \/ FileSent(a) \/ SendEnd(a)
    \/ CountDownload(a) \/ PeerLeft(a)

Receive(a) ==
    \/ Connect(a) \/ ReadManifest(a) \/ ReadChunk(a) \/ ReadEnd(a) \/ HostLeft(a)
    \/ Choose(a) \/ Rename(a) \/ Installed(a)
    \/ Unlink(a) \/ SendReceipt(a)

Next ==
    \/ \E role \in DOMAIN source : Rewrite(role)
    \/ StartHost \/ HashFile \/ FinishManifest \/ HostCrash
    \/ \E a \in Attempt : \/ Handle(a) \/ HandlerError(a)
                          \/ Receive(a) \/ InstallFails(a) \/ UnlinkFails(a)
                          \/ ClientCrash(a)

Spec == Init /\ [][Next]_vars

\* The threads that serve and receive are scheduled; when a call is made, the
\* game's saving, and every failure are left to chance.
FairSpec == Spec /\ \A a \in Attempt : WF_vars(Handle(a)) /\ WF_vars(Receive(a))

-----------------------------------------------------------------------------
(* Properties                                                              *)

Frames == {Frame(kind) : kind \in {"error", "end"}}
          \cup [kind : {"manifest"}, manifest : SaveSets]
          \cup [kind : {"bytes"}, chunk : 0 .. MaxEdit]
FileType == [bundle : SaveSets, suffix : 1 .. LastSuffix, role : Role, bytes : Chunks]
HandlerType == [phase : {"none", "request", "sending", "receipt", "closed", "broken"},
                left : SUBSET Role, sent : Chunks]
ClientType == [phase : {"idle", "manifest", "files", "choosing", "renaming", "undoing",
                        "receipt", "done", "failed", "crashed"},
               manifest : SaveSets \cup {NoSet}, left : SUBSET Role,
               got : Seq(0 .. Junk), suffix : 1 .. LastSuffix, created : SUBSET Role,
               kept : SUBSET Role]

TypeOK ==
    /\ limits \in Limits /\ source \in SaveSets /\ moments \subseteq SaveSets
    /\ server.phase \in {"down", "hashing", "listening"}
    /\ server.active \in 0 .. limits.slots
    /\ server.started \in 0 .. limits.downloads
    /\ server.successful \in 0 .. server.started
    /\ handler \in [Attempt -> HandlerType]
    /\ client \in [Attempt -> ClientType]
    /\ wire \in [Attempt -> Seq(Frames)] /\ back \in [Attempt -> {<<>>, <<"receipt">>}]
    /\ disk \subseteq FileType
    /\ edits \in 0 .. MaxEdit /\ trouble \in 0 .. MaxTrouble

\* The whole set of a manifest is on the disk under one name.
Whole(m, suffix) == \A role \in DOMAIN m : File(m, suffix, role, m[role]) \in disk

\* A .sav the native game can see is never part of a save, nor put together from
\* two: whenever the file is there, so are its metadata and its preview, each with
\* the manifest's bytes, and the manifest is a save set the host's disk held at
\* one moment, although the host's game rewrites its files one by one.  The
\* installation renames the .sav last and the rollback unlinks it first, so a
\* crash or a failed rename at any point cannot show half a save
\* (_install_received, the comment at save_sync.py:462).  One case is excepted: the
\* rollback of a call could not unlink its .sav and went on to the other files.
VisibleSaveIsWhole ==
    \A f \in disk : f.role = "save" =>
        /\ f.bundle \in moments /\ f.bytes = f.bundle["save"]
        /\ \/ Whole(f.bundle, f.suffix)
           \/ \E a \in Attempt : /\ "save" \in client[a].kept
                                 /\ client[a].manifest = f.bundle
                                 /\ client[a].suffix = f.suffix

\* The downloads the host counts as successful are not more than the attempts
\* that installed the save, and each slot taken belongs to a transfer under way.
CountedIsInstalled ==
    /\ server.successful <= Cardinality({a \in Attempt : client[a].phase = "done"})
    /\ server.active = Cardinality({a \in Attempt : Serving(a)})

\* Every attempt ends and its handler returns its slot, whatever the host's
\* game does to the files and whichever side fails.
AttemptsEnd ==
    []<>(\A a \in Attempt : client[a].phase = "idle" \/ (Ended(a) /\ ~ Serving(a)))

=============================================================================
