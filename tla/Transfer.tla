------------------------------ MODULE Transfer ------------------------------
(* Layer 1: the chunked file transfer of src-tauri/src/transfer.rs.         *)
(*                                                                          *)
(* One sending Host runs a send task per transfer: it registers the         *)
(* transfer, posts /start, keeps a window of chunk requests in flight with  *)
(* bounded retries, and posts /finish. The receiving Host runs one handler  *)
(* per request. A handler awaits file I/O between the moments it holds the  *)
(* lock on active_file_transfers, so it is split at those awaits. A request *)
(* the sender gave up on may still be handled later, or never.              *)
(*                                                                          *)
(* A transfer's id is the id of a fresh room item, so it is sent once.      *)
(* Chunk contents are identified with chunk indices: the AEAD binds a chunk *)
(* to its transfer and place, and a file's digest matches exactly when all  *)
(* its chunks are on disk.                                                  *)
EXTENDS Integers, FiniteSets, FiniteSetsExt

CONSTANTS
  Transfers,       \* transfer ids, all with the same display name
  NoTransfer,
  N,               \* chunks per file
  Attempts,        \* send_chunk_with_retry: 4 in the code
  Window,          \* chunk requests in flight
  MaxReadFailures, \* bound: source files that cannot be opened or read
  MaxWriteFailures,\* bound: receiver I/O failures
  MaxRestarts,     \* bound: restarts of the receiving Host
  MaxBurns         \* bound: Burns, on either Host

ASSUME TransferAssumption ==
  /\ NoTransfer \notin Transfers
  /\ N \in Nat \ {0} /\ Attempts \in Nat \ {0} /\ Window \in Nat \ {0}
  /\ {MaxReadFailures, MaxWriteFailures, MaxRestarts, MaxBurns} \subseteq Nat

VARIABLES
  send,      \* program counter of a transfer's send task
  item,      \* status of the sender's room item
  sActive,   \* the sender's entry in active_file_transfers
  token,     \* its cancel token
  next,      \* chunks read so far; N + 1 once end of file was read
  tries,     \* attempts made for each chunk (0: not sent)
  acked,     \* chunks whose acknowledgement arrived
  startReq, chunkReq, finishReq,  \* a request, its handler, its answer
  cancels,   \* signed cancels under way to the receiver
  told,      \* terminal-reason notifications under way to the sender
  entry,     \* the receiver's entry in active_file_transfers
  got,       \* its received_chunks
  path,      \* its final path: the number of the inbox name chosen
  part,      \* inode the part path names, or "none"
  disk,      \* chunks an inode holds
  writing,   \* chunk writes handed to the file but not yet on disk
  final,     \* whose file an inbox name holds
  moved,     \* inode renamed to the inbox name
  row,       \* the receiver's room item
  reason,    \* terminal_transfer_reasons
  sBurn, rBurn, \* Burn on the sending and on the receiving Host
  counts

senderVars == <<send, item, sActive, token, next, tries, acked>>
wireVars == <<startReq, chunkReq, finishReq, cancels, told>>
fileVars == <<part, disk, writing, final, moved>>
recvVars == <<entry, got, path, row, reason>>
burnVars == <<sBurn, rBurn>>
vars == <<senderVars, wireVars, fileVars, recvVars, burnVars, counts>>

Chunks == 0..(N - 1)
Tries == 1..Attempts
Names == 1..Cardinality(Transfers)
Inodes == {"first", "again"}  \* the part file, and one a late chunk recreates

Count(k) == [counts EXCEPT ![k] = @ + 1]

-----------------------------------------------------------------------------
(* Shared helpers                                                           *)

(* set_room_item_status: a terminal status never changes; a row a Burn      *)
(* deleted is not written.                                                  *)
SetItem(t, s) ==
  item' = [item EXCEPT ![t] = IF @ = "created" THEN s ELSE @]

(* fail_transfer, finish_sender_terminal, finish_transfer_locally: the send *)
(* task ends, its entry goes, its item gets a terminal status.              *)
EndSend(t, s) ==
  /\ send' = [send EXCEPT ![t] = "ended"]
  /\ sActive' = [sActive EXCEPT ![t] = "no"]
  /\ SetItem(t, s)

(* notify_transfer_cancel and notify_transfer_failed post one signed        *)
(* cancel, best effort.                                                     *)
Notify(t, k) == cancels' = cancels \cup {<<t, k>>}

(* remove_active_receiver_part_file                                         *)
UnlinkPart(t) == part' = [part EXCEPT ![t] = "none"]

InFlight(t) == {c \in Chunks : tries[t][c] > 0 /\ c \notin acked[t]}

-----------------------------------------------------------------------------
(* The send task                                                            *)

(* The checks before admission: the room is not burned, the item exists.    *)
CheckSend(t) ==
  /\ send[t] = "idle" /\ sBurn = "no"
  /\ send' = [send EXCEPT ![t] = "checked"]
  /\ item' = [item EXCEPT ![t] = "created"]
  /\ UNCHANGED <<sActive, token, next, tries, acked, wireVars, fileVars,
                 recvVars, burnVars, counts>>

(* register_sender_transfer, then the start request                         *)
RegisterSend(t) ==
  /\ send[t] = "checked"
  /\ send' = [send EXCEPT ![t] = "start"]
  /\ sActive' = [sActive EXCEPT ![t] = "yes"]
  /\ startReq' = [startReq EXCEPT ![t] = "sent"]
  /\ UNCHANGED <<item, token, next, tries, acked, chunkReq, finishReq, cancels,
                 told, fileVars, recvVars, burnVars, counts>>

StartAccepted(t) ==
  /\ send[t] = "start" /\ startReq[t] = "ok"
  /\ send' = [send EXCEPT ![t] = "chunks"]
  /\ UNCHANGED <<item, sActive, token, next, tries, acked, wireVars, fileVars,
                 recvVars, burnVars, counts>>

(* The file cannot be opened after /start was accepted: the task returns    *)
(* without ending its entry, its item or the receiver's transfer.           *)
OpenFails(t) ==
  /\ send[t] = "start" /\ startReq[t] = "ok"
  /\ counts.reads < MaxReadFailures /\ counts' = Count("reads")
  /\ send' = [send EXCEPT ![t] = "ended"]
  /\ UNCHANGED <<item, sActive, token, next, tries, acked, wireVars, fileVars,
                 recvVars, burnVars>>

(* /start was refused, or no answer came. The receiver is not told.         *)
StartEnds(t) ==
  /\ send[t] = "start"
  /\ \/ startReq[t] = "failed" /\ EndSend(t, "failed")
     \/ startReq[t] # "failed" /\ EndSend(t, "interrupted")
  /\ UNCHANGED <<token, next, tries, acked, wireVars, fileVars, recvVars,
                 burnVars, counts>>

(* sender_room_terminal_state: a room row that is gone counts as no ending. *)
RoomTerminal == sBurn = "cutoff"

MayRead(t) ==
  /\ send[t] = "chunks"
  /\ Cardinality(InFlight(t)) < Window
  /\ next[t] <= N
  /\ token[t] = "live" /\ ~RoomTerminal

(* One pass of the read loop: read, encrypt, push the request.              *)
SendChunk(t) ==
  /\ MayRead(t) /\ next[t] < N
  /\ next' = [next EXCEPT ![t] = @ + 1]
  /\ tries' = [tries EXCEPT ![t][next[t]] = 1]
  /\ chunkReq' = [chunkReq EXCEPT ![t][<<next[t], 1>>] = "sent"]
  /\ UNCHANGED <<send, item, sActive, token, acked, startReq, finishReq,
                 cancels, told, fileVars, recvVars, burnVars, counts>>

ReadEof(t) ==
  /\ MayRead(t) /\ next[t] = N
  /\ next' = [next EXCEPT ![t] = N + 1]
  /\ UNCHANGED <<send, item, sActive, token, tries, acked, wireVars, fileVars,
                 recvVars, burnVars, counts>>

(* A read error, a short read, a changed source: every one notifies the     *)
(* receiver and fails the transfer.                                         *)
SourceFails(t) ==
  /\ send[t] = "chunks" /\ token[t] = "live"
  /\ counts.reads < MaxReadFailures /\ counts' = Count("reads")
  /\ Notify(t, "failed") /\ EndSend(t, "failed")
  /\ UNCHANGED <<token, next, tries, acked, startReq, chunkReq, finishReq, told,
                 fileVars, recvVars, burnVars>>

(* finish_sender_after_chunk_error on a cancelled token                     *)
CancelSend(t) ==
  Notify(t, "cancel") /\ EndSend(t, "cancelled")

(* The read loop meets a cancelled token or a burned room.                  *)
ReadStops(t) ==
  /\ send[t] = "chunks" /\ next[t] <= N
  /\ Cardinality(InFlight(t)) < Window
  /\ \/ token[t] = "cancelled" /\ CancelSend(t)
     \/ /\ token[t] = "live" /\ RoomTerminal
        /\ Notify(t, "failed") /\ EndSend(t, "interrupted")
  /\ UNCHANGED <<token, next, tries, acked, startReq, chunkReq, finishReq, told,
                 fileVars, recvVars, burnVars, counts>>

ChunkAcked(t, c) ==
  /\ send[t] = "chunks" /\ c \in InFlight(t)
  /\ chunkReq[t][<<c, tries[t][c]>>] = "ack"
  /\ acked' = [acked EXCEPT ![t] = @ \cup {c}]
  /\ UNCHANGED <<send, item, sActive, token, next, tries, wireVars, fileVars,
                 recvVars, burnVars, counts>>

(* The attempt timed out or its connection broke, whatever the receiver     *)
(* made of it: the next attempt goes out after the backoff.                 *)
ChunkRetried(t, c) ==
  /\ send[t] = "chunks" /\ c \in InFlight(t) /\ token[t] = "live"
  /\ tries[t][c] < Attempts
  /\ tries' = [tries EXCEPT ![t][c] = @ + 1]
  /\ chunkReq' = [chunkReq EXCEPT ![t][<<c, tries[t][c] + 1>>] = "sent"]
  /\ UNCHANGED <<send, item, sActive, token, next, acked, startReq, finishReq,
                 cancels, told, fileVars, recvVars, burnVars, counts>>

mutant_waits_after_last_attempt(t, c) ==
  /\ send[t] = "chunks" /\ c \in InFlight(t)
  /\ token[t] = "live" /\ chunkReq[t][<<c, tries[t][c]>>] = "left"
  /\ Notify(t, "failed") /\ EndSend(t, "interrupted")
  /\ UNCHANGED <<token, next, tries, acked, startReq, chunkReq, finishReq, told,
                 fileVars, recvVars, burnVars, counts>>

(* A chunk is given up: cancelled, refused, or out of attempts. The other   *)
(* requests in flight are dropped, not recalled.                            *)
ChunkFails(t, c) ==
  /\ send[t] = "chunks" /\ c \in InFlight(t)
  /\ LET answer == chunkReq[t][<<c, tries[t][c]>>] IN
     \/ token[t] = "cancelled" /\ CancelSend(t)
     \/ /\ token[t] = "live" /\ answer \in {"failed", "missing"}
        /\ Notify(t, "failed") /\ EndSend(t, "failed")
     \/ /\ token[t] = "live" /\ answer # "ack"
        /\ answer = "left" \/ tries[t][c] = Attempts
        /\ Notify(t, "failed") /\ EndSend(t, "interrupted")
  /\ UNCHANGED <<token, next, tries, acked, startReq, chunkReq, finishReq, told,
                 fileVars, recvVars, burnVars, counts>>

(* Every chunk read and acknowledged: post /finish with the digest. The     *)
(* cancel token is not read again.                                          *)
SendFinish(t) ==
  /\ send[t] = "chunks" /\ next[t] = N + 1 /\ InFlight(t) = {}
  /\ send' = [send EXCEPT ![t] = "finish"]
  /\ finishReq' = [finishReq EXCEPT ![t] = "sent"]
  /\ UNCHANGED <<item, sActive, token, next, tries, acked, startReq, chunkReq,
                 cancels, told, fileVars, recvVars, burnVars, counts>>

mutant_missing_means_finished(t) ==
  /\ send[t] = "finish"
  /\ \/ finishReq[t] \in {"ok", "missing"} /\ EndSend(t, "sent")
     \/ finishReq[t] \in {"failed", "left"} /\ EndSend(t, "failed")
     \/ EndSend(t, "interrupted")
  /\ UNCHANGED <<token, next, tries, acked, wireVars, fileVars, recvVars,
                 burnVars, counts>>

(* record_successful_finish_before_sender_bookkeeping, or the refusal, or   *)
(* a transport error that leaves the receipt unknown.                       *)
FinishEnds(t) ==
  /\ send[t] = "finish"
  /\ \/ finishReq[t] = "ok" /\ EndSend(t, "sent")
     \/ finishReq[t] \in {"failed", "left"} /\ EndSend(t, "failed")
     \/ EndSend(t, "interrupted")
  /\ UNCHANGED <<token, next, tries, acked, wireVars, fileVars, recvVars,
                 burnVars, counts>>

-----------------------------------------------------------------------------
(* Cancel, cancelled by the peer, and Burn, on the sending Host             *)

(* cancel_transfer for a sender's entry                                     *)
cancel_transfer(t) ==
  /\ sActive[t] = "yes"
  /\ sActive' = [sActive EXCEPT ![t] = "no"]
  /\ token' = [token EXCEPT ![t] = "cancelled"]
  /\ IF sBurn = "no" THEN Notify(t, "cancel") ELSE UNCHANGED cancels
  /\ SetItem(t, "cancelled")
  /\ UNCHANGED <<send, next, tries, acked, startReq, chunkReq, finishReq, told,
                 fileVars, recvVars, burnVars, counts>>

(* cancel_file_transfer_handler at the sender: the receiver's terminal      *)
(* reason.                                                                  *)
PeerEndsTransfer(t) ==
  /\ t \in told
  /\ told' = told \ {t}
  /\ \/ /\ sActive[t] = "yes"
        /\ sActive' = [sActive EXCEPT ![t] = "no"]
        /\ token' = [token EXCEPT ![t] = "cancelled"]
        /\ SetItem(t, "interrupted")
     \/ UNCHANGED <<sActive, token, item>>     \* no entry, or lost
  /\ UNCHANGED <<send, next, tries, acked, startReq, chunkReq, finishReq,
                 cancels, fileVars, recvVars, burnVars, counts>>

(* burn_bridge_scope at the sender: the cutoff is durable first.            *)
SenderBurnCutoff ==
  /\ sBurn = "no" /\ counts.burns < MaxBurns /\ counts' = Count("burns")
  /\ sBurn' = "cutoff"
  /\ UNCHANGED <<senderVars, wireVars, fileVars, recvVars, rBurn>>

(* cancel_room_transfers without notice, then finalize_burned_room          *)
SenderBurnCleanup ==
  /\ sBurn = "cutoff"
  /\ sBurn' = "done"
  /\ token' = [t \in Transfers |->
                 IF sActive[t] = "yes" THEN "cancelled" ELSE token[t]]
  /\ sActive' = [t \in Transfers |-> "no"]
  /\ item' = [t \in Transfers |-> IF item[t] = "none" THEN "none" ELSE "deleted"]
  /\ UNCHANGED <<send, next, tries, acked, wireVars, fileVars, recvVars, rBurn,
                 counts>>

-----------------------------------------------------------------------------
(* start_file_transfer_handler                                              *)

(* next_inbox_path_excluding: the first name that neither exists nor is     *)
(* the final path of a registered receiver.                                 *)
Available == {n \in Names : /\ final[n] = NoTransfer
                            /\ \A u \in Transfers :
                                 ~(entry[u] = "active" /\ path[u] = n)}

FirstName == Min(Available)

(* The checks, and the choice of the final path. A fresh id is never        *)
(* registered yet, so transfer_exists does not arise.                       *)
StartNamed(t) ==
  /\ startReq[t] = "sent"
  /\ \/ /\ rBurn # "no"
        /\ startReq' = [startReq EXCEPT ![t] = "left"]
        /\ UNCHANGED path
     \/ /\ rBurn = "no" /\ entry[t] = "none"
        /\ startReq' = [startReq EXCEPT ![t] = "named"]
        /\ path' = [path EXCEPT ![t] = FirstName]
  /\ UNCHANGED <<senderVars, chunkReq, finishReq, cancels, told, fileVars,
                 entry, got, row, reason, burnVars, counts>>

(* The part file is created empty.                                          *)
StartCreated(t) ==
  /\ startReq[t] = "named"
  /\ startReq' = [startReq EXCEPT ![t] = "created"]
  /\ part' = [part EXCEPT ![t] = "first"]
  /\ UNCHANGED <<senderVars, chunkReq, finishReq, cancels, told, disk, writing,
                 final, moved, recvVars, burnVars, counts>>

StartFails(t) ==
  /\ startReq[t] = "named"
  /\ counts.writes < MaxWriteFailures /\ counts' = Count("writes")
  /\ startReq' = [startReq EXCEPT ![t] = "failed"]
  /\ UNCHANGED <<senderVars, chunkReq, finishReq, cancels, told, fileVars,
                 recvVars, burnVars>>

(* The transfer is registered and /start answered.                          *)
StartRegistered(t) ==
  /\ startReq[t] = "created"
  /\ startReq' = [startReq EXCEPT ![t] = "ok"]
  /\ entry' = [entry EXCEPT ![t] = "active"]
  /\ got' = [got EXCEPT ![t] = {}]
  /\ UNCHANGED <<senderVars, chunkReq, finishReq, cancels, told, fileVars, path,
                 row, reason, burnVars, counts>>

-----------------------------------------------------------------------------
(* receive_file_chunk_handler                                               *)

Answer(t, c, a, r) == chunkReq' = [chunkReq EXCEPT ![t][<<c, a>>] = r]

(* What a request for a transfer without an entry is told:                  *)
(* terminal_transfer_response, else transfer_missing                        *)
Missing(t) == IF reason[t] = "set" THEN "left" ELSE "missing"

(* The first critical section: a known transfer, a chunk not yet received.  *)
(* A repeated chunk is acknowledged without a write.                        *)
ChunkLookup(t, c, a) ==
  /\ chunkReq[t][<<c, a>>] = "sent"
  /\ \/ rBurn # "no" /\ Answer(t, c, a, "left")
     \/ rBurn = "no" /\ entry[t] = "none" /\ Answer(t, c, a, Missing(t))
     \/ /\ rBurn = "no" /\ entry[t] = "active"
        /\ Answer(t, c, a, IF c \in got[t] THEN "ack" ELSE "found")
  /\ UNCHANGED <<senderVars, startReq, finishReq, cancels, told, fileVars,
                 recvVars, burnVars, counts>>

(* write_receiver_chunk opens the part file, creating it for chunk 0 only,  *)
(* and hands the bytes to the file. tokio's File performs the write on      *)
(* another thread and the handler does not flush.                           *)
ChunkWritten(t, c, a) ==
  /\ chunkReq[t][<<c, a>>] = "found"
  /\ \/ /\ part[t] # "none"
        /\ writing' = writing \cup {<<t, c, part[t]>>}
        /\ UNCHANGED <<part, disk>>
     \/ /\ part[t] = "none" /\ c = 0
        /\ part' = [part EXCEPT ![t] = "again"]
        /\ disk' = [disk EXCEPT ![t]["again"] = {}]
        /\ writing' = writing \cup {<<t, c, "again">>}
  /\ Answer(t, c, a, "written")
  /\ UNCHANGED <<senderVars, startReq, finishReq, cancels, told, final, moved,
                 recvVars, burnVars, counts>>

(* The bytes reach the inode, whatever path names it by then.               *)
WriteLands(w) ==
  /\ writing' = writing \ {w}
  /\ disk' = [disk EXCEPT ![w[1]][w[3]] = @ \cup {w[2]}]
  /\ UNCHANGED <<senderVars, wireVars, part, final, moved, recvVars, burnVars,
                 counts>>

(* fail_receiver_transfer: whoever removes the entry removes the part.      *)
FailReceiver(t) ==
  IF entry[t] = "active"
    THEN /\ entry' = [entry EXCEPT ![t] = "none"]
         /\ reason' = [reason EXCEPT ![t] = "set"]
         /\ UnlinkPart(t)
    ELSE UNCHANGED <<entry, reason, part>>

(* The part file is gone (temp_file_disappeared), or the disk refuses.      *)
ChunkWriteFails(t, c, a) ==
  /\ chunkReq[t][<<c, a>>] = "found"
  /\ \/ part[t] = "none" /\ c # 0 /\ UNCHANGED counts
     \/ counts.writes < MaxWriteFailures /\ counts' = Count("writes")
  /\ FailReceiver(t)
  /\ Answer(t, c, a, "failed")
  /\ UNCHANGED <<senderVars, startReq, finishReq, cancels, told, disk, writing,
                 final, moved, got, path, row, burnVars>>

(* The second critical section: the chunk counts as received if the         *)
(* transfer is still registered.                                            *)
ChunkRecorded(t, c, a) ==
  /\ chunkReq[t][<<c, a>>] = "written"
  /\ \/ /\ entry[t] = "active"
        /\ got' = [got EXCEPT ![t] = @ \cup {c}]
        /\ Answer(t, c, a, "ack")
     \/ entry[t] = "none" /\ Answer(t, c, a, Missing(t)) /\ UNCHANGED got
  /\ UNCHANGED <<senderVars, startReq, finishReq, cancels, told, fileVars,
                 entry, path, row, reason, burnVars, counts>>

-----------------------------------------------------------------------------
(* finish_file_transfer_handler                                             *)

FinishGoes(t, from, to) ==
  finishReq[t] = from /\ finishReq' = [finishReq EXCEPT ![t] = to]

FinishOther == <<senderVars, startReq, chunkReq, cancels, told, burnVars>>

(* The entry is taken out: from here the handler alone owns the transfer.   *)
FinishTaken(t) ==
  /\ \/ /\ entry[t] = "active" /\ FinishGoes(t, "sent", "taken")
        /\ entry' = [entry EXCEPT ![t] = "none"]
     \/ /\ entry[t] = "none"
        /\ FinishGoes(t, "sent", IF reason[t] = "none" /\ rBurn # "no"
                                   THEN "burned" ELSE Missing(t))
        /\ UNCHANGED entry
  /\ UNCHANGED <<FinishOther, fileVars, got, path, row, reason, counts>>

(* room_is_burned, then the item id and verify_finalize_metadata            *)
FinishChecked(t) ==
  /\ \/ rBurn # "no" /\ FinishGoes(t, "taken", "burned") /\ UnlinkPart(t)
     \/ /\ rBurn = "no" /\ got[t] # Chunks
        /\ FinishGoes(t, "taken", "failed") /\ UnlinkPart(t)
     \/ /\ rBurn = "no" /\ got[t] = Chunks
        /\ FinishGoes(t, "taken", "checked") /\ UNCHANGED part
  /\ UNCHANGED <<FinishOther, disk, writing, final, moved, recvVars, counts>>

(* part_file_matches_digest reads the part file back.                       *)
DigestMatches(t) == part[t] # "none" /\ disk[t][part[t]] = Chunks

FinishHashed(t) ==
  /\ \/ /\ DigestMatches(t) /\ FinishGoes(t, "checked", "hashed")
        /\ UNCHANGED part
     \/ ~DigestMatches(t) /\ FinishGoes(t, "checked", "failed") /\ UnlinkPart(t)
  /\ UNCHANGED <<FinishOther, disk, writing, final, moved, recvVars, counts>>

FinishRenames(t) ==
  /\ \/ rBurn # "no" /\ FinishGoes(t, "hashed", "burned") /\ UnlinkPart(t)
     \/ rBurn = "no" /\ FinishGoes(t, "hashed", "renaming") /\ UNCHANGED part
  /\ UNCHANGED <<FinishOther, disk, writing, final, moved, recvVars, counts>>

(* rename replaces whatever the final path names.                           *)
FinishRenamed(t) ==
  /\ FinishGoes(t, "renaming", "renamed")
  /\ part[t] # "none"
  /\ moved' = [moved EXCEPT ![t] = part[t]]
  /\ final' = [final EXCEPT ![path[t]] = t]
  /\ UnlinkPart(t)
  /\ UNCHANGED <<FinishOther, disk, writing, recvVars, counts>>

(* abort_receiver_finalize_for_burn after the rename                        *)
UnlinkFinal(t) == final' = [final EXCEPT ![path[t]] = NoTransfer]

mutant_item_before_digest(t) ==
  /\ \/ rBurn # "no" /\ FinishGoes(t, "renamed", "burned") /\ UnlinkFinal(t)
     \/ /\ rBurn = "no" /\ UNCHANGED final
        /\ \/ FinishGoes(t, "renamed", "persisting")
           \/ FinishGoes(t, "checked", "persisting")
  /\ UNCHANGED <<FinishOther, part, disk, writing, moved, recvVars, counts>>

FinishPersists(t) ==
  /\ \/ rBurn # "no" /\ FinishGoes(t, "renamed", "burned") /\ UnlinkFinal(t)
     \/ rBurn = "no" /\ FinishGoes(t, "renamed", "persisting") /\ UNCHANGED final
  /\ UNCHANGED <<FinishOther, part, disk, writing, moved, recvVars, counts>>

mutant_insert_into_burned_room(t) ==
  /\ FinishGoes(t, "persisting", "persisted")
  /\ row' = [row EXCEPT ![t] = "received"]
  /\ UNCHANGED <<FinishOther, fileVars, entry, got, path, reason, counts>>

(* persist_incoming_file_item_metadata; insert_room_item refuses a burned   *)
(* room. Any other failure answers 500 and leaves the renamed file.         *)
FinishPersisted(t) ==
  /\ \/ /\ rBurn = "no" /\ FinishGoes(t, "persisting", "persisted")
        /\ row' = [row EXCEPT ![t] = "received"]
        /\ UNCHANGED <<final, counts>>
     \/ /\ rBurn # "no" /\ FinishGoes(t, "persisting", "burned")
        /\ UnlinkFinal(t) /\ UNCHANGED <<row, counts>>
     \/ /\ rBurn = "no" /\ FinishGoes(t, "persisting", "failed")
        /\ counts.writes < MaxWriteFailures /\ counts' = Count("writes")
        /\ UNCHANGED <<final, row>>
  /\ UNCHANGED <<FinishOther, part, disk, writing, moved, entry, got, path,
                 reason>>

FinishAnswered(t) ==
  /\ \/ rBurn # "no" /\ FinishGoes(t, "persisted", "burned") /\ UnlinkFinal(t)
     \/ rBurn = "no" /\ FinishGoes(t, "persisted", "ok") /\ UNCHANGED final
  /\ UNCHANGED <<FinishOther, part, disk, writing, moved, recvVars, counts>>

(* The rename or the digest's file access fails.                            *)
FinishFails(t) ==
  /\ counts.writes < MaxWriteFailures /\ counts' = Count("writes")
  /\ \/ FinishGoes(t, "checked", "failed")
     \/ FinishGoes(t, "renaming", "failed")
  /\ UnlinkPart(t)
  /\ UNCHANGED <<FinishOther, disk, writing, final, moved, recvVars>>

-----------------------------------------------------------------------------
(* Cancel, leaving, Burn and restart on the receiving Host                  *)

mutant_cancel_keeps_entry(t, k) ==
  /\ <<t, k>> \in cancels
  /\ cancels' = cancels \ {<<t, k>>}
  /\ entry[t] = "active" /\ UnlinkPart(t)
  /\ UNCHANGED <<senderVars, startReq, chunkReq, finishReq, told, disk, writing,
                 final, moved, recvVars, burnVars, counts>>

mutant_cancel_removes_any_part(t, k) ==
  /\ <<t, k>> \in cancels
  /\ cancels' = cancels \ {<<t, k>>}
  /\ entry' = [entry EXCEPT ![t] = "none"] /\ UnlinkPart(t)
  /\ UNCHANGED <<senderVars, startReq, chunkReq, finishReq, told, disk, writing,
                 final, moved, got, path, row, reason, burnVars, counts>>

(* cancel_file_transfer_handler at the receiver; the cancel may be lost.    *)
CancelArrives(t, k) ==
  /\ <<t, k>> \in cancels
  /\ cancels' = cancels \ {<<t, k>>}
  /\ \/ /\ entry[t] = "active"
        /\ entry' = [entry EXCEPT ![t] = "none"] /\ UnlinkPart(t)
     \/ UNCHANGED <<entry, part>>     \* no entry, or lost
  /\ UNCHANGED <<senderVars, startReq, chunkReq, finishReq, told, disk, writing,
                 final, moved, got, path, row, reason, burnVars, counts>>

(* cancel_transfer for a receiver's entry                                   *)
ReceiverCancels(t) ==
  /\ entry[t] = "active"
  /\ entry' = [entry EXCEPT ![t] = "none"]
  /\ reason' = [reason EXCEPT ![t] = "set"]
  /\ UnlinkPart(t)
  /\ told' = IF rBurn = "no" THEN told \cup {t} ELSE told
  /\ UNCHANGED <<senderVars, startReq, chunkReq, finishReq, cancels, disk,
                 writing, final, moved, got, path, row, burnVars, counts>>

(* cancel_room_transfers without notice to the peer                         *)
cancel_room_transfers ==
  /\ entry' = [t \in Transfers |-> "none"]
  /\ part' = [t \in Transfers |-> IF entry[t] = "active" THEN "none" ELSE part[t]]

(* stop_room_server when the Bridge is left                                 *)
LeaveRoom ==
  /\ rBurn = "no" /\ \E t \in Transfers : entry[t] = "active"
  /\ cancel_room_transfers
  /\ reason' = [t \in Transfers |->
                  IF entry[t] = "active" THEN "set" ELSE reason[t]]
  /\ UNCHANGED <<senderVars, wireVars, disk, writing, final, moved, got, path,
                 row, burnVars, counts>>

(* purge_terminal_transfer_reasons after TERMINAL_TRANSFER_REASON_TTL       *)
ReasonExpires(t) ==
  /\ reason[t] = "set"
  /\ reason' = [reason EXCEPT ![t] = "none"]
  /\ UNCHANGED <<senderVars, wireVars, fileVars, entry, got, path, row,
                 burnVars, counts>>

(* cut_off_bridge_authority                                                 *)
BurnCutoff ==
  /\ rBurn = "no" /\ counts.burns < MaxBurns /\ counts' = Count("burns")
  /\ rBurn' = "cutoff"
  /\ UNCHANGED <<senderVars, wireVars, fileVars, recvVars, sBurn>>

(* stop_room_server, cancel_room_transfers, clear_terminal_transfer_reasons *)
BurnCancels ==
  /\ rBurn = "cutoff"
  /\ rBurn' = "cancelled"
  /\ cancel_room_transfers
  /\ reason' = [t \in Transfers |-> "none"]
  /\ UNCHANGED <<senderVars, wireVars, disk, writing, final, moved, got, path,
                 row, sBurn, counts>>

(* finalize_burned_room: delete_room_files removes the part file of every   *)
(* item that has a row, then the rows go. Inbox files stay.                 *)
finalize_burned_room ==
  /\ part' = [t \in Transfers |-> IF row[t] = "received" THEN "none" ELSE part[t]]
  /\ row' = [t \in Transfers |-> "none"]

BurnFinalizes ==
  /\ rBurn = "cancelled"
  /\ rBurn' = "done"
  /\ finalize_burned_room
  /\ UNCHANGED <<senderVars, wireVars, disk, writing, final, moved, entry, got,
                 path, reason, sBurn, counts>>

(* The receiving Host stops and starts again: handlers, entries and pending *)
(* writes are gone, cleanup_stale_part_files removes part files, and a cut  *)
(* off room is finalized.                                                   *)
Handled == {"ok", "failed", "left", "missing", "burned", "ack", "none"}

Lose(r) == IF r \in Handled THEN r ELSE "lost"

Restart ==
  /\ counts.restarts < MaxRestarts /\ counts' = Count("restarts")
  /\ startReq' = [t \in Transfers |-> Lose(startReq[t])]
  /\ chunkReq' = [t \in Transfers |-> [k \in Chunks \X Tries |-> Lose(chunkReq[t][k])]]
  /\ finishReq' = [t \in Transfers |-> Lose(finishReq[t])]
  /\ entry' = [t \in Transfers |-> "none"]
  /\ reason' = [t \in Transfers |-> "none"]
  /\ part' = [t \in Transfers |-> "none"]
  /\ writing' = {}
  /\ rBurn' = IF rBurn = "no" THEN "no" ELSE "done"
  /\ row' = IF rBurn = "no" THEN row ELSE [t \in Transfers |-> "none"]
  /\ UNCHANGED <<senderVars, cancels, told, disk, final, moved, got, path, sBurn>>

-----------------------------------------------------------------------------
Init ==
  /\ send = [t \in Transfers |-> "idle"]
  /\ item = [t \in Transfers |-> "none"]
  /\ sActive = [t \in Transfers |-> "no"]
  /\ token = [t \in Transfers |-> "live"]
  /\ next = [t \in Transfers |-> 0]
  /\ tries = [t \in Transfers |-> [c \in Chunks |-> 0]]
  /\ acked = [t \in Transfers |-> {}]
  /\ startReq = [t \in Transfers |-> "none"]
  /\ chunkReq = [t \in Transfers |-> [k \in Chunks \X Tries |-> "none"]]
  /\ finishReq = [t \in Transfers |-> "none"]
  /\ cancels = {} /\ told = {}
  /\ entry = [t \in Transfers |-> "none"]
  /\ got = [t \in Transfers |-> {}]
  /\ path = [t \in Transfers |-> 0]
  /\ part = [t \in Transfers |-> "none"]
  /\ disk = [t \in Transfers |-> [i \in Inodes |-> {}]]
  /\ writing = {}
  /\ final = [n \in Names |-> NoTransfer]
  /\ moved = [t \in Transfers |-> "none"]
  /\ row = [t \in Transfers |-> "none"]
  /\ reason = [t \in Transfers |-> "none"]
  /\ sBurn = "no" /\ rBurn = "no"
  /\ counts = [reads |-> 0, writes |-> 0, restarts |-> 0, burns |-> 0]

SendTask(t) ==
  \/ CheckSend(t) \/ RegisterSend(t) \/ StartAccepted(t) \/ OpenFails(t)
  \/ StartEnds(t) \/ SendChunk(t) \/ ReadEof(t) \/ SourceFails(t)
  \/ ReadStops(t) \/ SendFinish(t) \/ FinishEnds(t)
  \/ \E c \in Chunks : ChunkAcked(t, c) \/ ChunkRetried(t, c) \/ ChunkFails(t, c)

ReceiverHandlers(t) ==
  \/ StartNamed(t) \/ StartCreated(t) \/ StartFails(t) \/ StartRegistered(t)
  \/ \E c \in Chunks, a \in Tries :
       \/ ChunkLookup(t, c, a) \/ ChunkWritten(t, c, a)
       \/ ChunkWriteFails(t, c, a) \/ ChunkRecorded(t, c, a)
  \/ FinishTaken(t) \/ FinishChecked(t) \/ FinishHashed(t) \/ FinishRenames(t)
  \/ FinishRenamed(t) \/ FinishPersists(t) \/ FinishPersisted(t)
  \/ FinishAnswered(t) \/ FinishFails(t)

Next ==
  \/ \E t \in Transfers :
       \/ SendTask(t) \/ ReceiverHandlers(t)
       \/ cancel_transfer(t) \/ PeerEndsTransfer(t)
       \/ ReceiverCancels(t) \/ ReasonExpires(t)
       \/ \E k \in {"cancel", "failed"} : CancelArrives(t, k)
  \/ \E w \in writing : WriteLands(w)
  \/ SenderBurnCutoff \/ SenderBurnCleanup
  \/ LeaveRoom \/ BurnCutoff \/ BurnCancels \/ BurnFinalizes \/ Restart

Spec == Init /\ [][Next]_vars

(* The send task keeps taking steps: every request it waits for has a       *)
(* timeout, every chunk a bounded number of attempts.                       *)
LiveSpec ==
  /\ Spec
  /\ \A t \in Transfers :
       /\ WF_vars(RegisterSend(t)) /\ WF_vars(StartEnds(t) \/ StartAccepted(t))
       /\ WF_vars(SendChunk(t) \/ ReadEof(t) \/ ReadStops(t))
       /\ WF_vars(SendFinish(t)) /\ WF_vars(FinishEnds(t))
       /\ \A c \in Chunks :
            WF_vars(ChunkAcked(t, c) \/ ChunkRetried(t, c) \/ ChunkFails(t, c))

-----------------------------------------------------------------------------
(* Properties                                                               *)

Whole(t) == moved[t] # "none" /\ disk[t][moved[t]] = Chunks

(* An item the sender shows as sent was finalized by the receiver with      *)
(* every byte on disk, whatever retries, late handlers, cancels and Burns   *)
(* happened on the way (transfer.rs:1358-1372 against 4244-4640).           *)
SentMeansDelivered ==
  \A t \in Transfers : item[t] = "sent" => Whole(t) /\ finishReq[t] = "ok"

(* A received item's file is complete even though chunks are acknowledged   *)
(* before their bytes are on disk (write_receiver_chunk does not flush):    *)
(* the digest at finalization is what guarantees it.                        *)
ReceivedIsWhole ==
  \A t \in Transfers : row[t] = "received" => Whole(t)

(* A chunk counted as received is on disk, or on its way, in the inode that *)
(* finalization will hash; no cancel, failure or repeated request takes it  *)
(* away from a transfer that is still registered.                           *)
ReceivedChunksWritten ==
  \A t \in Transfers : entry[t] = "active" =>
    \A c \in got[t] : /\ part[t] # "none"
                      /\ c \in disk[t][part[t]] \/ <<t, c, part[t]>> \in writing

(* Once finalization took the entry, no other handler removes the part file *)
(* or the bytes the digest was computed over, up to the rename.             *)
FinishOwnsPart ==
  \A t \in Transfers :
    /\ finishReq[t] \in {"taken", "checked", "hashed", "renaming"} => part[t] = "first"
    /\ finishReq[t] \in {"hashed", "renaming"} => disk[t]["first"] = Chunks

(* After a Burn has finished, no received item of the room exists, whatever *)
(* finalization was in progress when it began.                              *)
BurnLeavesNoItem ==
  rBurn = "done" => \A t \in Transfers : row[t] = "none"

(* Every send task that registered ends: timeouts and the attempt limit     *)
(* bound every wait (send_chunk_with_retry, TRANSFER_REQUEST_TIMEOUT).      *)
SendEnds ==
  \A t \in Transfers : send[t] = "start" ~> send[t] = "ended"

(* inbox_path_excludes_active_reserved_final_paths: transfers landing at    *)
(* the same time have different inbox names.                                *)
LandingNamesDiffer ==
  \A t, u \in Transfers :
    /\ t # u
    /\ {entry[t], finishReq[t]} \cap {"active", "taken", "checked", "hashed",
                                      "renaming", "renamed"} # {}
    /\ {entry[u], finishReq[u]} \cap {"active", "taken", "checked", "hashed",
                                      "renaming", "renamed"} # {}
    => path[t] # path[u]
=============================================================================
