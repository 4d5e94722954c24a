------------------------ MODULE TransferStepProofs --------------------------
(***************************************************************************)
(* The inductive invariant of Transfer.  The steps of the sender (the send *)
(* task, its answers, cancel_transfer) and of the receiver's start and     *)
(* finish handlers up to the rename keep it.                               *)
(***************************************************************************)
EXTENDS Transfer, TLAPS

ChunkStates == {"none", "sent", "found", "written", "ack", "failed", "missing",
                "left", "lost"}

(* The types the argument needs; inbox names play no part in it.           *)
ChunkReqType == chunkReq \in [Transfers -> [Chunks \X Tries -> ChunkStates]]

DiskType ==
  /\ disk \in [Transfers -> [Inodes -> SUBSET Chunks]]
  /\ writing \subseteq Transfers \X Chunks \X Inodes

SimpleTypes ==
  /\ send \in [Transfers -> {"idle", "checked", "start", "chunks", "finish",
                             "ended"}]
  /\ item \in [Transfers -> {"none", "created", "sent", "failed", "cancelled",
                             "interrupted", "deleted"}]
  /\ startReq \in [Transfers -> {"none", "sent", "named", "created", "ok",
                                 "failed", "left", "lost"}]
  /\ finishReq \in [Transfers -> {"none", "sent", "taken", "checked", "hashed",
                                  "renaming", "renamed", "persisting",
                                  "persisted", "ok", "failed", "left",
                                  "missing", "burned", "lost"}]
  /\ entry \in [Transfers -> {"none", "active"}]
  /\ got \in [Transfers -> SUBSET Chunks]
  /\ part \in [Transfers -> Inodes \cup {"none"}]
  /\ moved \in [Transfers -> Inodes \cup {"none"}]
  /\ row \in [Transfers -> {"none", "received"}]

Types == SimpleTypes /\ ChunkReqType /\ DiskType

(* How far the send task is bounds what can be on the wire.                *)
WireOK(t) ==
  /\ send[t] \in {"idle", "checked"} => startReq[t] = "none"
  /\ send[t] = "chunks" => startReq[t] = "ok"
  /\ send[t] \notin {"finish", "ended"} => finishReq[t] = "none"
                                           /\ item[t] # "sent"
  /\ startReq[t] = "created" => part[t] = "first"
  /\ startReq[t] # "ok" => entry[t] = "none" /\ finishReq[t] = "none"

(* No chunk is sent before /start was accepted.                            *)
QuietOK(t) ==
  startReq[t] # "ok" => \A k \in Chunks \X Tries : chunkReq[t][k] = "none"

(* The part file belongs to the registered transfer, then to its           *)
(* finalization; from the digest on, the first inode is complete.          *)
FileOK(t) ==
  /\ entry[t] = "active" => part[t] = "first" /\ finishReq[t] \in {"none", "sent"}
  /\ finishReq[t] \in {"taken", "checked", "hashed", "renaming"} => part[t] = "first"
  /\ finishReq[t] \in {"hashed", "renaming"} => disk[t]["first"] = Chunks
  /\ finishReq[t] \in {"renamed", "persisting", "persisted", "ok"} => moved[t] = "first"
  /\ row[t] = "received" =>
       moved[t] = "first" /\ finishReq[t] \in {"persisted", "ok", "burned", "lost"}
  /\ moved[t] # "none" => moved[t] = "first" /\ disk[t]["first"] = Chunks
  /\ item[t] = "sent" => finishReq[t] = "ok"

(* A chunk that was written for a registered transfer is on disk or under  *)
(* way, before and after it counts as received.                            *)
Stored(t, c) == c \in disk[t]["first"] \/ <<t, c, "first">> \in writing

ChunksOK(t) ==
  entry[t] = "active" =>
    /\ \A c \in got[t] : Stored(t, c)
    /\ \A c \in Chunks, a \in Tries :
         chunkReq[t][<<c, a>>] = "written" => Stored(t, c)

IInv ==
  /\ Types
  /\ \A t \in Transfers : WireOK(t) /\ QuietOK(t) /\ FileOK(t) /\ ChunksOK(t)
  /\ BurnLeavesNoItem

-----------------------------------------------------------------------------
(* Before any send, nothing is on the wire or on disk.                     *)
LEMMA Initially == Init => IInv
  BY DEF Init, IInv, Types, SimpleTypes, ChunkReqType, DiskType, ChunkStates,
     WireOK, QuietOK, FileOK, ChunksOK, Stored, BurnLeavesNoItem, Inodes

(* The tables have an entry for every transfer.                            *)
LEMMA Domains ==
  SimpleTypes =>
    /\ DOMAIN send = Transfers /\ DOMAIN item = Transfers /\ DOMAIN startReq = Transfers
    /\ DOMAIN finishReq = Transfers /\ DOMAIN entry = Transfers /\ DOMAIN got = Transfers
    /\ DOMAIN part = Transfers /\ DOMAIN moved = Transfers /\ DOMAIN row = Transfers
  BY Zenon DEF SimpleTypes

SetRequest(t, k, r) == chunkReq' = [chunkReq EXCEPT ![t][k] = r]

(* One chunk request changes state and the others stay as they are.        *)
LEMMA OneRequest ==
  ASSUME ChunkReqType, NEW t \in Transfers, NEW k, NEW r \in ChunkStates,
         SetRequest(t, k, r)
  PROVE  /\ ChunkReqType'
         /\ \A u \in Transfers, l \in Chunks \X Tries :
              chunkReq'[u][l] = IF u = t /\ l = k THEN r ELSE chunkReq[u][l]
<1>1. chunkReq' = [chunkReq EXCEPT ![t] = [chunkReq[t] EXCEPT ![k] = r]]
  BY Zenon DEF ChunkReqType, SetRequest
<1>2. [chunkReq[t] EXCEPT ![k] = r] \in [Chunks \X Tries -> ChunkStates]
  BY Zenon DEF ChunkReqType
<1>3. ChunkReqType'
  BY <1>1, <1>2, Zenon DEF ChunkReqType
<1>4. ASSUME NEW u \in Transfers, NEW l \in Chunks \X Tries
      PROVE  chunkReq'[u][l] = IF u = t /\ l = k THEN r ELSE chunkReq[u][l]
  <2>1. CASE u = t
    BY Zenon, <1>1, <2>1 DEF ChunkReqType
  <2>2. CASE u # t
    BY Zenon, <1>1, <2>2 DEF ChunkReqType
  <2>3. QED
    BY Zenon, <2>1, <2>2
<1>5. QED
  BY Zenon, <1>3, <1>4

(* CheckSend keeps the invariant. *)
LEMMA StepCheckSend ==
  ASSUME IInv, NEW t \in Transfers, CheckSend(t)
  PROVE  IInv'
<1> SimpleTypes /\ ChunkReqType /\ DiskType
  BY Zenon DEF IInv, Types
<1> UNCHANGED <<startReq, chunkReq, finishReq, entry, got, part, disk,
   writing, moved, row, rBurn>>
  BY Zenon DEF CheckSend, senderVars, wireVars, fileVars, recvVars, burnVars
<1>1. SimpleTypes'
  BY Zenon DEF CheckSend, SimpleTypes, Inodes
<1>2. ChunkReqType' /\ DiskType'
  BY Zenon DEF ChunkReqType, DiskType
<1>3. ASSUME NEW u \in Transfers
      PROVE  WireOK(u)' /\ QuietOK(u)' /\ FileOK(u)' /\ ChunksOK(u)'
  <2> WireOK(u) /\ QuietOK(u) /\ FileOK(u) /\ ChunksOK(u)
    BY Zenon DEF IInv
  <2>1. CASE u # t
    <3> /\ send'[u] = send[u]
        /\ item'[u] = item[u]
      BY Zenon, <2>1, Domains DEF CheckSend
    <3> QED
      BY Zenon DEF WireOK, QuietOK, FileOK, ChunksOK, Stored
  <2>2. CASE u = t
    <3>1. WireOK(u)'
      BY Zenon, <2>2 DEF CheckSend, SimpleTypes, Inodes, WireOK, FileOK
    <3>2. FileOK(u)'
      BY Zenon, <2>2 DEF CheckSend, SimpleTypes, Inodes, WireOK, FileOK
    <3>3. QuietOK(u)' /\ ChunksOK(u)'
      BY Zenon DEF QuietOK, ChunksOK, Stored
    <3> QED
      BY Zenon, <3>1, <3>2, <3>3
  <2> QED
    BY Zenon, <2>1, <2>2
<1>4. BurnLeavesNoItem'
  BY Zenon DEF IInv, BurnLeavesNoItem
<1> QED
  BY Zenon, <1>1, <1>2, <1>3, <1>4 DEF IInv, Types

(* RegisterSend keeps the invariant. *)
LEMMA StepRegisterSend ==
  ASSUME IInv, NEW t \in Transfers, RegisterSend(t)
  PROVE  IInv'
<1> SimpleTypes /\ ChunkReqType /\ DiskType
  BY Zenon DEF IInv, Types
<1> UNCHANGED <<item, chunkReq, finishReq, entry, got, part, disk, writing,
   moved, row, rBurn>>
  BY Zenon DEF RegisterSend, senderVars, wireVars, fileVars, recvVars, burnVars
<1>1. SimpleTypes'
  BY Zenon DEF RegisterSend, SimpleTypes, Inodes
<1>2. ChunkReqType' /\ DiskType'
  BY Zenon DEF ChunkReqType, DiskType
<1>3. ASSUME NEW u \in Transfers
      PROVE  WireOK(u)' /\ QuietOK(u)' /\ FileOK(u)' /\ ChunksOK(u)'
  <2> WireOK(u) /\ QuietOK(u) /\ FileOK(u) /\ ChunksOK(u)
    BY Zenon DEF IInv
  <2>1. CASE u # t
    <3> /\ send'[u] = send[u]
        /\ startReq'[u] = startReq[u]
      BY Zenon, <2>1, Domains DEF RegisterSend
    <3> QED
      BY Zenon DEF WireOK, QuietOK, FileOK, ChunksOK, Stored
  <2>2. CASE u = t
    <3>1. WireOK(u)'
      BY Zenon, <2>2 DEF RegisterSend, SimpleTypes, Inodes, WireOK, FileOK
    <3>2. QuietOK(u)'
      <4> startReq'[u] # "ok" => startReq[u] # "ok"
        BY Zenon, <2>2 DEF RegisterSend, SimpleTypes, WireOK
      <4> QED
        BY Zenon DEF QuietOK
    <3>3. FileOK(u)' /\ ChunksOK(u)'
      BY Zenon DEF FileOK, ChunksOK, Stored
    <3> QED
      BY Zenon, <3>1, <3>2, <3>3
  <2> QED
    BY Zenon, <2>1, <2>2
<1>4. BurnLeavesNoItem'
  BY Zenon DEF IInv, BurnLeavesNoItem
<1> QED
  BY Zenon, <1>1, <1>2, <1>3, <1>4 DEF IInv, Types

(* StartAccepted keeps the invariant. *)
LEMMA StepStartAccepted ==
  ASSUME IInv, NEW t \in Transfers, StartAccepted(t)
  PROVE  IInv'
<1> SimpleTypes /\ ChunkReqType /\ DiskType
  BY Zenon DEF IInv, Types
<1> UNCHANGED <<item, startReq, chunkReq, finishReq, entry, got, part, disk,
   writing, moved, row, rBurn>>
  BY Zenon DEF StartAccepted, senderVars, wireVars, fileVars, recvVars, burnVars
<1>1. SimpleTypes'
  BY Zenon DEF StartAccepted, SimpleTypes, Inodes
<1>2. ChunkReqType' /\ DiskType'
  BY Zenon DEF ChunkReqType, DiskType
<1>3. ASSUME NEW u \in Transfers
      PROVE  WireOK(u)' /\ QuietOK(u)' /\ FileOK(u)' /\ ChunksOK(u)'
  <2> WireOK(u) /\ QuietOK(u) /\ FileOK(u) /\ ChunksOK(u)
    BY Zenon DEF IInv
  <2>1. CASE u # t
    <3> /\ send'[u] = send[u]
      BY Zenon, <2>1, Domains DEF StartAccepted
    <3> QED
      BY Zenon DEF WireOK, QuietOK, FileOK, ChunksOK, Stored
  <2>2. CASE u = t
    <3>1. WireOK(u)'
      BY Zenon, <2>2 DEF StartAccepted, SimpleTypes, Inodes, WireOK, FileOK
    <3>2. QuietOK(u)' /\ FileOK(u)' /\ ChunksOK(u)'
      BY Zenon DEF QuietOK, FileOK, ChunksOK, Stored
    <3> QED
      BY Zenon, <3>1, <3>2
  <2> QED
    BY Zenon, <2>1, <2>2
<1>4. BurnLeavesNoItem'
  BY Zenon DEF IInv, BurnLeavesNoItem
<1> QED
  BY Zenon, <1>1, <1>2, <1>3, <1>4 DEF IInv, Types

(* OpenFails keeps the invariant. *)
LEMMA StepOpenFails ==
  ASSUME IInv, NEW t \in Transfers, OpenFails(t)
  PROVE  IInv'
<1> SimpleTypes /\ ChunkReqType /\ DiskType
  BY Zenon DEF IInv, Types
<1> UNCHANGED <<item, startReq, chunkReq, finishReq, entry, got, part, disk,
   writing, moved, row, rBurn>>
  BY Zenon DEF OpenFails, Count, senderVars, wireVars, fileVars, recvVars,
     burnVars
<1>1. SimpleTypes'
  BY Zenon DEF OpenFails, SimpleTypes, Inodes
<1>2. ChunkReqType' /\ DiskType'
  BY Zenon DEF ChunkReqType, DiskType
<1>3. ASSUME NEW u \in Transfers
      PROVE  WireOK(u)' /\ QuietOK(u)' /\ FileOK(u)' /\ ChunksOK(u)'
  <2> WireOK(u) /\ QuietOK(u) /\ FileOK(u) /\ ChunksOK(u)
    BY Zenon DEF IInv
  <2>1. CASE u # t
    <3> /\ send'[u] = send[u]
      BY Zenon, <2>1, Domains DEF OpenFails
    <3> QED
      BY Zenon DEF WireOK, QuietOK, FileOK, ChunksOK, Stored
  <2>2. CASE u = t
    <3>1. WireOK(u)'
      BY Zenon, <2>2 DEF OpenFails, SimpleTypes, Inodes, WireOK, FileOK
    <3>2. QuietOK(u)' /\ FileOK(u)' /\ ChunksOK(u)'
      BY Zenon DEF QuietOK, FileOK, ChunksOK, Stored
    <3> QED
      BY Zenon, <3>1, <3>2
  <2> QED
    BY Zenon, <2>1, <2>2
<1>4. BurnLeavesNoItem'
  BY Zenon DEF IInv, BurnLeavesNoItem
<1> QED
  BY Zenon, <1>1, <1>2, <1>3, <1>4 DEF IInv, Types

(* StartEnds keeps the invariant. *)
LEMMA StepStartEnds ==
  ASSUME IInv, NEW t \in Transfers, StartEnds(t)
  PROVE  IInv'
<1> SimpleTypes /\ ChunkReqType /\ DiskType
  BY Zenon DEF IInv, Types
<1> UNCHANGED <<startReq, chunkReq, finishReq, entry, got, part, disk,
   writing, moved, row, rBurn>>
  BY Zenon DEF StartEnds, EndSend, SetItem, senderVars, wireVars, fileVars,
     recvVars, burnVars
<1>0. PICK s \in {"failed", "cancelled", "interrupted"} : EndSend(t, s)
  BY Zenon DEF StartEnds
<1> EndSend(t, s) /\ s # "sent"
  BY Zenon, <1>0
<1>1. SimpleTypes'
  BY Zenon DEF EndSend, SetItem, SimpleTypes, Inodes
<1>2. ChunkReqType' /\ DiskType'
  BY Zenon DEF ChunkReqType, DiskType
<1>3. ASSUME NEW u \in Transfers
      PROVE  WireOK(u)' /\ QuietOK(u)' /\ FileOK(u)' /\ ChunksOK(u)'
  <2> WireOK(u) /\ QuietOK(u) /\ FileOK(u) /\ ChunksOK(u)
    BY Zenon DEF IInv
  <2>1. CASE u # t
    <3> /\ send'[u] = send[u]
        /\ item'[u] = item[u]
      BY Zenon, <2>1, Domains DEF EndSend, SetItem
    <3> QED
      BY Zenon DEF WireOK, QuietOK, FileOK, ChunksOK, Stored
  <2>2. CASE u = t
    <3>1. WireOK(u)'
      BY Zenon, <2>2 DEF EndSend, SetItem, SimpleTypes, Inodes, WireOK, FileOK
    <3>2. FileOK(u)'
      BY Zenon, <2>2 DEF EndSend, SetItem, SimpleTypes, Inodes, WireOK, FileOK
    <3>3. QuietOK(u)' /\ ChunksOK(u)'
      BY Zenon DEF QuietOK, ChunksOK, Stored
    <3> QED
      BY Zenon, <3>1, <3>2, <3>3
  <2> QED
    BY Zenon, <2>1, <2>2
<1>4. BurnLeavesNoItem'
  BY Zenon DEF IInv, BurnLeavesNoItem
<1> QED
  BY Zenon, <1>1, <1>2, <1>3, <1>4 DEF IInv, Types

(* SendChunk keeps the invariant. *)
LEMMA StepSendChunk ==
  ASSUME IInv, NEW t \in Transfers, SendChunk(t)
  PROVE  IInv'
<1> SimpleTypes /\ ChunkReqType /\ DiskType
  BY Zenon DEF IInv, Types
<1> UNCHANGED <<send, item, startReq, finishReq, entry, got, part, disk,
   writing, moved, row, rBurn>>
  BY Zenon DEF SendChunk, MayRead, senderVars, wireVars, fileVars, recvVars,
     burnVars
<1>r. PICK r \in {"sent"} : SetRequest(t, <<next[t], 1>>, r)
  BY Zenon DEF SendChunk, SetRequest
<1>m. r \in ChunkStates
  BY Zenon DEF ChunkStates
<1>e. /\ ChunkReqType'
      /\ \A u \in Transfers, l \in Chunks \X Tries :
           chunkReq'[u][l] = IF u = t /\ l = <<next[t], 1>> THEN r ELSE chunkReq[u][l]
  BY <1>r, <1>m, OneRequest
<1>l. startReq[t] = "ok"
  BY Zenon DEF IInv, WireOK, SendChunk, MayRead
<1>n. \A u \in Transfers, l \in Chunks \X Tries :
        chunkReq'[u][l] = "written" => chunkReq[u][l] = "written"
  BY Zenon, <1>e
<1>t. \A u \in Transfers, b \in Chunks : Stored(u, b) => Stored(u, b)'
  BY Zenon DEF Stored
<1>1. ChunkReqType'
  BY Zenon, <1>e
<1>2. SimpleTypes' /\ DiskType'
  BY Zenon DEF SimpleTypes, DiskType
<1>3. ASSUME NEW u \in Transfers
      PROVE  WireOK(u)' /\ QuietOK(u)' /\ FileOK(u)' /\ ChunksOK(u)'
  <2> WireOK(u) /\ QuietOK(u) /\ FileOK(u) /\ ChunksOK(u)
    BY Zenon DEF IInv
  <2>1. QuietOK(u)'
    BY Zenon, <1>e, <1>l DEF QuietOK
  <2>2. ChunksOK(u)'
    <3>1. ASSUME entry[u] = "active", NEW b \in Chunks, NEW e \in Tries,
                 chunkReq'[u][<<b, e>>] = "written"
          PROVE  Stored(u, b)'
      <4>1. <<b, e>> \in Chunks \X Tries
        BY Zenon
      <4>2. chunkReq[u][<<b, e>>] = "written"
        BY <1>n, <3>1, <4>1, Zenon
      <4> QED
        BY <1>t, <3>1, <4>2, Zenon DEF ChunksOK
    <3>2. ASSUME entry[u] = "active", NEW b \in got[u] PROVE Stored(u, b)'
      <4>1. b \in Chunks
        BY Zenon DEF SimpleTypes
      <4> QED
        BY <1>t, <3>2, <4>1, Zenon DEF ChunksOK
    <3> QED
      BY <3>1, <3>2, Zenon DEF ChunksOK
  <2>3. WireOK(u)' /\ FileOK(u)'
    BY Zenon DEF WireOK, FileOK
  <2> QED
    BY Zenon, <2>1, <2>2, <2>3
<1>4. BurnLeavesNoItem'
  BY Zenon DEF IInv, BurnLeavesNoItem
<1> QED
  BY Zenon, <1>1, <1>2, <1>3, <1>4 DEF IInv, Types

(* ReadEof keeps the invariant. *)
LEMMA StepReadEof ==
  ASSUME IInv, NEW t \in Transfers, ReadEof(t)
  PROVE  IInv'
<1> SimpleTypes /\ ChunkReqType /\ DiskType
  BY Zenon DEF IInv, Types
<1> UNCHANGED <<send, item, startReq, chunkReq, finishReq, entry, got, part,
   disk, writing, moved, row, rBurn>>
  BY Zenon DEF ReadEof, MayRead, senderVars, wireVars, fileVars, recvVars,
     burnVars
<1>1. SimpleTypes' /\ ChunkReqType' /\ DiskType'
  BY Zenon DEF SimpleTypes, ChunkReqType, DiskType
<1>2. ASSUME NEW u \in Transfers
      PROVE  WireOK(u)' /\ QuietOK(u)' /\ FileOK(u)' /\ ChunksOK(u)'
  <2> WireOK(u) /\ QuietOK(u) /\ FileOK(u) /\ ChunksOK(u)
    BY Zenon DEF IInv
  <2> QED
    BY Zenon DEF WireOK, QuietOK, FileOK, ChunksOK, Stored
<1>3. BurnLeavesNoItem'
  BY Zenon DEF IInv, BurnLeavesNoItem
<1> QED
  BY Zenon, <1>1, <1>2, <1>3 DEF IInv, Types

(* SourceFails keeps the invariant. *)
LEMMA StepSourceFails ==
  ASSUME IInv, NEW t \in Transfers, SourceFails(t)
  PROVE  IInv'
<1> SimpleTypes /\ ChunkReqType /\ DiskType
  BY Zenon DEF IInv, Types
<1> UNCHANGED <<startReq, chunkReq, finishReq, entry, got, part, disk,
   writing, moved, row, rBurn>>
  BY Zenon DEF SourceFails, Count, Notify, EndSend, SetItem, senderVars, wireVars,
     fileVars, recvVars, burnVars
<1>0. PICK s \in {"failed", "cancelled", "interrupted"} : EndSend(t, s)
  BY Zenon DEF SourceFails
<1> EndSend(t, s) /\ s # "sent"
  BY Zenon, <1>0
<1>1. SimpleTypes'
  BY Zenon DEF EndSend, SetItem, SimpleTypes, Inodes
<1>2. ChunkReqType' /\ DiskType'
  BY Zenon DEF ChunkReqType, DiskType
<1>3. ASSUME NEW u \in Transfers
      PROVE  WireOK(u)' /\ QuietOK(u)' /\ FileOK(u)' /\ ChunksOK(u)'
  <2> WireOK(u) /\ QuietOK(u) /\ FileOK(u) /\ ChunksOK(u)
    BY Zenon DEF IInv
  <2>1. CASE u # t
    <3> /\ send'[u] = send[u]
        /\ item'[u] = item[u]
      BY Zenon, <2>1, Domains DEF EndSend, SetItem
    <3> QED
      BY Zenon DEF WireOK, QuietOK, FileOK, ChunksOK, Stored
  <2>2. CASE u = t
    <3>1. WireOK(u)'
      BY Zenon, <2>2 DEF EndSend, SetItem, SimpleTypes, Inodes, WireOK, FileOK
    <3>2. FileOK(u)'
      BY Zenon, <2>2 DEF EndSend, SetItem, SimpleTypes, Inodes, WireOK, FileOK
    <3>3. QuietOK(u)' /\ ChunksOK(u)'
      BY Zenon DEF QuietOK, ChunksOK, Stored
    <3> QED
      BY Zenon, <3>1, <3>2, <3>3
  <2> QED
    BY Zenon, <2>1, <2>2
<1>4. BurnLeavesNoItem'
  BY Zenon DEF IInv, BurnLeavesNoItem
<1> QED
  BY Zenon, <1>1, <1>2, <1>3, <1>4 DEF IInv, Types

(* ReadStops keeps the invariant. *)
LEMMA StepReadStops ==
  ASSUME IInv, NEW t \in Transfers, ReadStops(t)
  PROVE  IInv'
<1> SimpleTypes /\ ChunkReqType /\ DiskType
  BY Zenon DEF IInv, Types
<1> UNCHANGED <<startReq, chunkReq, finishReq, entry, got, part, disk,
   writing, moved, row, rBurn>>
  BY Zenon DEF ReadStops, CancelSend, Notify, EndSend, SetItem, senderVars,
     wireVars, fileVars, recvVars, burnVars
<1>0. PICK s \in {"failed", "cancelled", "interrupted"} : EndSend(t, s)
  BY Zenon DEF ReadStops, CancelSend
<1> EndSend(t, s) /\ s # "sent"
  BY Zenon, <1>0
<1>1. SimpleTypes'
  BY Zenon DEF EndSend, SetItem, SimpleTypes, Inodes
<1>2. ChunkReqType' /\ DiskType'
  BY Zenon DEF ChunkReqType, DiskType
<1>3. ASSUME NEW u \in Transfers
      PROVE  WireOK(u)' /\ QuietOK(u)' /\ FileOK(u)' /\ ChunksOK(u)'
  <2> WireOK(u) /\ QuietOK(u) /\ FileOK(u) /\ ChunksOK(u)
    BY Zenon DEF IInv
  <2>1. CASE u # t
    <3> /\ send'[u] = send[u]
        /\ item'[u] = item[u]
      BY Zenon, <2>1, Domains DEF EndSend, SetItem
    <3> QED
      BY Zenon DEF WireOK, QuietOK, FileOK, ChunksOK, Stored
  <2>2. CASE u = t
    <3>1. WireOK(u)'
      BY Zenon, <2>2 DEF EndSend, SetItem, SimpleTypes, Inodes, WireOK, FileOK
    <3>2. FileOK(u)'
      BY Zenon, <2>2 DEF EndSend, SetItem, SimpleTypes, Inodes, WireOK, FileOK
    <3>3. QuietOK(u)' /\ ChunksOK(u)'
      BY Zenon DEF QuietOK, ChunksOK, Stored
    <3> QED
      BY Zenon, <3>1, <3>2, <3>3
  <2> QED
    BY Zenon, <2>1, <2>2
<1>4. BurnLeavesNoItem'
  BY Zenon DEF IInv, BurnLeavesNoItem
<1> QED
  BY Zenon, <1>1, <1>2, <1>3, <1>4 DEF IInv, Types

(* SendFinish keeps the invariant. *)
LEMMA StepSendFinish ==
  ASSUME IInv, NEW t \in Transfers, SendFinish(t)
  PROVE  IInv'
<1> SimpleTypes /\ ChunkReqType /\ DiskType
  BY Zenon DEF IInv, Types
<1> UNCHANGED <<item, startReq, chunkReq, entry, got, part, disk, writing,
   moved, row, rBurn>>
  BY Zenon DEF SendFinish, senderVars, wireVars, fileVars, recvVars, burnVars
<1>1. SimpleTypes'
  BY Zenon DEF SendFinish, SimpleTypes, Inodes
<1>2. ChunkReqType' /\ DiskType'
  BY Zenon DEF ChunkReqType, DiskType
<1>3. ASSUME NEW u \in Transfers
      PROVE  WireOK(u)' /\ QuietOK(u)' /\ FileOK(u)' /\ ChunksOK(u)'
  <2> WireOK(u) /\ QuietOK(u) /\ FileOK(u) /\ ChunksOK(u)
    BY Zenon DEF IInv
  <2>1. CASE u # t
    <3> /\ send'[u] = send[u]
        /\ finishReq'[u] = finishReq[u]
      BY Zenon, <2>1, Domains DEF SendFinish
    <3> QED
      BY Zenon DEF WireOK, QuietOK, FileOK, ChunksOK, Stored
  <2>2. CASE u = t
    <3>1. WireOK(u)'
      BY Zenon, <2>2 DEF SendFinish, SimpleTypes, Inodes, WireOK, FileOK
    <3>2. FileOK(u)'
      BY Zenon, <2>2 DEF SendFinish, SimpleTypes, Inodes, WireOK, FileOK
    <3>3. QuietOK(u)' /\ ChunksOK(u)'
      BY Zenon DEF QuietOK, ChunksOK, Stored
    <3> QED
      BY Zenon, <3>1, <3>2, <3>3
  <2> QED
    BY Zenon, <2>1, <2>2
<1>4. BurnLeavesNoItem'
  BY Zenon DEF IInv, BurnLeavesNoItem
<1> QED
  BY Zenon, <1>1, <1>2, <1>3, <1>4 DEF IInv, Types

(* FinishEnds keeps the invariant. *)
LEMMA StepFinishEnds ==
  ASSUME IInv, NEW t \in Transfers, FinishEnds(t)
  PROVE  IInv'
<1> SimpleTypes /\ ChunkReqType /\ DiskType
  BY Zenon DEF IInv, Types
<1> UNCHANGED <<startReq, chunkReq, finishReq, entry, got, part, disk,
   writing, moved, row, rBurn>>
  BY Zenon DEF FinishEnds, EndSend, SetItem, senderVars, wireVars, fileVars,
     recvVars, burnVars
<1>1. SimpleTypes'
  BY DEF FinishEnds, EndSend, SetItem, SimpleTypes, Inodes
<1>2. ChunkReqType' /\ DiskType'
  BY Zenon DEF ChunkReqType, DiskType
<1>3. ASSUME NEW u \in Transfers
      PROVE  WireOK(u)' /\ QuietOK(u)' /\ FileOK(u)' /\ ChunksOK(u)'
  <2> WireOK(u) /\ QuietOK(u) /\ FileOK(u) /\ ChunksOK(u)
    BY Zenon DEF IInv
  <2>1. CASE u # t
    <3> /\ send'[u] = send[u]
        /\ item'[u] = item[u]
      BY Zenon, <2>1, Domains DEF FinishEnds, EndSend, SetItem
    <3> QED
      BY Zenon DEF WireOK, QuietOK, FileOK, ChunksOK, Stored
  <2>2. CASE u = t
    <3>1. WireOK(u)'
      BY ZenonT(40), <2>2 DEF FinishEnds, EndSend, SetItem, SimpleTypes, Inodes, WireOK,
         FileOK
    <3>2. FileOK(u)'
      BY Zenon, <2>2 DEF FinishEnds, EndSend, SetItem, SimpleTypes, Inodes, WireOK,
         FileOK
    <3>3. QuietOK(u)' /\ ChunksOK(u)'
      BY Zenon DEF QuietOK, ChunksOK, Stored
    <3> QED
      BY Zenon, <3>1, <3>2, <3>3
  <2> QED
    BY Zenon, <2>1, <2>2
<1>4. BurnLeavesNoItem'
  BY Zenon DEF IInv, BurnLeavesNoItem
<1> QED
  BY Zenon, <1>1, <1>2, <1>3, <1>4 DEF IInv, Types

(* cancel_transfer keeps the invariant. *)
LEMMA Stepcancel_transfer ==
  ASSUME IInv, NEW t \in Transfers, cancel_transfer(t)
  PROVE  IInv'
<1> SimpleTypes /\ ChunkReqType /\ DiskType
  BY Zenon DEF IInv, Types
<1> UNCHANGED <<send, startReq, chunkReq, finishReq, entry, got, part, disk,
   writing, moved, row, rBurn>>
  BY Zenon DEF cancel_transfer, Notify, SetItem, senderVars, wireVars, fileVars,
     recvVars, burnVars
<1>1. SimpleTypes'
  BY ZenonT(40) DEF cancel_transfer, Notify, SetItem, SimpleTypes, Inodes
<1>2. ChunkReqType' /\ DiskType'
  BY Zenon DEF ChunkReqType, DiskType
<1>3. ASSUME NEW u \in Transfers
      PROVE  WireOK(u)' /\ QuietOK(u)' /\ FileOK(u)' /\ ChunksOK(u)'
  <2> WireOK(u) /\ QuietOK(u) /\ FileOK(u) /\ ChunksOK(u)
    BY Zenon DEF IInv
  <2>1. CASE u # t
    <3> /\ item'[u] = item[u]
      BY Zenon, <2>1, Domains DEF cancel_transfer, Notify, SetItem
    <3> QED
      BY Zenon DEF WireOK, QuietOK, FileOK, ChunksOK, Stored
  <2>2. CASE u = t
    <3>1. WireOK(u)'
      BY Zenon, <2>2 DEF cancel_transfer, Notify, SetItem, SimpleTypes, Inodes,
         WireOK, FileOK
    <3>2. FileOK(u)'
      BY Zenon, <2>2 DEF cancel_transfer, Notify, SetItem, SimpleTypes, Inodes,
         WireOK, FileOK
    <3>3. QuietOK(u)' /\ ChunksOK(u)'
      BY Zenon DEF QuietOK, ChunksOK, Stored
    <3> QED
      BY Zenon, <3>1, <3>2, <3>3
  <2> QED
    BY Zenon, <2>1, <2>2
<1>4. BurnLeavesNoItem'
  BY Zenon DEF IInv, BurnLeavesNoItem
<1> QED
  BY Zenon, <1>1, <1>2, <1>3, <1>4 DEF IInv, Types

(* PeerEndsTransfer keeps the invariant. *)
LEMMA StepPeerEndsTransfer ==
  ASSUME IInv, NEW t \in Transfers, PeerEndsTransfer(t)
  PROVE  IInv'
<1> SimpleTypes /\ ChunkReqType /\ DiskType
  BY Zenon DEF IInv, Types
<1> UNCHANGED <<send, startReq, chunkReq, finishReq, entry, got, part, disk,
   writing, moved, row, rBurn>>
  BY Zenon DEF PeerEndsTransfer, SetItem, senderVars, wireVars, fileVars,
     recvVars, burnVars
<1>1. SimpleTypes'
  BY DEF PeerEndsTransfer, SetItem, SimpleTypes, Inodes
<1>2. ChunkReqType' /\ DiskType'
  BY Zenon DEF ChunkReqType, DiskType
<1>3. ASSUME NEW u \in Transfers
      PROVE  WireOK(u)' /\ QuietOK(u)' /\ FileOK(u)' /\ ChunksOK(u)'
  <2> WireOK(u) /\ QuietOK(u) /\ FileOK(u) /\ ChunksOK(u)
    BY Zenon DEF IInv
  <2>1. CASE u # t
    <3> /\ item'[u] = item[u]
      BY Zenon, <2>1, Domains DEF PeerEndsTransfer, SetItem
    <3> QED
      BY Zenon DEF WireOK, QuietOK, FileOK, ChunksOK, Stored
  <2>2. CASE u = t
    <3>1. WireOK(u)'
      BY ZenonT(40), <2>2 DEF PeerEndsTransfer, SetItem, SimpleTypes, Inodes, WireOK,
         FileOK
    <3>2. FileOK(u)'
      BY ZenonT(40), <2>2 DEF PeerEndsTransfer, SetItem, SimpleTypes, Inodes, WireOK,
         FileOK
    <3>3. QuietOK(u)' /\ ChunksOK(u)'
      BY Zenon DEF QuietOK, ChunksOK, Stored
    <3> QED
      BY Zenon, <3>1, <3>2, <3>3
  <2> QED
    BY Zenon, <2>1, <2>2
<1>4. BurnLeavesNoItem'
  BY Zenon DEF IInv, BurnLeavesNoItem
<1> QED
  BY Zenon, <1>1, <1>2, <1>3, <1>4 DEF IInv, Types

(* ChunkAcked keeps the invariant. *)
LEMMA StepChunkAcked ==
  ASSUME IInv, NEW t \in Transfers, NEW c \in Chunks, ChunkAcked(t, c)
  PROVE  IInv'
<1> SimpleTypes /\ ChunkReqType /\ DiskType
  BY Zenon DEF IInv, Types
<1> UNCHANGED <<send, item, startReq, chunkReq, finishReq, entry, got, part,
   disk, writing, moved, row, rBurn>>
  BY Zenon DEF ChunkAcked, InFlight, senderVars, wireVars, fileVars, recvVars,
     burnVars
<1>1. SimpleTypes' /\ ChunkReqType' /\ DiskType'
  BY Zenon DEF SimpleTypes, ChunkReqType, DiskType
<1>2. ASSUME NEW u \in Transfers
      PROVE  WireOK(u)' /\ QuietOK(u)' /\ FileOK(u)' /\ ChunksOK(u)'
  <2> WireOK(u) /\ QuietOK(u) /\ FileOK(u) /\ ChunksOK(u)
    BY Zenon DEF IInv
  <2> QED
    BY Zenon DEF WireOK, QuietOK, FileOK, ChunksOK, Stored
<1>3. BurnLeavesNoItem'
  BY Zenon DEF IInv, BurnLeavesNoItem
<1> QED
  BY Zenon, <1>1, <1>2, <1>3 DEF IInv, Types

(* ChunkRetried keeps the invariant. *)
LEMMA StepChunkRetried ==
  ASSUME IInv, NEW t \in Transfers, NEW c \in Chunks, ChunkRetried(t, c)
  PROVE  IInv'
<1> SimpleTypes /\ ChunkReqType /\ DiskType
  BY Zenon DEF IInv, Types
<1> UNCHANGED <<send, item, startReq, finishReq, entry, got, part, disk,
   writing, moved, row, rBurn>>
  BY Zenon DEF ChunkRetried, InFlight, senderVars, wireVars, fileVars, recvVars,
     burnVars
<1>r. PICK r \in {"sent"} : SetRequest(t, <<c, tries[t][c] + 1>>, r)
  BY Zenon DEF ChunkRetried, SetRequest
<1>m. r \in ChunkStates
  BY Zenon DEF ChunkStates
<1>e. /\ ChunkReqType'
      /\ \A u \in Transfers, l \in Chunks \X Tries :
           chunkReq'[u][l] = IF u = t /\ l = <<c, tries[t][c] + 1>> THEN r ELSE chunkReq[u][l]
  BY <1>r, <1>m, OneRequest
<1>l. startReq[t] = "ok"
  BY Zenon DEF IInv, WireOK, ChunkRetried
<1>n. \A u \in Transfers, l \in Chunks \X Tries :
        chunkReq'[u][l] = "written" => chunkReq[u][l] = "written"
  BY Zenon, <1>e
<1>t. \A u \in Transfers, b \in Chunks : Stored(u, b) => Stored(u, b)'
  BY Zenon DEF Stored
<1>1. ChunkReqType'
  BY Zenon, <1>e
<1>2. SimpleTypes' /\ DiskType'
  BY Zenon DEF SimpleTypes, DiskType
<1>3. ASSUME NEW u \in Transfers
      PROVE  WireOK(u)' /\ QuietOK(u)' /\ FileOK(u)' /\ ChunksOK(u)'
  <2> WireOK(u) /\ QuietOK(u) /\ FileOK(u) /\ ChunksOK(u)
    BY Zenon DEF IInv
  <2>1. QuietOK(u)'
    BY Zenon, <1>e, <1>l DEF QuietOK
  <2>2. ChunksOK(u)'
    <3>1. ASSUME entry[u] = "active", NEW b \in Chunks, NEW e \in Tries,
                 chunkReq'[u][<<b, e>>] = "written"
          PROVE  Stored(u, b)'
      <4>1. <<b, e>> \in Chunks \X Tries
        BY Zenon
      <4>2. chunkReq[u][<<b, e>>] = "written"
        BY <1>n, <3>1, <4>1, Zenon
      <4> QED
        BY <1>t, <3>1, <4>2, Zenon DEF ChunksOK
    <3>2. ASSUME entry[u] = "active", NEW b \in got[u] PROVE Stored(u, b)'
      <4>1. b \in Chunks
        BY Zenon DEF SimpleTypes
      <4> QED
        BY <1>t, <3>2, <4>1, Zenon DEF ChunksOK
    <3> QED
      BY <3>1, <3>2, Zenon DEF ChunksOK
  <2>3. WireOK(u)' /\ FileOK(u)'
    BY Zenon DEF WireOK, FileOK
  <2> QED
    BY Zenon, <2>1, <2>2, <2>3
<1>4. BurnLeavesNoItem'
  BY Zenon DEF IInv, BurnLeavesNoItem
<1> QED
  BY Zenon, <1>1, <1>2, <1>3, <1>4 DEF IInv, Types

(* ChunkFails keeps the invariant. *)
LEMMA StepChunkFails ==
  ASSUME IInv, NEW t \in Transfers, NEW c \in Chunks, ChunkFails(t, c)
  PROVE  IInv'
<1> SimpleTypes /\ ChunkReqType /\ DiskType
  BY Zenon DEF IInv, Types
<1> UNCHANGED <<startReq, chunkReq, finishReq, entry, got, part, disk,
   writing, moved, row, rBurn>>
  BY Zenon DEF ChunkFails, InFlight, CancelSend, Notify, EndSend, SetItem,
     senderVars, wireVars, fileVars, recvVars, burnVars
<1>0. PICK s \in {"failed", "cancelled", "interrupted"} : EndSend(t, s)
  BY Zenon DEF ChunkFails, CancelSend
<1> EndSend(t, s) /\ s # "sent"
  BY Zenon, <1>0
<1>1. SimpleTypes'
  BY Zenon DEF EndSend, SetItem, SimpleTypes, Inodes
<1>2. ChunkReqType' /\ DiskType'
  BY Zenon DEF ChunkReqType, DiskType
<1>3. ASSUME NEW u \in Transfers
      PROVE  WireOK(u)' /\ QuietOK(u)' /\ FileOK(u)' /\ ChunksOK(u)'
  <2> WireOK(u) /\ QuietOK(u) /\ FileOK(u) /\ ChunksOK(u)
    BY Zenon DEF IInv
  <2>1. CASE u # t
    <3> /\ send'[u] = send[u]
        /\ item'[u] = item[u]
      BY Zenon, <2>1, Domains DEF EndSend, SetItem
    <3> QED
      BY Zenon DEF WireOK, QuietOK, FileOK, ChunksOK, Stored
  <2>2. CASE u = t
    <3>1. WireOK(u)'
      BY Zenon, <2>2 DEF EndSend, SetItem, SimpleTypes, Inodes, WireOK, FileOK
    <3>2. FileOK(u)'
      BY Zenon, <2>2 DEF EndSend, SetItem, SimpleTypes, Inodes, WireOK, FileOK
    <3>3. QuietOK(u)' /\ ChunksOK(u)'
      BY Zenon DEF QuietOK, ChunksOK, Stored
    <3> QED
      BY Zenon, <3>1, <3>2, <3>3
  <2> QED
    BY Zenon, <2>1, <2>2
<1>4. BurnLeavesNoItem'
  BY Zenon DEF IInv, BurnLeavesNoItem
<1> QED
  BY Zenon, <1>1, <1>2, <1>3, <1>4 DEF IInv, Types

(* StartNamed keeps the invariant. *)
LEMMA StepStartNamed ==
  ASSUME IInv, NEW t \in Transfers, StartNamed(t)
  PROVE  IInv'
<1> SimpleTypes /\ ChunkReqType /\ DiskType
  BY Zenon DEF IInv, Types
<1> UNCHANGED <<send, item, chunkReq, finishReq, entry, got, part, disk,
   writing, moved, row, rBurn>>
  BY Zenon DEF StartNamed, senderVars, wireVars, fileVars, recvVars, burnVars
<1>1. SimpleTypes'
  BY DEF StartNamed, SimpleTypes, Inodes
<1>2. ChunkReqType' /\ DiskType'
  BY Zenon DEF ChunkReqType, DiskType
<1>3. ASSUME NEW u \in Transfers
      PROVE  WireOK(u)' /\ QuietOK(u)' /\ FileOK(u)' /\ ChunksOK(u)'
  <2> WireOK(u) /\ QuietOK(u) /\ FileOK(u) /\ ChunksOK(u)
    BY Zenon DEF IInv
  <2>1. CASE u # t
    <3> /\ startReq'[u] = startReq[u]
      BY Zenon, <2>1, Domains DEF StartNamed
    <3> QED
      BY Zenon DEF WireOK, QuietOK, FileOK, ChunksOK, Stored
  <2>2. CASE u = t
    <3>1. WireOK(u)'
      BY ZenonT(40), <2>2 DEF StartNamed, SimpleTypes, Inodes, WireOK, FileOK
    <3>2. QuietOK(u)'
      <4> startReq'[u] # "ok" => startReq[u] # "ok"
        BY Zenon, <2>2 DEF StartNamed, SimpleTypes, WireOK
      <4> QED
        BY Zenon DEF QuietOK
    <3>3. FileOK(u)' /\ ChunksOK(u)'
      BY Zenon DEF FileOK, ChunksOK, Stored
    <3> QED
      BY Zenon, <3>1, <3>2, <3>3
  <2> QED
    BY Zenon, <2>1, <2>2
<1>4. BurnLeavesNoItem'
  BY Zenon DEF IInv, BurnLeavesNoItem
<1> QED
  BY Zenon, <1>1, <1>2, <1>3, <1>4 DEF IInv, Types

(* StartCreated keeps the invariant. *)
LEMMA StepStartCreated ==
  ASSUME IInv, NEW t \in Transfers, StartCreated(t)
  PROVE  IInv'
<1> SimpleTypes /\ ChunkReqType /\ DiskType
  BY Zenon DEF IInv, Types
<1> UNCHANGED <<send, item, chunkReq, finishReq, entry, got, disk, writing,
   moved, row, rBurn>>
  BY Zenon DEF StartCreated, senderVars, wireVars, fileVars, recvVars, burnVars
<1>1. SimpleTypes'
  BY Zenon DEF StartCreated, SimpleTypes, Inodes
<1>2. ChunkReqType' /\ DiskType'
  BY Zenon DEF ChunkReqType, DiskType
<1>3. ASSUME NEW u \in Transfers
      PROVE  WireOK(u)' /\ QuietOK(u)' /\ FileOK(u)' /\ ChunksOK(u)'
  <2> WireOK(u) /\ QuietOK(u) /\ FileOK(u) /\ ChunksOK(u)
    BY Zenon DEF IInv
  <2>1. CASE u # t
    <3> /\ startReq'[u] = startReq[u]
        /\ part'[u] = part[u]
      BY Zenon, <2>1, Domains DEF StartCreated
    <3> QED
      BY Zenon DEF WireOK, QuietOK, FileOK, ChunksOK, Stored
  <2>2. CASE u = t
    <3>1. WireOK(u)'
      BY Zenon, <2>2 DEF StartCreated, SimpleTypes, Inodes, WireOK, FileOK
    <3>2. QuietOK(u)'
      <4> startReq'[u] # "ok" => startReq[u] # "ok"
        BY Zenon, <2>2, Domains DEF StartCreated
      <4> QED
        BY Zenon DEF QuietOK
    <3>3. FileOK(u)'
      BY Zenon, <2>2 DEF StartCreated, SimpleTypes, Inodes, WireOK, FileOK
    <3>4. ChunksOK(u)'
      BY Zenon DEF ChunksOK, Stored
    <3> QED
      BY Zenon, <3>1, <3>2, <3>3, <3>4
  <2> QED
    BY Zenon, <2>1, <2>2
<1>4. BurnLeavesNoItem'
  BY Zenon DEF IInv, BurnLeavesNoItem
<1> QED
  BY Zenon, <1>1, <1>2, <1>3, <1>4 DEF IInv, Types

(* StartFails keeps the invariant. *)
LEMMA StepStartFails ==
  ASSUME IInv, NEW t \in Transfers, StartFails(t)
  PROVE  IInv'
<1> SimpleTypes /\ ChunkReqType /\ DiskType
  BY Zenon DEF IInv, Types
<1> UNCHANGED <<send, item, chunkReq, finishReq, entry, got, part, disk,
   writing, moved, row, rBurn>>
  BY Zenon DEF StartFails, Count, senderVars, wireVars, fileVars, recvVars,
     burnVars
<1>1. SimpleTypes'
  BY Zenon DEF StartFails, SimpleTypes, Inodes
<1>2. ChunkReqType' /\ DiskType'
  BY Zenon DEF ChunkReqType, DiskType
<1>3. ASSUME NEW u \in Transfers
      PROVE  WireOK(u)' /\ QuietOK(u)' /\ FileOK(u)' /\ ChunksOK(u)'
  <2> WireOK(u) /\ QuietOK(u) /\ FileOK(u) /\ ChunksOK(u)
    BY Zenon DEF IInv
  <2>1. CASE u # t
    <3> /\ startReq'[u] = startReq[u]
      BY Zenon, <2>1, Domains DEF StartFails
    <3> QED
      BY Zenon DEF WireOK, QuietOK, FileOK, ChunksOK, Stored
  <2>2. CASE u = t
    <3>1. WireOK(u)'
      BY Zenon, <2>2 DEF StartFails, SimpleTypes, Inodes, WireOK, FileOK
    <3>2. QuietOK(u)'
      <4> startReq'[u] # "ok" => startReq[u] # "ok"
        BY Zenon, <2>2 DEF StartFails, SimpleTypes, WireOK
      <4> QED
        BY Zenon DEF QuietOK
    <3>3. FileOK(u)' /\ ChunksOK(u)'
      BY Zenon DEF FileOK, ChunksOK, Stored
    <3> QED
      BY Zenon, <3>1, <3>2, <3>3
  <2> QED
    BY Zenon, <2>1, <2>2
<1>4. BurnLeavesNoItem'
  BY Zenon DEF IInv, BurnLeavesNoItem
<1> QED
  BY Zenon, <1>1, <1>2, <1>3, <1>4 DEF IInv, Types

(* StartRegistered keeps the invariant. *)
LEMMA StepStartRegistered ==
  ASSUME IInv, NEW t \in Transfers, StartRegistered(t)
  PROVE  IInv'
<1> SimpleTypes /\ ChunkReqType /\ DiskType
  BY Zenon DEF IInv, Types
<1> UNCHANGED <<send, item, chunkReq, finishReq, part, disk, writing, moved,
   row, rBurn>>
  BY Zenon DEF StartRegistered, senderVars, wireVars, fileVars, recvVars, burnVars
<1>1. SimpleTypes'
  BY Zenon DEF StartRegistered, SimpleTypes, Inodes
<1>2. ChunkReqType' /\ DiskType'
  BY Zenon DEF ChunkReqType, DiskType
<1>3. ASSUME NEW u \in Transfers
      PROVE  WireOK(u)' /\ QuietOK(u)' /\ FileOK(u)' /\ ChunksOK(u)'
  <2> WireOK(u) /\ QuietOK(u) /\ FileOK(u) /\ ChunksOK(u)
    BY Zenon DEF IInv
  <2>1. CASE u # t
    <3> /\ startReq'[u] = startReq[u]
        /\ entry'[u] = entry[u]
        /\ got'[u] = got[u]
      BY Zenon, <2>1, Domains DEF StartRegistered
    <3> QED
      BY Zenon DEF WireOK, QuietOK, FileOK, ChunksOK, Stored
  <2>2. CASE u = t
    <3>1. WireOK(u)'
      BY Zenon, <2>2 DEF StartRegistered, SimpleTypes, Inodes, WireOK, FileOK
    <3>2. QuietOK(u)'
      <4> startReq'[u] # "ok" => startReq[u] # "ok"
        BY Zenon, <2>2, Domains DEF StartRegistered
      <4> QED
        BY Zenon DEF QuietOK
    <3>3. FileOK(u)'
      BY Zenon, <2>2 DEF StartRegistered, SimpleTypes, Inodes, WireOK, FileOK
    <3>4. ChunksOK(u)'
      BY ZenonT(40), <2>2 DEF StartRegistered, SimpleTypes, WireOK, QuietOK, ChunksOK,
         Stored
    <3> QED
      BY Zenon, <3>1, <3>2, <3>3, <3>4
  <2> QED
    BY Zenon, <2>1, <2>2
<1>4. BurnLeavesNoItem'
  BY Zenon DEF IInv, BurnLeavesNoItem
<1> QED
  BY Zenon, <1>1, <1>2, <1>3, <1>4 DEF IInv, Types

(* FinishTaken keeps the invariant. *)
LEMMA StepFinishTaken ==
  ASSUME IInv, NEW t \in Transfers, FinishTaken(t)
  PROVE  IInv'
<1> SimpleTypes /\ ChunkReqType /\ DiskType
  BY Zenon DEF IInv, Types
<1> UNCHANGED <<send, item, startReq, chunkReq, got, part, disk, writing,
   moved, row, rBurn>>
  BY Zenon DEF FinishTaken, FinishGoes, FinishOther, Missing, senderVars,
     wireVars, fileVars, recvVars, burnVars
<1>1. SimpleTypes'
  BY DEF FinishTaken, FinishGoes, Missing, SimpleTypes, Inodes
<1>2. ChunkReqType' /\ DiskType'
  BY Zenon DEF ChunkReqType, DiskType
<1>3. ASSUME NEW u \in Transfers
      PROVE  WireOK(u)' /\ QuietOK(u)' /\ FileOK(u)' /\ ChunksOK(u)'
  <2> WireOK(u) /\ QuietOK(u) /\ FileOK(u) /\ ChunksOK(u)
    BY Zenon DEF IInv
  <2>1. CASE u # t
    <3> /\ finishReq'[u] = finishReq[u]
        /\ entry'[u] = entry[u]
      BY Zenon, <2>1, Domains DEF FinishTaken, FinishGoes
    <3> QED
      BY Zenon DEF WireOK, QuietOK, FileOK, ChunksOK, Stored
  <2>2. CASE u = t
    <3>f. /\ finishReq[u] = "sent"
          /\ \/ entry[u] = "active" /\ finishReq'[u] = "taken" /\ entry'[u] = "none"
             \/ /\ entry[u] = "none" /\ entry'[u] = "none"
                /\ finishReq'[u] \in {"burned", "left", "missing"}
      BY <2>2 DEF FinishTaken, FinishGoes, Missing, SimpleTypes
    <3>1. WireOK(u)'
      BY Zenon, <3>f DEF WireOK, FileOK
    <3>2. FileOK(u)'
      BY Zenon, <3>f DEF FileOK
    <3>3. ChunksOK(u)'
      <4> entry'[u] = "active" => entry[u] = "active"
        BY Zenon, <2>2 DEF FinishTaken, FinishGoes, SimpleTypes
      <4> QED
        BY Zenon DEF ChunksOK, Stored
    <3>4. QuietOK(u)'
      BY Zenon DEF QuietOK
    <3> QED
      BY Zenon, <3>1, <3>2, <3>3, <3>4
  <2> QED
    BY Zenon, <2>1, <2>2
<1>4. BurnLeavesNoItem'
  BY Zenon DEF IInv, BurnLeavesNoItem
<1> QED
  BY Zenon, <1>1, <1>2, <1>3, <1>4 DEF IInv, Types

(* FinishChecked keeps the invariant. *)
LEMMA StepFinishChecked ==
  ASSUME IInv, NEW t \in Transfers, FinishChecked(t)
  PROVE  IInv'
<1> SimpleTypes /\ ChunkReqType /\ DiskType
  BY Zenon DEF IInv, Types
<1> UNCHANGED <<send, item, startReq, chunkReq, entry, got, disk, writing,
   moved, row, rBurn>>
  BY Zenon DEF FinishChecked, FinishGoes, FinishOther, UnlinkPart, senderVars,
     wireVars, fileVars, recvVars, burnVars
<1>1. SimpleTypes'
  BY DEF FinishChecked, FinishGoes, UnlinkPart, SimpleTypes, Inodes
<1>2. ChunkReqType' /\ DiskType'
  BY Zenon DEF ChunkReqType, DiskType
<1>3. ASSUME NEW u \in Transfers
      PROVE  WireOK(u)' /\ QuietOK(u)' /\ FileOK(u)' /\ ChunksOK(u)'
  <2> WireOK(u) /\ QuietOK(u) /\ FileOK(u) /\ ChunksOK(u)
    BY Zenon DEF IInv
  <2>1. CASE u # t
    <3> /\ finishReq'[u] = finishReq[u]
        /\ part'[u] = part[u]
      BY Zenon, <2>1, Domains DEF FinishChecked, FinishGoes, UnlinkPart
    <3> QED
      BY Zenon DEF WireOK, QuietOK, FileOK, ChunksOK, Stored
  <2>2. CASE u = t
    <3>f. /\ finishReq[u] = "taken"
          /\ \/ finishReq'[u] \in {"burned", "failed"} /\ part'[u] = "none"
             \/ finishReq'[u] = "checked" /\ part'[u] = part[u]
      BY <2>2 DEF FinishChecked, FinishGoes, UnlinkPart, SimpleTypes
    <3>1. WireOK(u)'
      BY Zenon, <3>f DEF WireOK, FileOK
    <3>2. FileOK(u)'
      BY Zenon, <3>f DEF FileOK
    <3>3. QuietOK(u)' /\ ChunksOK(u)'
      BY Zenon DEF QuietOK, ChunksOK, Stored
    <3> QED
      BY Zenon, <3>1, <3>2, <3>3
  <2> QED
    BY Zenon, <2>1, <2>2
<1>4. BurnLeavesNoItem'
  BY Zenon DEF IInv, BurnLeavesNoItem
<1> QED
  BY Zenon, <1>1, <1>2, <1>3, <1>4 DEF IInv, Types

(* FinishHashed keeps the invariant. *)
LEMMA StepFinishHashed ==
  ASSUME IInv, NEW t \in Transfers, FinishHashed(t)
  PROVE  IInv'
<1> SimpleTypes /\ ChunkReqType /\ DiskType
  BY Zenon DEF IInv, Types
<1> UNCHANGED <<send, item, startReq, chunkReq, entry, got, disk, writing,
   moved, row, rBurn>>
  BY Zenon DEF FinishHashed, FinishGoes, FinishOther, UnlinkPart, DigestMatches,
     senderVars, wireVars, fileVars, recvVars, burnVars
<1>1. SimpleTypes'
  BY DEF FinishHashed, FinishGoes, UnlinkPart, DigestMatches, SimpleTypes,
     Inodes
<1>2. ChunkReqType' /\ DiskType'
  BY Zenon DEF ChunkReqType, DiskType
<1>3. ASSUME NEW u \in Transfers
      PROVE  WireOK(u)' /\ QuietOK(u)' /\ FileOK(u)' /\ ChunksOK(u)'
  <2> WireOK(u) /\ QuietOK(u) /\ FileOK(u) /\ ChunksOK(u)
    BY Zenon DEF IInv
  <2>1. CASE u # t
    <3> /\ finishReq'[u] = finishReq[u]
        /\ part'[u] = part[u]
      BY Zenon, <2>1, Domains DEF FinishHashed, FinishGoes, UnlinkPart, DigestMatches
    <3> QED
      BY Zenon DEF WireOK, QuietOK, FileOK, ChunksOK, Stored
  <2>2. CASE u = t
    <3>f. /\ finishReq[u] = "checked"
          /\ \/ finishReq'[u] = "failed" /\ part'[u] = "none"
             \/ /\ finishReq'[u] = "hashed" /\ part'[u] = part[u]
                /\ disk[u][part[u]] = Chunks
      BY Zenon, <2>2, Domains DEF FinishHashed, FinishGoes, UnlinkPart, DigestMatches
    <3>1. WireOK(u)'
      BY Zenon, <3>f DEF WireOK, FileOK
    <3>2. FileOK(u)'
      BY Zenon, <3>f DEF FileOK
    <3>3. QuietOK(u)' /\ ChunksOK(u)'
      BY Zenon DEF QuietOK, ChunksOK, Stored
    <3> QED
      BY Zenon, <3>1, <3>2, <3>3
  <2> QED
    BY Zenon, <2>1, <2>2
<1>4. BurnLeavesNoItem'
  BY Zenon DEF IInv, BurnLeavesNoItem
<1> QED
  BY Zenon, <1>1, <1>2, <1>3, <1>4 DEF IInv, Types

(* FinishRenames keeps the invariant. *)
LEMMA StepFinishRenames ==
  ASSUME IInv, NEW t \in Transfers, FinishRenames(t)
  PROVE  IInv'
<1> SimpleTypes /\ ChunkReqType /\ DiskType
  BY Zenon DEF IInv, Types
<1> UNCHANGED <<send, item, startReq, chunkReq, entry, got, disk, writing,
   moved, row, rBurn>>
  BY Zenon DEF FinishRenames, FinishGoes, FinishOther, UnlinkPart, senderVars,
     wireVars, fileVars, recvVars, burnVars
<1>1. SimpleTypes'
  BY DEF FinishRenames, FinishGoes, UnlinkPart, SimpleTypes, Inodes
<1>2. ChunkReqType' /\ DiskType'
  BY Zenon DEF ChunkReqType, DiskType
<1>3. ASSUME NEW u \in Transfers
      PROVE  WireOK(u)' /\ QuietOK(u)' /\ FileOK(u)' /\ ChunksOK(u)'
  <2> WireOK(u) /\ QuietOK(u) /\ FileOK(u) /\ ChunksOK(u)
    BY Zenon DEF IInv
  <2>1. CASE u # t
    <3> /\ finishReq'[u] = finishReq[u]
        /\ part'[u] = part[u]
      BY Zenon, <2>1, Domains DEF FinishRenames, FinishGoes, UnlinkPart
    <3> QED
      BY Zenon DEF WireOK, QuietOK, FileOK, ChunksOK, Stored
  <2>2. CASE u = t
    <3>f. /\ finishReq[u] = "hashed"
          /\ \/ finishReq'[u] = "burned" /\ part'[u] = "none"
             \/ finishReq'[u] = "renaming" /\ part'[u] = part[u]
      BY <2>2 DEF FinishRenames, FinishGoes, UnlinkPart, SimpleTypes
    <3>1. WireOK(u)'
      BY Zenon, <3>f DEF WireOK, FileOK
    <3>2. FileOK(u)'
      BY Zenon, <3>f DEF FileOK
    <3>3. QuietOK(u)' /\ ChunksOK(u)'
      BY Zenon DEF QuietOK, ChunksOK, Stored
    <3> QED
      BY Zenon, <3>1, <3>2, <3>3
  <2> QED
    BY Zenon, <2>1, <2>2
<1>4. BurnLeavesNoItem'
  BY Zenon DEF IInv, BurnLeavesNoItem
<1> QED
  BY Zenon, <1>1, <1>2, <1>3, <1>4 DEF IInv, Types

(* FinishRenamed keeps the invariant. *)
LEMMA StepFinishRenamed ==
  ASSUME IInv, NEW t \in Transfers, FinishRenamed(t)
  PROVE  IInv'
<1> SimpleTypes /\ ChunkReqType /\ DiskType
  BY Zenon DEF IInv, Types
<1> UNCHANGED <<send, item, startReq, chunkReq, entry, got, disk, writing,
   row, rBurn>>
  BY Zenon DEF FinishRenamed, FinishGoes, FinishOther, UnlinkPart, senderVars,
     wireVars, fileVars, recvVars, burnVars
<1>1. SimpleTypes'
  BY Zenon DEF FinishRenamed, FinishGoes, UnlinkPart, SimpleTypes, Inodes
<1>2. ChunkReqType' /\ DiskType'
  BY Zenon DEF ChunkReqType, DiskType
<1>3. ASSUME NEW u \in Transfers
      PROVE  WireOK(u)' /\ QuietOK(u)' /\ FileOK(u)' /\ ChunksOK(u)'
  <2> WireOK(u) /\ QuietOK(u) /\ FileOK(u) /\ ChunksOK(u)
    BY Zenon DEF IInv
  <2>1. CASE u # t
    <3> /\ finishReq'[u] = finishReq[u]
        /\ part'[u] = part[u]
        /\ moved'[u] = moved[u]
      BY Zenon, <2>1, Domains DEF FinishRenamed, FinishGoes, UnlinkPart
    <3> QED
      BY Zenon DEF WireOK, QuietOK, FileOK, ChunksOK, Stored
  <2>2. CASE u = t
    <3>f. /\ finishReq[u] = "renaming" /\ finishReq'[u] = "renamed"
          /\ moved'[u] = part[u] /\ part'[u] = "none"
      BY ZenonT(40), <2>2 DEF FinishRenamed, FinishGoes, UnlinkPart, SimpleTypes
    <3>1. WireOK(u)'
      BY Zenon, <3>f DEF WireOK, FileOK
    <3>2. FileOK(u)'
      BY Zenon, <3>f DEF FileOK
    <3>3. QuietOK(u)' /\ ChunksOK(u)'
      BY Zenon DEF QuietOK, ChunksOK, Stored
    <3> QED
      BY Zenon, <3>1, <3>2, <3>3
  <2> QED
    BY Zenon, <2>1, <2>2
<1>4. BurnLeavesNoItem'
  BY Zenon DEF IInv, BurnLeavesNoItem
<1> QED
  BY Zenon, <1>1, <1>2, <1>3, <1>4 DEF IInv, Types
=============================================================================
