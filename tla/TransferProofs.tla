-------------------------- MODULE TransferProofs ----------------------------
(***************************************************************************)
(* Proofs about Transfer for any number of transfers, chunks, attempts,    *)
(* window and faults: Sent means delivered, what is finalized is complete, *)
(* and a finished Burn leaves no received item. The lemmas here take the   *)
(* end of the finish handler, the receiver's chunk handler, cancellation,  *)
(* Burn and restart.                                                       *)
(***************************************************************************)
EXTENDS TransferStepProofs

(* FinishPersists keeps the invariant. *)
LEMMA StepFinishPersists ==
  ASSUME IInv, NEW t \in Transfers, FinishPersists(t)
  PROVE  IInv'
<1> SimpleTypes /\ ChunkReqType /\ DiskType
  BY Zenon DEF IInv, Types
<1> UNCHANGED <<send, item, startReq, chunkReq, entry, got, part, disk,
   writing, moved, row, rBurn>>
  BY Zenon DEF FinishPersists, FinishGoes, FinishOther, UnlinkFinal, senderVars,
     wireVars, fileVars, recvVars, burnVars
<1>1. SimpleTypes'
  BY ZenonT(40) DEF FinishPersists, FinishGoes, UnlinkFinal, SimpleTypes, Inodes
<1>2. ChunkReqType' /\ DiskType'
  BY Zenon DEF ChunkReqType, DiskType
<1>3. ASSUME NEW u \in Transfers
      PROVE  WireOK(u)' /\ QuietOK(u)' /\ FileOK(u)' /\ ChunksOK(u)'
  <2> WireOK(u) /\ QuietOK(u) /\ FileOK(u) /\ ChunksOK(u)
    BY Zenon DEF IInv
  <2>1. CASE u # t
    <3> /\ finishReq'[u] = finishReq[u]
      BY Zenon, <2>1, Domains DEF FinishPersists, FinishGoes
    <3> QED
      BY Zenon DEF WireOK, QuietOK, FileOK, ChunksOK, Stored
  <2>2. CASE u = t
    <3>1. WireOK(u)'
      BY Zenon, <2>2 DEF FinishPersists, FinishGoes, UnlinkFinal, SimpleTypes,
         Inodes, WireOK, FileOK
    <3>2. FileOK(u)'
      BY ZenonT(40), <2>2 DEF FinishPersists, FinishGoes, UnlinkFinal, SimpleTypes,
         Inodes, WireOK, FileOK
    <3>3. QuietOK(u)' /\ ChunksOK(u)'
      BY Zenon DEF QuietOK, ChunksOK, Stored
    <3> QED
      BY Zenon, <3>1, <3>2, <3>3
  <2> QED
    BY Zenon, <2>1, <2>2
<1>4. BurnLeavesNoItem'
  BY Zenon DEF IInv, BurnLeavesNoItem
<1> QED
  BY Zenon, <1>1, <1>2, <1>3, <1>4 DEF IInv, Types

(* FinishPersisted keeps the invariant. *)
LEMMA StepFinishPersisted ==
  ASSUME IInv, NEW t \in Transfers, FinishPersisted(t)
  PROVE  IInv'
<1> SimpleTypes /\ ChunkReqType /\ DiskType
  BY Zenon DEF IInv, Types
<1> UNCHANGED <<send, item, startReq, chunkReq, entry, got, part, disk,
   writing, moved, rBurn>>
  BY Zenon DEF FinishPersisted, FinishGoes, FinishOther, UnlinkFinal, Count,
     senderVars, wireVars, fileVars, recvVars, burnVars
<1>1. SimpleTypes'
  BY DEF FinishPersisted, FinishGoes, UnlinkFinal, SimpleTypes, Inodes
<1>2. ChunkReqType' /\ DiskType'
  BY Zenon DEF ChunkReqType, DiskType
<1>3. ASSUME NEW u \in Transfers
      PROVE  WireOK(u)' /\ QuietOK(u)' /\ FileOK(u)' /\ ChunksOK(u)'
  <2> WireOK(u) /\ QuietOK(u) /\ FileOK(u) /\ ChunksOK(u)
    BY Zenon DEF IInv
  <2>1. CASE u # t
    <3> /\ finishReq'[u] = finishReq[u]
        /\ row'[u] = row[u]
      BY Zenon, <2>1, Domains DEF FinishPersisted, FinishGoes
    <3> QED
      BY Zenon DEF WireOK, QuietOK, FileOK, ChunksOK, Stored
  <2>2. CASE u = t
    <3>1. WireOK(u)'
      BY Zenon, <2>2 DEF FinishPersisted, FinishGoes, UnlinkFinal, SimpleTypes,
         Inodes, WireOK, FileOK
    <3>2. FileOK(u)'
      BY <2>2 DEF FinishPersisted, FinishGoes, UnlinkFinal, SimpleTypes,
         Inodes, WireOK, FileOK
    <3>3. QuietOK(u)' /\ ChunksOK(u)'
      BY Zenon DEF QuietOK, ChunksOK, Stored
    <3> QED
      BY Zenon, <3>1, <3>2, <3>3
  <2> QED
    BY Zenon, <2>1, <2>2
<1>4. BurnLeavesNoItem'
  BY Zenon DEF FinishPersisted, FinishGoes, UnlinkFinal, IInv, SimpleTypes,
     BurnLeavesNoItem
<1> QED
  BY Zenon, <1>1, <1>2, <1>3, <1>4 DEF IInv, Types

(* FinishAnswered keeps the invariant. *)
LEMMA StepFinishAnswered ==
  ASSUME IInv, NEW t \in Transfers, FinishAnswered(t)
  PROVE  IInv'
<1> SimpleTypes /\ ChunkReqType /\ DiskType
  BY Zenon DEF IInv, Types
<1> UNCHANGED <<send, item, startReq, chunkReq, entry, got, part, disk,
   writing, moved, row, rBurn>>
  BY Zenon DEF FinishAnswered, FinishGoes, FinishOther, UnlinkFinal, senderVars,
     wireVars, fileVars, recvVars, burnVars
<1>1. SimpleTypes'
  BY ZenonT(40) DEF FinishAnswered, FinishGoes, UnlinkFinal, SimpleTypes, Inodes
<1>2. ChunkReqType' /\ DiskType'
  BY Zenon DEF ChunkReqType, DiskType
<1>3. ASSUME NEW u \in Transfers
      PROVE  WireOK(u)' /\ QuietOK(u)' /\ FileOK(u)' /\ ChunksOK(u)'
  <2> WireOK(u) /\ QuietOK(u) /\ FileOK(u) /\ ChunksOK(u)
    BY Zenon DEF IInv
  <2>1. CASE u # t
    <3> /\ finishReq'[u] = finishReq[u]
      BY Zenon, <2>1, Domains DEF FinishAnswered, FinishGoes
    <3> QED
      BY Zenon DEF WireOK, QuietOK, FileOK, ChunksOK, Stored
  <2>2. CASE u = t
    <3>1. WireOK(u)'
      BY Zenon, <2>2 DEF FinishAnswered, FinishGoes, UnlinkFinal, SimpleTypes,
         Inodes, WireOK, FileOK
    <3>2. FileOK(u)'
      BY ZenonT(40), <2>2 DEF FinishAnswered, FinishGoes, UnlinkFinal, SimpleTypes,
         Inodes, WireOK, FileOK
    <3>3. QuietOK(u)' /\ ChunksOK(u)'
      BY Zenon DEF QuietOK, ChunksOK, Stored
    <3> QED
      BY Zenon, <3>1, <3>2, <3>3
  <2> QED
    BY Zenon, <2>1, <2>2
<1>4. BurnLeavesNoItem'
  BY Zenon DEF IInv, BurnLeavesNoItem
<1> QED
  BY Zenon, <1>1, <1>2, <1>3, <1>4 DEF IInv, Types

(* FinishFails keeps the invariant. *)
LEMMA StepFinishFails ==
  ASSUME IInv, NEW t \in Transfers, FinishFails(t)
  PROVE  IInv'
<1> SimpleTypes /\ ChunkReqType /\ DiskType
  BY Zenon DEF IInv, Types
<1> UNCHANGED <<send, item, startReq, chunkReq, entry, got, disk, writing,
   moved, row, rBurn>>
  BY Zenon DEF FinishFails, FinishGoes, FinishOther, UnlinkPart, Count,
     senderVars, wireVars, fileVars, recvVars, burnVars
<1>1. SimpleTypes'
  BY Zenon DEF FinishFails, FinishGoes, UnlinkPart, SimpleTypes, Inodes
<1>2. ChunkReqType' /\ DiskType'
  BY Zenon DEF ChunkReqType, DiskType
<1>3. ASSUME NEW u \in Transfers
      PROVE  WireOK(u)' /\ QuietOK(u)' /\ FileOK(u)' /\ ChunksOK(u)'
  <2> WireOK(u) /\ QuietOK(u) /\ FileOK(u) /\ ChunksOK(u)
    BY Zenon DEF IInv
  <2>1. CASE u # t
    <3> /\ finishReq'[u] = finishReq[u]
        /\ part'[u] = part[u]
      BY Zenon, <2>1, Domains DEF FinishFails, FinishGoes, UnlinkPart
    <3> QED
      BY Zenon DEF WireOK, QuietOK, FileOK, ChunksOK, Stored
  <2>2. CASE u = t
    <3>1. WireOK(u)'
      BY Zenon, <2>2 DEF FinishFails, FinishGoes, UnlinkPart, SimpleTypes, Inodes,
         WireOK, FileOK
    <3>2. FileOK(u)'
      BY ZenonT(40), <2>2 DEF FinishFails, FinishGoes, UnlinkPart, SimpleTypes, Inodes,
         WireOK, FileOK
    <3>3. QuietOK(u)' /\ ChunksOK(u)'
      BY Zenon DEF QuietOK, ChunksOK, Stored
    <3> QED
      BY Zenon, <3>1, <3>2, <3>3
  <2> QED
    BY Zenon, <2>1, <2>2
<1>4. BurnLeavesNoItem'
  BY Zenon DEF IInv, BurnLeavesNoItem
<1> QED
  BY Zenon, <1>1, <1>2, <1>3, <1>4 DEF IInv, Types

(* ChunkLookup keeps the invariant. *)
LEMMA StepChunkLookup ==
  ASSUME IInv, NEW t \in Transfers, NEW c \in Chunks, NEW a \in Tries,
     ChunkLookup(t, c, a)
  PROVE  IInv'
<1> SimpleTypes /\ ChunkReqType /\ DiskType
  BY Zenon DEF IInv, Types
<1> UNCHANGED <<send, item, startReq, finishReq, entry, got, part, disk,
   writing, moved, row, rBurn>>
  BY Zenon DEF ChunkLookup, Answer, Missing, senderVars, wireVars, fileVars,
     recvVars, burnVars
<1>r. PICK r \in {"left", "missing", "ack", "found"} : SetRequest(t, <<c, a>>, r)
  BY Zenon DEF ChunkLookup, Answer, Missing, SetRequest
<1>m. r \in ChunkStates
  BY Zenon DEF ChunkStates
<1>e. /\ ChunkReqType'
      /\ \A u \in Transfers, l \in Chunks \X Tries :
           chunkReq'[u][l] = IF u = t /\ l = <<c, a>> THEN r ELSE chunkReq[u][l]
  BY <1>r, <1>m, OneRequest
<1>l. startReq[t] = "ok"
  <2>1. chunkReq[t][<<c, a>>] # "none" /\ QuietOK(t) /\ <<c, a>> \in Chunks \X Tries
    BY Zenon DEF IInv, ChunkLookup
  <2> QED
    BY Zenon, <2>1 DEF QuietOK
<1>n. \A u \in Transfers, l \in Chunks \X Tries :
        chunkReq'[u][l] = "written" => chunkReq[u][l] = "written"
  BY Zenon, <1>e
<1>t. \A u \in Transfers, b \in Chunks : Stored(u, b) => Stored(u, b)'
  BY Zenon DEF Stored
<1>1. ChunkReqType'
  BY Zenon, <1>e
<1>2. SimpleTypes' /\ DiskType'
  BY Zenon DEF SimpleTypes, DiskType
<1>3. ASSUME NEW u \in Transfers
      PROVE  WireOK(u)' /\ QuietOK(u)' /\ FileOK(u)' /\ ChunksOK(u)'
  <2> WireOK(u) /\ QuietOK(u) /\ FileOK(u) /\ ChunksOK(u)
    BY Zenon DEF IInv
  <2>1. QuietOK(u)'
    BY Zenon, <1>e, <1>l DEF QuietOK
  <2>2. ChunksOK(u)'
    <3>1. ASSUME entry[u] = "active", NEW b \in Chunks, NEW e \in Tries,
                 chunkReq'[u][<<b, e>>] = "written"
          PROVE  Stored(u, b)'
      <4>1. <<b, e>> \in Chunks \X Tries
        BY Zenon
      <4>2. chunkReq[u][<<b, e>>] = "written"
        BY <1>n, <3>1, <4>1, Zenon
      <4> QED
        BY <1>t, <3>1, <4>2, Zenon DEF ChunksOK
    <3>2. ASSUME entry[u] = "active", NEW b \in got[u] PROVE Stored(u, b)'
      <4>1. b \in Chunks
        BY Zenon DEF SimpleTypes
      <4> QED
        BY <1>t, <3>2, <4>1, Zenon DEF ChunksOK
    <3> QED
      BY <3>1, <3>2, Zenon DEF ChunksOK
  <2>3. WireOK(u)' /\ FileOK(u)'
    BY Zenon DEF WireOK, FileOK
  <2> QED
    BY Zenon, <2>1, <2>2, <2>3
<1>4. BurnLeavesNoItem'
  BY Zenon DEF IInv, BurnLeavesNoItem
<1> QED
  BY Zenon, <1>1, <1>2, <1>3, <1>4 DEF IInv, Types

(* ChunkWritten keeps the invariant. *)
LEMMA StepChunkWritten ==
  ASSUME IInv, NEW t \in Transfers, NEW c \in Chunks, NEW a \in Tries,
     ChunkWritten(t, c, a)
  PROVE  IInv'
<1> SimpleTypes /\ ChunkReqType /\ DiskType
  BY Zenon DEF IInv, Types
<1> UNCHANGED <<send, item, startReq, finishReq, entry, got, moved, row,
   rBurn>>
  BY Zenon DEF ChunkWritten, Answer, senderVars, wireVars, fileVars, recvVars,
     burnVars
<1>r. PICK r \in {"written"} : SetRequest(t, <<c, a>>, r)
  BY Zenon DEF ChunkWritten, Answer, SetRequest
<1>m. r \in ChunkStates
  BY Zenon DEF ChunkStates
<1>e. /\ ChunkReqType'
      /\ \A u \in Transfers, l \in Chunks \X Tries :
           chunkReq'[u][l] = IF u = t /\ l = <<c, a>> THEN r ELSE chunkReq[u][l]
  BY <1>r, <1>m, OneRequest
<1>l. startReq[t] = "ok"
  <2>1. chunkReq[t][<<c, a>>] # "none" /\ QuietOK(t) /\ <<c, a>> \in Chunks \X Tries
    BY Zenon DEF IInv, ChunkWritten
  <2> QED
    BY Zenon, <2>1 DEF QuietOK
<1>v. /\ DiskType'
      /\ \A u \in Transfers : disk'[u]["first"] = disk[u]["first"]
      /\ writing \subseteq writing'
      /\ part[t] = "first" => <<t, c, "first">> \in writing'
  <2>1. CASE part[t] # "none"
    <3>1. /\ disk' = disk /\ writing' = writing \cup {<<t, c, part[t]>>}
          /\ part[t] \in Inodes
      BY Zenon, <2>1 DEF ChunkWritten, SimpleTypes, Inodes
    <3> QED
      BY <3>1 DEF DiskType
  <2>2. CASE part[t] = "none"
    <3>1. /\ disk' = [disk EXCEPT ![t] = [disk[t] EXCEPT !["again"] = {}]]
          /\ writing' = writing \cup {<<t, c, "again">>}
      BY Zenon, <2>2 DEF ChunkWritten, DiskType
    <3>2. [disk[t] EXCEPT !["again"] = {}] \in [Inodes -> SUBSET Chunks]
      BY Zenon DEF DiskType
    <3>3. [disk[t] EXCEPT !["again"] = {}]["first"] = disk[t]["first"]
      BY Zenon DEF DiskType, Inodes
    <3>4. \A u \in Transfers : disk'[u]["first"] = disk[u]["first"]
      BY Zenon, <3>1, <3>3 DEF DiskType
    <3>5. DiskType'
      BY <3>1, <3>2 DEF DiskType, Inodes
    <3> QED
      BY Zenon, <2>2, <3>1, <3>4, <3>5
  <2> QED
    BY Zenon, <2>1, <2>2
<1>1. SimpleTypes'
  BY DEF ChunkWritten, Answer, SimpleTypes, Inodes
<1>2. ChunkReqType'
  BY Zenon, <1>e
<1>3. DiskType'
  BY Zenon, <1>v
<1>4. ASSUME NEW u \in Transfers
      PROVE  WireOK(u)' /\ QuietOK(u)' /\ FileOK(u)' /\ ChunksOK(u)'
  <2> WireOK(u) /\ QuietOK(u) /\ FileOK(u) /\ ChunksOK(u)
    BY Zenon DEF IInv
  <2>1. WireOK(u)'
    BY DEF ChunkWritten, Answer, SimpleTypes, Inodes, WireOK, FileOK
  <2>2. QuietOK(u)'
    BY Zenon, <1>e, <1>l DEF QuietOK
  <2>3. FileOK(u)'
    BY <1>v DEF ChunkWritten, SimpleTypes, Inodes, FileOK
  <2>4. ChunksOK(u)'
    <3>1. ASSUME NEW b \in Chunks, Stored(u, b) PROVE Stored(u, b)'
      BY Zenon, <1>v, <3>1 DEF Stored
    <3>2. ASSUME entry[u] = "active", NEW b \in got[u] PROVE Stored(u, b)'
      BY Zenon, <3>1, <3>2 DEF SimpleTypes, ChunksOK
    <3>3. ASSUME entry[u] = "active", NEW b \in Chunks, NEW e \in Tries,
                 chunkReq'[u][<<b, e>>] = "written"
          PROVE  Stored(u, b)'
      <4>1. CASE u = t /\ <<b, e>> = <<c, a>>
        BY Zenon, <1>v, <3>3, <4>1 DEF FileOK, Stored
      <4>2. CASE ~(u = t /\ <<b, e>> = <<c, a>>)
        <5>1. <<b, e>> \in Chunks \X Tries
          BY Zenon
        <5>2. chunkReq[u][<<b, e>>] = "written"
          BY Zenon, <1>e, <3>3, <4>2, <5>1
        <5> QED
          BY Zenon, <3>1, <3>3, <5>2 DEF ChunksOK
      <4> QED
        BY Zenon, <4>1, <4>2
    <3> QED
      BY <3>2, <3>3, Zenon DEF ChunksOK
  <2> QED
    BY Zenon, <2>1, <2>2, <2>3, <2>4
<1>5. BurnLeavesNoItem'
  BY Zenon DEF IInv, BurnLeavesNoItem
<1> QED
  BY Zenon, <1>1, <1>2, <1>3, <1>4, <1>5 DEF IInv, Types

(* ReceiverCancels keeps the invariant. *)
LEMMA StepReceiverCancels ==
  ASSUME IInv, NEW t \in Transfers, ReceiverCancels(t)
  PROVE  IInv'
<1> SimpleTypes /\ ChunkReqType /\ DiskType
  BY Zenon DEF IInv, Types
<1> UNCHANGED <<send, item, startReq, chunkReq, finishReq, got, disk,
   writing, moved, row, rBurn>>
  BY Zenon DEF ReceiverCancels, UnlinkPart, senderVars, wireVars, fileVars,
     recvVars, burnVars
<1>1. SimpleTypes'
  BY ZenonT(40) DEF ReceiverCancels, UnlinkPart, SimpleTypes, Inodes
<1>2. ChunkReqType' /\ DiskType'
  BY Zenon DEF ChunkReqType, DiskType
<1>3. ASSUME NEW u \in Transfers
      PROVE  WireOK(u)' /\ QuietOK(u)' /\ FileOK(u)' /\ ChunksOK(u)'
  <2> WireOK(u) /\ QuietOK(u) /\ FileOK(u) /\ ChunksOK(u)
    BY Zenon DEF IInv
  <2>1. CASE u # t
    <3> /\ entry'[u] = entry[u]
        /\ part'[u] = part[u]
      BY Zenon, <2>1, Domains DEF ReceiverCancels, UnlinkPart
    <3> QED
      BY Zenon DEF WireOK, QuietOK, FileOK, ChunksOK, Stored
  <2>2. CASE u = t
    <3>1. WireOK(u)'
      BY Zenon, <2>2 DEF ReceiverCancels, UnlinkPart, SimpleTypes, Inodes, WireOK,
         FileOK
    <3>2. FileOK(u)'
      BY Zenon, <2>2 DEF ReceiverCancels, UnlinkPart, SimpleTypes, Inodes, WireOK,
         FileOK
    <3>3. ChunksOK(u)'
      <4> entry'[u] = "active" => entry[u] = "active"
        BY Zenon, <2>2 DEF ReceiverCancels, UnlinkPart, SimpleTypes
      <4> QED
        BY Zenon DEF ChunksOK, Stored
    <3>4. QuietOK(u)'
      BY Zenon DEF QuietOK
    <3> QED
      BY Zenon, <3>1, <3>2, <3>3, <3>4
  <2> QED
    BY Zenon, <2>1, <2>2
<1>4. BurnLeavesNoItem'
  BY Zenon DEF IInv, BurnLeavesNoItem
<1> QED
  BY Zenon, <1>1, <1>2, <1>3, <1>4 DEF IInv, Types

(* ReasonExpires keeps the invariant. *)
LEMMA StepReasonExpires ==
  ASSUME IInv, NEW t \in Transfers, ReasonExpires(t)
  PROVE  IInv'
<1> SimpleTypes /\ ChunkReqType /\ DiskType
  BY Zenon DEF IInv, Types
<1> UNCHANGED <<send, item, startReq, chunkReq, finishReq, entry, got, part,
   disk, writing, moved, row, rBurn>>
  BY Zenon DEF ReasonExpires, senderVars, wireVars, fileVars, recvVars, burnVars
<1>1. SimpleTypes' /\ ChunkReqType' /\ DiskType'
  BY Zenon DEF SimpleTypes, ChunkReqType, DiskType
<1>2. ASSUME NEW u \in Transfers
      PROVE  WireOK(u)' /\ QuietOK(u)' /\ FileOK(u)' /\ ChunksOK(u)'
  <2> WireOK(u) /\ QuietOK(u) /\ FileOK(u) /\ ChunksOK(u)
    BY Zenon DEF IInv
  <2> QED
    BY Zenon DEF WireOK, QuietOK, FileOK, ChunksOK, Stored
<1>3. BurnLeavesNoItem'
  BY Zenon DEF IInv, BurnLeavesNoItem
<1> QED
  BY Zenon, <1>1, <1>2, <1>3 DEF IInv, Types

(* ChunkWriteFails keeps the invariant. *)
LEMMA StepChunkWriteFails ==
  ASSUME IInv, NEW t \in Transfers, NEW c \in Chunks, NEW a \in Tries,
     ChunkWriteFails(t, c, a)
  PROVE  IInv'
<1> SimpleTypes /\ ChunkReqType /\ DiskType
  BY Zenon DEF IInv, Types
<1> UNCHANGED <<send, item, startReq, finishReq, got, disk, writing, moved,
   row, rBurn>>
  BY Zenon DEF ChunkWriteFails, Answer, FailReceiver, UnlinkPart, Count,
     senderVars, wireVars, fileVars, recvVars, burnVars
<1>r. PICK r \in {"failed"} : SetRequest(t, <<c, a>>, r)
  BY Zenon DEF ChunkWriteFails, Answer, SetRequest
<1>m. r \in ChunkStates
  BY Zenon DEF ChunkStates
<1>e. /\ ChunkReqType'
      /\ \A u \in Transfers, l \in Chunks \X Tries :
           chunkReq'[u][l] = IF u = t /\ l = <<c, a>> THEN r ELSE chunkReq[u][l]
  BY <1>r, <1>m, OneRequest
<1>l. startReq[t] = "ok"
  <2>1. chunkReq[t][<<c, a>>] # "none" /\ QuietOK(t) /\ <<c, a>> \in Chunks \X Tries
    BY Zenon DEF IInv, ChunkWriteFails
  <2> QED
    BY Zenon, <2>1 DEF QuietOK
<1>n. \A u \in Transfers, l \in Chunks \X Tries :
        chunkReq'[u][l] = "written" => chunkReq[u][l] = "written"
  BY Zenon, <1>e
<1>t. \A u \in Transfers, b \in Chunks : Stored(u, b) => Stored(u, b)'
  BY Zenon DEF Stored
<1>1. SimpleTypes'
  BY DEF ChunkWriteFails, Answer, FailReceiver, UnlinkPart, SimpleTypes,
     Inodes
<1>2. ChunkReqType'
  BY Zenon, <1>e
<1>3. DiskType'
  BY Zenon DEF DiskType
<1>4. ASSUME NEW u \in Transfers
      PROVE  WireOK(u)' /\ QuietOK(u)' /\ FileOK(u)' /\ ChunksOK(u)'
  <2> WireOK(u) /\ QuietOK(u) /\ FileOK(u) /\ ChunksOK(u)
    BY Zenon DEF IInv
  <2>1. WireOK(u)'
    BY DEF ChunkWriteFails, Answer, FailReceiver, UnlinkPart, SimpleTypes,
       Inodes, WireOK, FileOK
  <2>2. QuietOK(u)'
    BY Zenon, <1>e, <1>l DEF QuietOK
  <2>3. FileOK(u)'
    BY DEF ChunkWriteFails, Answer, FailReceiver, UnlinkPart, SimpleTypes,
       Inodes, WireOK, FileOK
  <2>4. ChunksOK(u)'
    <3>1. ASSUME entry[u] = "active", NEW b \in Chunks, NEW e \in Tries,
                 chunkReq'[u][<<b, e>>] = "written"
          PROVE  Stored(u, b)'
      <4>1. <<b, e>> \in Chunks \X Tries
        BY Zenon
      <4>2. chunkReq[u][<<b, e>>] = "written"
        BY <1>n, <3>1, <4>1, Zenon
      <4> QED
        BY <1>t, <3>1, <4>2, Zenon DEF ChunksOK
    <3>2. ASSUME entry[u] = "active", NEW b \in got[u] PROVE Stored(u, b)'
      <4>1. b \in Chunks
        BY Zenon DEF SimpleTypes
      <4> QED
        BY <1>t, <3>2, <4>1, Zenon DEF ChunksOK
    <3>3. entry'[u] = "active" => entry[u] = "active"
      BY ZenonT(40) DEF ChunkWriteFails, FailReceiver, SimpleTypes
    <3> QED
      BY <3>1, <3>2, <3>3, Zenon DEF ChunksOK
  <2> QED
    BY Zenon, <2>1, <2>2, <2>3, <2>4
<1>5. BurnLeavesNoItem'
  BY Zenon DEF IInv, BurnLeavesNoItem
<1> QED
  BY Zenon, <1>1, <1>2, <1>3, <1>4, <1>5 DEF IInv, Types

(* ChunkRecorded keeps the invariant. *)
LEMMA StepChunkRecorded ==
  ASSUME IInv, NEW t \in Transfers, NEW c \in Chunks, NEW a \in Tries,
     ChunkRecorded(t, c, a)
  PROVE  IInv'
<1> SimpleTypes /\ ChunkReqType /\ DiskType
  BY Zenon DEF IInv, Types
<1> UNCHANGED <<send, item, startReq, finishReq, entry, part, disk, writing,
   moved, row, rBurn>>
  BY Zenon DEF ChunkRecorded, Answer, Missing, senderVars, wireVars, fileVars,
     recvVars, burnVars
<1>r. PICK r \in {"ack", "left", "missing"} : SetRequest(t, <<c, a>>, r)
  BY Zenon DEF ChunkRecorded, Answer, Missing, SetRequest
<1>m. r \in ChunkStates
  BY Zenon DEF ChunkStates
<1>e. /\ ChunkReqType'
      /\ \A u \in Transfers, l \in Chunks \X Tries :
           chunkReq'[u][l] = IF u = t /\ l = <<c, a>> THEN r ELSE chunkReq[u][l]
  BY <1>r, <1>m, OneRequest
<1>l. startReq[t] = "ok"
  <2>1. chunkReq[t][<<c, a>>] # "none" /\ QuietOK(t) /\ <<c, a>> \in Chunks \X Tries
    BY Zenon DEF IInv, ChunkRecorded
  <2> QED
    BY Zenon, <2>1 DEF QuietOK
<1>n. \A u \in Transfers, l \in Chunks \X Tries :
        chunkReq'[u][l] = "written" => chunkReq[u][l] = "written"
  BY Zenon, <1>e
<1>t. \A u \in Transfers, b \in Chunks : Stored(u, b) => Stored(u, b)'
  BY Zenon DEF Stored
<1>1. SimpleTypes'
  BY DEF ChunkRecorded, Answer, Missing, SimpleTypes, Inodes
<1>2. ChunkReqType'
  BY Zenon, <1>e
<1>3. DiskType'
  BY Zenon DEF DiskType
<1>4. ASSUME NEW u \in Transfers
      PROVE  WireOK(u)' /\ QuietOK(u)' /\ FileOK(u)' /\ ChunksOK(u)'
  <2> WireOK(u) /\ QuietOK(u) /\ FileOK(u) /\ ChunksOK(u)
    BY Zenon DEF IInv
  <2>1. QuietOK(u)'
    BY Zenon, <1>e, <1>l DEF QuietOK
  <2>2. ChunksOK(u)'
    <3>1. ASSUME entry[u] = "active", NEW b \in Chunks, NEW e \in Tries,
                 chunkReq'[u][<<b, e>>] = "written"
          PROVE  Stored(u, b)'
      <4>1. <<b, e>> \in Chunks \X Tries
        BY Zenon
      <4>2. chunkReq[u][<<b, e>>] = "written"
        BY <1>n, <3>1, <4>1, Zenon
      <4> QED
        BY <1>t, <3>1, <4>2, Zenon DEF ChunksOK
    <3>2. ASSUME entry[u] = "active", NEW b \in got'[u] PROVE Stored(u, b)'
      <4>1. <<c, a>> \in Chunks \X Tries /\ chunkReq[t][<<c, a>>] = "written"
        BY Zenon DEF ChunkRecorded
      <4>2. u = t => Stored(u, c)
        BY Zenon, <3>2, <4>1 DEF ChunksOK
      <4>g. got \in [Transfers -> SUBSET Chunks]
        BY Zenon DEF SimpleTypes
      <4>h. got' = got \/ got' = [got EXCEPT ![t] = @ \cup {c}]
        BY Zenon DEF ChunkRecorded
      <4>3. b \in got[u] \/ (u = t /\ b = c)
        BY Zenon, <3>2, <4>g, <4>h
      <4>4. b \in Chunks
        BY Zenon, <4>3 DEF SimpleTypes
      <4> QED
        BY <1>t, <3>2, <4>2, <4>3, <4>4, Zenon DEF ChunksOK
    <3> QED
      BY <3>1, <3>2, Zenon DEF ChunksOK
  <2>3. WireOK(u)' /\ FileOK(u)'
    BY Zenon DEF WireOK, FileOK
  <2> QED
    BY Zenon, <2>1, <2>2, <2>3
<1>5. BurnLeavesNoItem'
  BY Zenon DEF IInv, BurnLeavesNoItem
<1> QED
  BY Zenon, <1>1, <1>2, <1>3, <1>4, <1>5 DEF IInv, Types

(* CancelArrives keeps the invariant. *)
LEMMA StepCancelArrives ==
  ASSUME IInv, NEW t \in Transfers, NEW k \in {"cancel", "failed"},
     CancelArrives(t, k)
  PROVE  IInv'
<1> SimpleTypes /\ ChunkReqType /\ DiskType
  BY Zenon DEF IInv, Types
<1> UNCHANGED <<send, item, startReq, chunkReq, finishReq, got, disk,
   writing, moved, row, rBurn>>
  BY Zenon DEF CancelArrives, UnlinkPart, senderVars, wireVars, fileVars,
     recvVars, burnVars
<1>1. SimpleTypes'
  BY DEF CancelArrives, UnlinkPart, SimpleTypes, Inodes
<1>2. ChunkReqType' /\ DiskType'
  BY Zenon DEF ChunkReqType, DiskType
<1>3. ASSUME NEW u \in Transfers
      PROVE  WireOK(u)' /\ QuietOK(u)' /\ FileOK(u)' /\ ChunksOK(u)'
  <2> WireOK(u) /\ QuietOK(u) /\ FileOK(u) /\ ChunksOK(u)
    BY Zenon DEF IInv
  <2>1. CASE u # t
    <3> /\ entry'[u] = entry[u]
        /\ part'[u] = part[u]
      BY Zenon, <2>1, Domains DEF CancelArrives, UnlinkPart
    <3> QED
      BY Zenon DEF WireOK, QuietOK, FileOK, ChunksOK, Stored
  <2>2. CASE u = t
    <3>1. WireOK(u)'
      BY Zenon, <2>2 DEF CancelArrives, UnlinkPart, SimpleTypes, Inodes, WireOK,
         FileOK
    <3>2. FileOK(u)'
      BY Zenon, <2>2 DEF CancelArrives, UnlinkPart, SimpleTypes, Inodes, WireOK,
         FileOK
    <3>3. ChunksOK(u)'
      <4> entry'[u] = "active" => entry[u] = "active"
        BY Zenon, <2>2 DEF CancelArrives, UnlinkPart, SimpleTypes
      <4> QED
        BY Zenon DEF ChunksOK, Stored
    <3>4. QuietOK(u)'
      BY Zenon DEF QuietOK
    <3> QED
      BY Zenon, <3>1, <3>2, <3>3, <3>4
  <2> QED
    BY Zenon, <2>1, <2>2
<1>4. BurnLeavesNoItem'
  BY Zenon DEF IInv, BurnLeavesNoItem
<1> QED
  BY Zenon, <1>1, <1>2, <1>3, <1>4 DEF IInv, Types

(* WriteLands keeps the invariant. *)
LEMMA StepWriteLands ==
  ASSUME IInv, NEW w \in writing, WriteLands(w)
  PROVE  IInv'
<1> SimpleTypes /\ ChunkReqType /\ DiskType
  BY Zenon DEF IInv, Types
<1> UNCHANGED <<send, item, startReq, chunkReq, finishReq, entry, got, part,
   moved, row, rBurn>>
  BY Zenon DEF WriteLands, senderVars, wireVars, fileVars, recvVars, burnVars
<1>p. PICK t \in Transfers, c \in Chunks, i \in Inodes : w = <<t, c, i>>
  BY DEF DiskType
<1>e. disk' = [disk EXCEPT ![t] = [disk[t] EXCEPT ![i] = disk[t][i] \cup {c}]]
  BY Zenon, <1>p DEF WriteLands, DiskType
<1>g. [disk[t] EXCEPT ![i] = disk[t][i] \cup {c}] \in [Inodes -> SUBSET Chunks]
  BY Zenon DEF DiskType
<1>v. ASSUME NEW u \in Transfers
      PROVE  /\ disk[u]["first"] \subseteq disk'[u]["first"]
             /\ disk[u]["first"] = Chunks => disk'[u]["first"] = Chunks
  <2>1. "first" \in Inodes
    BY Zenon DEF Inodes
  <2>2. disk[u]["first"] \in SUBSET Chunks /\ disk'[u]["first"] \in SUBSET Chunks
    BY <1>e, <1>g, <2>1 DEF DiskType
  <2>3. disk[u]["first"] \subseteq disk'[u]["first"]
    BY Zenon, <1>e, <1>g, <2>1 DEF DiskType
  <2> QED
    BY Zenon, <2>2, <2>3
<1>x. ASSUME NEW u \in Transfers, NEW b \in Chunks, Stored(u, b)
      PROVE  Stored(u, b)'
  <2>1. CASE <<u, b, "first">> = w
    <3>1. u = t /\ b = c /\ i = "first"
      BY <1>p, <2>1
    <3>2. b \in disk'[u]["first"]
      BY Zenon, <1>e, <1>g, <3>1 DEF DiskType
    <3> QED
      BY Zenon, <3>2 DEF Stored
  <2>2. CASE <<u, b, "first">> # w
    BY Zenon, <1>v, <1>x, <2>2 DEF Stored, WriteLands
  <2> QED
    BY Zenon, <2>1, <2>2
<1>1. DiskType'
  BY Zenon, <1>e, <1>g DEF DiskType, WriteLands
<1>2. SimpleTypes' /\ ChunkReqType'
  BY Zenon DEF SimpleTypes, ChunkReqType
<1>3. ASSUME NEW u \in Transfers
      PROVE  WireOK(u)' /\ QuietOK(u)' /\ FileOK(u)' /\ ChunksOK(u)'
  <2> WireOK(u) /\ QuietOK(u) /\ FileOK(u) /\ ChunksOK(u)
    BY Zenon DEF IInv
  <2>1. FileOK(u)'
    BY Zenon, <1>v DEF SimpleTypes, FileOK
  <2>2. ChunksOK(u)'
    BY Zenon, <1>x DEF SimpleTypes, ChunksOK
  <2>3. WireOK(u)' /\ QuietOK(u)'
    BY Zenon DEF WireOK, QuietOK
  <2> QED
    BY Zenon, <2>1, <2>2, <2>3
<1>4. BurnLeavesNoItem'
  BY Zenon DEF IInv, BurnLeavesNoItem
<1> QED
  BY Zenon, <1>1, <1>2, <1>3, <1>4 DEF IInv, Types

(* SenderBurnCutoff keeps the invariant. *)
LEMMA StepSenderBurnCutoff ==
  ASSUME IInv, SenderBurnCutoff
  PROVE  IInv'
<1> SimpleTypes /\ ChunkReqType /\ DiskType
  BY Zenon DEF IInv, Types
<1> UNCHANGED <<send, item, startReq, chunkReq, finishReq, entry, got, part,
   disk, writing, moved, row, rBurn>>
  BY Zenon DEF SenderBurnCutoff, Count, senderVars, wireVars, fileVars, recvVars,
     burnVars
<1>1. SimpleTypes' /\ ChunkReqType' /\ DiskType'
  BY Zenon DEF SimpleTypes, ChunkReqType, DiskType
<1>2. ASSUME NEW u \in Transfers
      PROVE  WireOK(u)' /\ QuietOK(u)' /\ FileOK(u)' /\ ChunksOK(u)'
  <2> WireOK(u) /\ QuietOK(u) /\ FileOK(u) /\ ChunksOK(u)
    BY Zenon DEF IInv
  <2> QED
    BY Zenon DEF WireOK, QuietOK, FileOK, ChunksOK, Stored
<1>3. BurnLeavesNoItem'
  BY Zenon DEF IInv, BurnLeavesNoItem
<1> QED
  BY Zenon, <1>1, <1>2, <1>3 DEF IInv, Types

(* SenderBurnCleanup keeps the invariant. *)
LEMMA StepSenderBurnCleanup ==
  ASSUME IInv, SenderBurnCleanup
  PROVE  IInv'
<1> SimpleTypes /\ ChunkReqType /\ DiskType
  BY Zenon DEF IInv, Types
<1> UNCHANGED <<send, startReq, chunkReq, finishReq, entry, got, part, disk,
   writing, moved, row, rBurn>>
  BY Zenon DEF SenderBurnCleanup, senderVars, wireVars, fileVars, recvVars,
     burnVars
<1>1. SimpleTypes'
  BY Zenon DEF SenderBurnCleanup, SimpleTypes, Inodes
<1>2. ChunkReqType' /\ DiskType'
  BY Zenon DEF ChunkReqType, DiskType
<1>3. ASSUME NEW u \in Transfers
      PROVE  WireOK(u)' /\ QuietOK(u)' /\ FileOK(u)' /\ ChunksOK(u)'
  <2> WireOK(u) /\ QuietOK(u) /\ FileOK(u) /\ ChunksOK(u)
    BY Zenon DEF IInv
  <2>1. WireOK(u)'
    BY Zenon DEF SenderBurnCleanup, SimpleTypes, Inodes, WireOK, FileOK
  <2>2. FileOK(u)'
    BY Zenon DEF SenderBurnCleanup, SimpleTypes, Inodes, WireOK, FileOK
  <2>3. QuietOK(u)' /\ ChunksOK(u)'
    BY Zenon DEF QuietOK, ChunksOK, Stored
  <2> QED
    BY Zenon, <2>1, <2>2, <2>3
<1>4. BurnLeavesNoItem'
  BY Zenon DEF IInv, BurnLeavesNoItem
<1> QED
  BY Zenon, <1>1, <1>2, <1>3, <1>4 DEF IInv, Types

(* LeaveRoom keeps the invariant. *)
LEMMA StepLeaveRoom ==
  ASSUME IInv, LeaveRoom
  PROVE  IInv'
<1> SimpleTypes /\ ChunkReqType /\ DiskType
  BY Zenon DEF IInv, Types
<1> UNCHANGED <<send, item, startReq, chunkReq, finishReq, got, disk,
   writing, moved, row, rBurn>>
  BY Zenon DEF LeaveRoom, cancel_room_transfers, senderVars, wireVars, fileVars,
     recvVars, burnVars
<1>1. SimpleTypes'
  BY ZenonT(40) DEF LeaveRoom, cancel_room_transfers, SimpleTypes, Inodes
<1>2. ChunkReqType' /\ DiskType'
  BY Zenon DEF ChunkReqType, DiskType
<1>3. ASSUME NEW u \in Transfers
      PROVE  WireOK(u)' /\ QuietOK(u)' /\ FileOK(u)' /\ ChunksOK(u)'
  <2> WireOK(u) /\ QuietOK(u) /\ FileOK(u) /\ ChunksOK(u)
    BY Zenon DEF IInv
  <2>1. WireOK(u)'
    BY Zenon DEF LeaveRoom, cancel_room_transfers, SimpleTypes, Inodes, WireOK,
       FileOK
  <2>2. FileOK(u)'
    BY Zenon DEF LeaveRoom, cancel_room_transfers, SimpleTypes, Inodes, WireOK,
       FileOK
  <2>3. ChunksOK(u)'
    BY Zenon DEF LeaveRoom, cancel_room_transfers, SimpleTypes, WireOK, QuietOK,
       ChunksOK, Stored
  <2>4. QuietOK(u)'
    BY Zenon DEF QuietOK
  <2> QED
    BY Zenon, <2>1, <2>2, <2>3, <2>4
<1>4. BurnLeavesNoItem'
  BY Zenon DEF IInv, BurnLeavesNoItem
<1> QED
  BY Zenon, <1>1, <1>2, <1>3, <1>4 DEF IInv, Types

(* BurnCutoff keeps the invariant. *)
LEMMA StepBurnCutoff ==
  ASSUME IInv, BurnCutoff
  PROVE  IInv'
<1> SimpleTypes /\ ChunkReqType /\ DiskType
  BY Zenon DEF IInv, Types
<1> UNCHANGED <<send, item, startReq, chunkReq, finishReq, entry, got, part,
   disk, writing, moved, row>>
  BY Zenon DEF BurnCutoff, Count, senderVars, wireVars, fileVars, recvVars,
     burnVars
<1>1. SimpleTypes' /\ ChunkReqType' /\ DiskType'
  BY Zenon DEF SimpleTypes, ChunkReqType, DiskType
<1>2. ASSUME NEW u \in Transfers
      PROVE  WireOK(u)' /\ QuietOK(u)' /\ FileOK(u)' /\ ChunksOK(u)'
  <2> WireOK(u) /\ QuietOK(u) /\ FileOK(u) /\ ChunksOK(u)
    BY Zenon DEF IInv
  <2> QED
    BY Zenon DEF WireOK, QuietOK, FileOK, ChunksOK, Stored
<1>3. BurnLeavesNoItem'
  BY Zenon DEF BurnCutoff, IInv, SimpleTypes, BurnLeavesNoItem
<1> QED
  BY Zenon, <1>1, <1>2, <1>3 DEF IInv, Types

(* BurnCancels keeps the invariant. *)
LEMMA StepBurnCancels ==
  ASSUME IInv, BurnCancels
  PROVE  IInv'
<1> SimpleTypes /\ ChunkReqType /\ DiskType
  BY Zenon DEF IInv, Types
<1> UNCHANGED <<send, item, startReq, chunkReq, finishReq, got, disk,
   writing, moved, row>>
  BY Zenon DEF BurnCancels, cancel_room_transfers, senderVars, wireVars, fileVars,
     recvVars, burnVars
<1>1. SimpleTypes'
  BY ZenonT(40) DEF BurnCancels, cancel_room_transfers, SimpleTypes, Inodes
<1>2. ChunkReqType' /\ DiskType'
  BY Zenon DEF ChunkReqType, DiskType
<1>3. ASSUME NEW u \in Transfers
      PROVE  WireOK(u)' /\ QuietOK(u)' /\ FileOK(u)' /\ ChunksOK(u)'
  <2> WireOK(u) /\ QuietOK(u) /\ FileOK(u) /\ ChunksOK(u)
    BY Zenon DEF IInv
  <2>1. WireOK(u)'
    BY Zenon DEF BurnCancels, cancel_room_transfers, SimpleTypes, Inodes, WireOK,
       FileOK
  <2>2. FileOK(u)'
    BY Zenon DEF BurnCancels, cancel_room_transfers, SimpleTypes, Inodes, WireOK,
       FileOK
  <2>3. ChunksOK(u)'
    BY Zenon DEF BurnCancels, cancel_room_transfers, SimpleTypes, WireOK, QuietOK,
       ChunksOK, Stored
  <2>4. QuietOK(u)'
    BY Zenon DEF QuietOK
  <2> QED
    BY Zenon, <2>1, <2>2, <2>3, <2>4
<1>4. BurnLeavesNoItem'
  BY Zenon DEF BurnCancels, cancel_room_transfers, IInv, SimpleTypes,
     BurnLeavesNoItem
<1> QED
  BY Zenon, <1>1, <1>2, <1>3, <1>4 DEF IInv, Types

(* BurnFinalizes keeps the invariant. *)
LEMMA StepBurnFinalizes ==
  ASSUME IInv, BurnFinalizes
  PROVE  IInv'
<1> SimpleTypes /\ ChunkReqType /\ DiskType
  BY Zenon DEF IInv, Types
<1> UNCHANGED <<send, item, startReq, chunkReq, finishReq, entry, got, disk,
   writing, moved>>
  BY Zenon DEF BurnFinalizes, finalize_burned_room, senderVars, wireVars,
     fileVars, recvVars, burnVars
<1>1. SimpleTypes'
  BY ZenonT(40) DEF BurnFinalizes, finalize_burned_room, SimpleTypes, Inodes
<1>2. ChunkReqType' /\ DiskType'
  BY Zenon DEF ChunkReqType, DiskType
<1>3. ASSUME NEW u \in Transfers
      PROVE  WireOK(u)' /\ QuietOK(u)' /\ FileOK(u)' /\ ChunksOK(u)'
  <2> WireOK(u) /\ QuietOK(u) /\ FileOK(u) /\ ChunksOK(u)
    BY Zenon DEF IInv
  <2>1. WireOK(u)'
    BY Zenon DEF BurnFinalizes, finalize_burned_room, SimpleTypes, Inodes, WireOK,
       FileOK
  <2>2. FileOK(u)'
    BY Zenon DEF BurnFinalizes, finalize_burned_room, SimpleTypes, Inodes, WireOK,
       FileOK
  <2>3. QuietOK(u)' /\ ChunksOK(u)'
    BY Zenon DEF QuietOK, ChunksOK, Stored
  <2> QED
    BY Zenon, <2>1, <2>2, <2>3
<1>4. BurnLeavesNoItem'
  BY Zenon DEF BurnFinalizes, finalize_burned_room, IInv, SimpleTypes,
     BurnLeavesNoItem
<1> QED
  BY Zenon, <1>1, <1>2, <1>3, <1>4 DEF IInv, Types

(* Restart keeps the invariant. *)
LEMMA StepRestart ==
  ASSUME IInv, Restart
  PROVE  IInv'
<1> SimpleTypes /\ ChunkReqType /\ DiskType
  BY Zenon DEF IInv, Types
<1> UNCHANGED <<send, item, got, disk, moved>>
  BY Zenon DEF Restart, Lose, Handled, Count, senderVars, wireVars, fileVars,
     recvVars, burnVars
<1>1. SimpleTypes'
  BY Zenon DEF Restart, Lose, Handled, SimpleTypes, Inodes
<1>2. ChunkReqType'
  BY Zenon DEF Restart, Lose, Handled, ChunkReqType, ChunkStates
<1>3. DiskType'
  BY Zenon DEF Restart, Lose, Handled, DiskType
<1>4. ASSUME NEW u \in Transfers
      PROVE  WireOK(u)' /\ QuietOK(u)' /\ FileOK(u)' /\ ChunksOK(u)'
  <2> WireOK(u) /\ QuietOK(u) /\ FileOK(u) /\ ChunksOK(u)
    BY Zenon DEF IInv
  <2>1. WireOK(u)'
    BY Zenon DEF Restart, Lose, Handled, SimpleTypes, Inodes, WireOK, FileOK
  <2>2. QuietOK(u)'
    BY Zenon DEF Restart, Lose, Handled, SimpleTypes, WireOK, QuietOK
  <2>3. FileOK(u)'
    BY Zenon DEF Restart, Lose, Handled, SimpleTypes, Inodes, WireOK, FileOK
  <2>4. ChunksOK(u)'
    BY Zenon DEF Restart, Lose, Handled, SimpleTypes, WireOK, QuietOK, ChunksOK,
       Stored
  <2> QED
    BY Zenon, <2>1, <2>2, <2>3, <2>4
<1>5. BurnLeavesNoItem'
  BY Zenon DEF Restart, Lose, Handled, IInv, SimpleTypes, BurnLeavesNoItem
<1> QED
  BY Zenon, <1>1, <1>2, <1>3, <1>4, <1>5 DEF IInv, Types

(* Every step of the send task, a handler, a cancel, a Burn or a restart   *)
(* keeps the invariant.                                                    *)
LEMMA Preserved == IInv /\ [Next]_vars => IInv'
<1> SUFFICES ASSUME IInv, [Next]_vars PROVE IInv'
  BY Zenon
<1>1. CASE UNCHANGED vars
  <2>1. UNCHANGED <<send, item, startReq, chunkReq, finishReq, entry, got, part,
                    disk, writing, moved, row, rBurn>>
    BY Zenon, <1>1 DEF vars, senderVars, wireVars, fileVars, recvVars, burnVars
  <2>2. Types'
    BY <2>1, Zenon DEF IInv, Types, SimpleTypes, ChunkReqType, DiskType
  <2>3. ASSUME NEW u \in Transfers
        PROVE  WireOK(u)' /\ QuietOK(u)' /\ FileOK(u)' /\ ChunksOK(u)'
    <3> WireOK(u) /\ QuietOK(u) /\ FileOK(u) /\ ChunksOK(u)
      BY Zenon DEF IInv
    <3> QED
      BY <2>1, Zenon DEF WireOK, QuietOK, FileOK, ChunksOK, Stored
  <2>4. BurnLeavesNoItem'
    BY Zenon, <2>1 DEF IInv, BurnLeavesNoItem
  <2>5. QED
    BY Zenon, <2>2, <2>3, <2>4 DEF IInv
<1>2. CASE \E t \in Transfers : CheckSend(t)
  BY Zenon, <1>2, StepCheckSend
<1>3. CASE \E t \in Transfers : RegisterSend(t)
  BY Zenon, <1>3, StepRegisterSend
<1>4. CASE \E t \in Transfers : StartAccepted(t)
  BY Zenon, <1>4, StepStartAccepted
<1>5. CASE \E t \in Transfers : OpenFails(t)
  BY Zenon, <1>5, StepOpenFails
<1>6. CASE \E t \in Transfers : StartEnds(t)
  BY Zenon, <1>6, StepStartEnds
<1>7. CASE \E t \in Transfers : SendChunk(t)
  BY Zenon, <1>7, StepSendChunk
<1>8. CASE \E t \in Transfers : ReadEof(t)
  BY Zenon, <1>8, StepReadEof
<1>9. CASE \E t \in Transfers : SourceFails(t)
  BY Zenon, <1>9, StepSourceFails
<1>10. CASE \E t \in Transfers : ReadStops(t)
  BY Zenon, <1>10, StepReadStops
<1>11. CASE \E t \in Transfers : SendFinish(t)
  BY Zenon, <1>11, StepSendFinish
<1>12. CASE \E t \in Transfers : FinishEnds(t)
  BY Zenon, <1>12, StepFinishEnds
<1>13. CASE \E t \in Transfers : cancel_transfer(t)
  BY Zenon, <1>13, Stepcancel_transfer
<1>14. CASE \E t \in Transfers : PeerEndsTransfer(t)
  BY Zenon, <1>14, StepPeerEndsTransfer
<1>15. CASE \E t \in Transfers : StartNamed(t)
  BY Zenon, <1>15, StepStartNamed
<1>16. CASE \E t \in Transfers : StartCreated(t)
  BY Zenon, <1>16, StepStartCreated
<1>17. CASE \E t \in Transfers : StartFails(t)
  BY Zenon, <1>17, StepStartFails
<1>18. CASE \E t \in Transfers : StartRegistered(t)
  BY Zenon, <1>18, StepStartRegistered
<1>19. CASE \E t \in Transfers : FinishTaken(t)
  BY Zenon, <1>19, StepFinishTaken
<1>20. CASE \E t \in Transfers : FinishChecked(t)
  BY Zenon, <1>20, StepFinishChecked
<1>21. CASE \E t \in Transfers : FinishHashed(t)
  BY Zenon, <1>21, StepFinishHashed
<1>22. CASE \E t \in Transfers : FinishRenames(t)
  BY Zenon, <1>22, StepFinishRenames
<1>23. CASE \E t \in Transfers : FinishRenamed(t)
  BY Zenon, <1>23, StepFinishRenamed
<1>24. CASE \E t \in Transfers : FinishPersists(t)
  BY Zenon, <1>24, StepFinishPersists
<1>25. CASE \E t \in Transfers : FinishPersisted(t)
  BY Zenon, <1>25, StepFinishPersisted
<1>26. CASE \E t \in Transfers : FinishAnswered(t)
  BY Zenon, <1>26, StepFinishAnswered
<1>27. CASE \E t \in Transfers : FinishFails(t)
  BY Zenon, <1>27, StepFinishFails
<1>28. CASE \E t \in Transfers : ReceiverCancels(t)
  BY Zenon, <1>28, StepReceiverCancels
<1>29. CASE \E t \in Transfers : ReasonExpires(t)
  BY Zenon, <1>29, StepReasonExpires
<1>30. CASE \E t \in Transfers, c \in Chunks : ChunkAcked(t, c)
  BY Zenon, <1>30, StepChunkAcked
<1>31. CASE \E t \in Transfers, c \in Chunks : ChunkRetried(t, c)
  BY Zenon, <1>31, StepChunkRetried
<1>32. CASE \E t \in Transfers, c \in Chunks : ChunkFails(t, c)
  BY Zenon, <1>32, StepChunkFails
<1>33. CASE \E t \in Transfers, c \in Chunks, a \in Tries : ChunkLookup(t, c, a)
  BY Zenon, <1>33, StepChunkLookup
<1>34. CASE \E t \in Transfers, c \in Chunks, a \in Tries : ChunkWritten(t, c, a)
  BY Zenon, <1>34, StepChunkWritten
<1>35. CASE \E t \in Transfers, c \in Chunks, a \in Tries : ChunkWriteFails(t, c, a)
  BY Zenon, <1>35, StepChunkWriteFails
<1>36. CASE \E t \in Transfers, c \in Chunks, a \in Tries : ChunkRecorded(t, c, a)
  BY Zenon, <1>36, StepChunkRecorded
<1>37. CASE \E t \in Transfers, k \in {"cancel", "failed"} : CancelArrives(t, k)
  BY Zenon, <1>37, StepCancelArrives
<1>38. CASE \E w \in writing : WriteLands(w)
  BY Zenon, <1>38, StepWriteLands
<1>39. CASE SenderBurnCutoff
  BY Zenon, <1>39, StepSenderBurnCutoff
<1>40. CASE SenderBurnCleanup
  BY Zenon, <1>40, StepSenderBurnCleanup
<1>41. CASE LeaveRoom
  BY Zenon, <1>41, StepLeaveRoom
<1>42. CASE BurnCutoff
  BY Zenon, <1>42, StepBurnCutoff
<1>43. CASE BurnCancels
  BY Zenon, <1>43, StepBurnCancels
<1>44. CASE BurnFinalizes
  BY Zenon, <1>44, StepBurnFinalizes
<1>45. CASE Restart
  BY Zenon, <1>45, StepRestart
<1> QED
  BY Zenon, <1>1, <1>2, <1>3, <1>4, <1>5, <1>6, <1>7, <1>8, <1>9, <1>10, <1>11,
     <1>12, <1>13, <1>14, <1>15, <1>16, <1>17, <1>18, <1>19, <1>20, <1>21,
     <1>22, <1>23, <1>24, <1>25, <1>26, <1>27, <1>28, <1>29, <1>30, <1>31,
     <1>32, <1>33, <1>34, <1>35, <1>36, <1>37, <1>38, <1>39, <1>40, <1>41,
     <1>42, <1>43, <1>44, <1>45 DEF Next, SendTask, ReceiverHandlers

(* The invariant holds in every reachable state.                           *)
THEOREM Invariant == Spec => []IInv
<1>1. Init => IInv
  BY Zenon, Initially
<1>2. IInv /\ [Next]_vars => IInv'
  BY Zenon, Preserved
<1>3. QED
  BY <1>1, <1>2, PTL DEF Spec

(* An item the sender shows as sent was finalized by the receiver with     *)
(* every byte on disk.                                                     *)
THEOREM SentIsDelivered == Spec => []SentMeansDelivered
<1>1. IInv => SentMeansDelivered
  <2>1. ASSUME IInv, NEW t \in Transfers, item[t] = "sent"
        PROVE  Whole(t) /\ finishReq[t] = "ok"
    <3>1. FileOK(t)
      BY Zenon, <2>1 DEF IInv
    <3>2. finishReq[t] = "ok" /\ moved[t] = "first" /\ disk[t]["first"] = Chunks
      BY Zenon, <2>1, <3>1 DEF FileOK
    <3>3. QED
      BY Zenon, <3>2 DEF Whole
  <2>2. QED
    BY Zenon, <2>1 DEF SentMeansDelivered
<1>2. QED
  BY <1>1, Invariant, PTL

(* A received item's file is complete although chunks are acknowledged     *)
(* before they are on disk.                                                *)
THEOREM ReceivedFilesAreWhole == Spec => []ReceivedIsWhole
<1>1. IInv => ReceivedIsWhole
  BY Zenon DEF IInv, FileOK, ReceivedIsWhole, Whole
<1>2. QED
  BY <1>1, Invariant, PTL

(* A chunk counted as received is, or will be, in the file that is hashed. *)
THEOREM CountedChunksAreWritten == Spec => []ReceivedChunksWritten
<1>1. IInv => ReceivedChunksWritten
  BY Zenon DEF IInv, FileOK, ChunksOK, Stored, ReceivedChunksWritten
<1>2. QED
  BY <1>1, Invariant, PTL

(* Between taking the entry and the rename, finalization owns its file.    *)
THEOREM FinalizationOwnsItsFile == Spec => []FinishOwnsPart
<1>1. IInv => FinishOwnsPart
  BY Zenon DEF IInv, FileOK, FinishOwnsPart
<1>2. QED
  BY <1>1, Invariant, PTL

(* A finished Burn leaves no received item.                                *)
THEOREM BurnRemovesItems == Spec => []BurnLeavesNoItem
<1>1. IInv => BurnLeavesNoItem
  BY Zenon DEF IInv
<1>2. QED
  BY <1>1, Invariant, PTL
=============================================================================
