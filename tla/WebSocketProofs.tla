-------------------------- MODULE WebSocketProofs --------------------------
(***************************************************************************)
(* Proofs about WebSocket, for any goroutines that close, any frames and   *)
(* any deadlines.  The argument: writeMu is held exactly from a header to  *)
(* the end of its payload, so at most one frame is begun; and what a       *)
(* failed write leaves behind is followed by nothing over TLS.  Then the   *)
(* pings, and the messages.                                                *)
(***************************************************************************)
EXTENDS WebSocket, SequenceTheorems, FiniteSetTheorems, TLAPS

(* writeMu, and the frame that is begun, if the last write did not fail    *)
Mutex == \A p \in Procs : (holder = p) <=> (at[p] \in {"header", "payload"})

FrameBegun ==
    ~failed => /\ \A p \in Procs : at[p] = "payload" => begun = <<p, kind[p]>>
               /\ (\A p \in Procs : at[p] # "payload") => begun = << >>

Begun == FrameBegun /\ FramesWhole

Kinds == {"text", "pong", "reply", "close"}
Outside == Places \ {"header", "payload"}

(* The types that say where each goroutine is and what it writes *)
ProcTypes ==
    /\ at \in [Procs -> Places] /\ kind \in [Procs -> Kinds]
    /\ holder \in Procs \cup {"none"} /\ gatewayMu \in Users \cup {"none"}
    /\ Mutex

(* Those of the connection *)
SockTypes ==
    /\ sock \in {"dial", "handshake", "open", "closed", "failed"} /\ tls \in BOOLEAN
    /\ deadline \in Int /\ readBy \in Int /\ writes \in Nat
    /\ failed \in BOOLEAN /\ fault \in BOOLEAN

(* Those of what is read, and of what is written *)
ReadTypes ==
    frames \in Seq(Frame) /\ message \in Seq(Nat) /\ delivered \in Seq(Seq(Nat))
WireTypes ==
    /\ begun \in {<< >>} \cup (Procs \X Kinds)
    /\ torn \in BOOLEAN /\ pongs \in Nat

(* The types are those of the parts. *)
LEMMA TypeParts == TypeOK <=> ProcTypes /\ SockTypes /\ ReadTypes /\ WireTypes
BY DEF TypeOK, ProcTypes, SockTypes, ReadTypes, WireTypes, Mutex, Kinds

(* A goroutine that goes from one place outside of writeFrame to another   *)
(* touches neither the mutex nor the frame that is begun.                  *)
LEMMA MovesOutside ==
    ASSUME ProcTypes, Begun, NEW p \in Procs, NEW place \in Outside, NEW k \in Kinds,
           at[p] \notin {"header", "payload"}, at' = [at EXCEPT ![p] = place],
           kind' = [kind EXCEPT ![p] = k] \/ kind' = kind,
           gatewayMu' \in Users \cup {"none"},
           UNCHANGED <<holder, failed, tls, begun, torn>>
    PROVE  ProcTypes' /\ Begun'
<1>1. /\ at' \in [Procs -> Places] /\ kind' \in [Procs -> Kinds]
      /\ holder' \in Procs \cup {"none"}
  BY DEF ProcTypes, Outside
<1>2. \A q \in Procs : at'[q] = (IF q = p THEN place ELSE at[q])
  BY DEF ProcTypes
<1>3. place \notin {"header", "payload"}
  BY DEF Outside
<1>4. Mutex'
  BY <1>2, <1>3 DEF Mutex, ProcTypes
<1>5. \A q \in Procs : at'[q] = "payload" <=> at[q] = "payload"
  BY <1>2, <1>3
<1>6. \A q \in Procs : at[q] = "payload" => kind'[q] = kind[q]
  BY <1>1 DEF ProcTypes
<1>7. FrameBegun'
  BY <1>5, <1>6 DEF Begun, FrameBegun
<1>8. FramesWhole'
  BY DEF Begun, FramesWhole
<1> QED
  BY <1>1, <1>4, <1>7, <1>8 DEF ProcTypes, Begun

(* A step that moves nobody keeps all of it. *)
LEMMA NobodyMoves ==
    ASSUME ProcTypes, Begun, UNCHANGED <<procVars, failed, tls, begun, torn>>
    PROVE  ProcTypes' /\ Begun'
BY DEF ProcTypes, Mutex, Begun, FrameBegun, FramesWhole, procVars

(* Where a goroutine goes on after a frame is outside of writeFrame. *)
LEMMA NextPlaceOutside ==
    ASSUME ProcTypes, NEW p \in Procs, NEW ok \in BOOLEAN
    PROVE  NextPlace(p, ok) \in Outside
<1>1. kind[p] \in Kinds
  BY DEF ProcTypes
<1>2. CASE kind[p] = "close"
  BY <1>2 DEF NextPlace, Outside, Places
<1>3. CASE kind[p] = "pong"
  BY <1>3 DEF NextPlace, Outside, Places
<1>4. CASE kind[p] = "text"
  BY <1>4 DEF NextPlace, Outside, Places
<1>5. CASE kind[p] = "reply"
  BY <1>5 DEF NextPlace, Outside, Places
<1> QED
  BY <1>1, <1>2, <1>3, <1>4, <1>5 DEF Kinds

(* At the end of a frame, whole or not, writeMu is free. *)
LEMMA WrittenTypes ==
    ASSUME ProcTypes, NEW p \in Procs, NEW ok \in BOOLEAN, Written(p, ok),
           at[p] \in {"header", "payload"}, UNCHANGED kind
    PROVE  /\ ProcTypes'
           /\ \A q \in Procs : at'[q] # "payload"
<1> DEFINE place == NextPlace(p, ok)
<1>1. place \in Outside
  BY NextPlaceOutside
<1>2. at' = [at EXCEPT ![p] = place] /\ holder' = "none"
  BY DEF Written, Go
<1>3. gatewayMu' \in Users \cup {"none"}
  BY DEF Written, ProcTypes
<1> HIDE DEF place
<1>4. place \in Places /\ place \notin {"header", "payload"}
  BY <1>1 DEF Outside
<1>5. \A q \in Procs : at'[q] = (IF q = p THEN place ELSE at[q])
  BY <1>2 DEF ProcTypes
<1>6. holder = p
  BY DEF ProcTypes, Mutex
<1>7. \A q \in Procs : q # p => at[q] \notin {"header", "payload"}
  BY <1>6 DEF ProcTypes, Mutex
<1>8. \A q \in Procs : at'[q] \notin {"header", "payload"}
  BY <1>4, <1>5, <1>7
<1>9. "none" \notin Procs
  BY CloserAssumption DEF Procs, Users
<1>10. Mutex'
  BY <1>2, <1>8, <1>9 DEF Mutex
<1>11. at' \in [Procs -> Places]
  BY <1>2, <1>4 DEF ProcTypes
<1> QED
  BY <1>2, <1>3, <1>8, <1>10, <1>11 DEF ProcTypes

(* The initial state: nobody writes. *)
LEMMA InitInv == Init => ProcTypes /\ SockTypes /\ ReadTypes /\ WireTypes /\ Begun
<1> SUFFICES ASSUME Init PROVE ProcTypes /\ SockTypes /\ ReadTypes /\ WireTypes /\ Begun
  OBVIOUS
<1>1. \A p \in Procs : at[p] = "idle"
  BY DEF Init
<1>2. "none" \notin Procs
  BY CloserAssumption DEF Procs, Users
<1>3. ProcTypes
  BY <1>1, <1>2 DEF Init, ProcTypes, Mutex, Places, Kinds
<1>4. SockTypes
  <2>1. deadline \in Int /\ readBy \in Int /\ writes \in Nat
    BY DEF Init, Never
  <2>2. tls \in BOOLEAN /\ failed \in BOOLEAN /\ fault \in BOOLEAN
    BY DEF Init
  <2> QED
    BY <2>1, <2>2 DEF Init, SockTypes
<1>5. << >> \in Seq(Frame) /\ << >> \in Seq(Nat) /\ << >> \in Seq(Seq(Nat))
  BY EmptySeq
<1>6. ReadTypes
  BY <1>5 DEF Init, ReadTypes
<1>7. WireTypes
  BY DEF Init, WireTypes
<1>8. Begun
  BY <1>1 DEF Init, Begun, FrameBegun, FramesWhole
<1> QED
  BY <1>3, <1>4, <1>6, <1>7, <1>8

(* writeFrame: the only steps that move the mutex and the frame.           *)
LEMMA LockStep ==
    ASSUME ProcTypes, Begun, NEW p \in Procs, Lock(p)
    PROVE  ProcTypes' /\ Begun'
<1>1. at[p] = "lock" /\ holder = "none" /\ holder' = p /\ at' = [at EXCEPT ![p] = "header"]
  BY DEF Lock, Go
<1>2. UNCHANGED <<kind, gatewayMu, failed, tls, begun, torn>>
  BY DEF Lock, wireVars
<1>3. \A q \in Procs : at'[q] = (IF q = p THEN "header" ELSE at[q])
  BY <1>1 DEF ProcTypes
<1>4. "none" \notin Procs
  BY CloserAssumption DEF Procs, Users
<1>5. \A q \in Procs : at[q] \notin {"header", "payload"}
  BY <1>1, <1>4 DEF ProcTypes, Mutex
<1>6. Mutex'
  BY <1>1, <1>3, <1>5 DEF Mutex
<1>7. at' \in [Procs -> Places]
  BY <1>1 DEF ProcTypes, Places
<1>8. Begun'
  BY <1>2, <1>3, <1>5 DEF Begun, FrameBegun, FramesWhole
<1> QED
  BY <1>1, <1>2, <1>6, <1>7, <1>8 DEF ProcTypes

(* A header may be written only when no frame is begun, and the payload    *)
(* follows its own header.                                                 *)
LEMMA HeaderStep ==
    ASSUME ProcTypes, SockTypes, WireTypes, Begun, NEW p \in Procs, WritePiece(p), at[p] = "header"
    PROVE  ProcTypes' /\ WireTypes' /\ Begun'
<1>1. /\ begun' = <<p, kind[p]>> /\ torn' = (torn \/ begun # << >>)
      /\ at' = [at EXCEPT ![p] = "payload"]
      /\ UNCHANGED <<kind, holder, gatewayMu, pongs, failed, tls>>
  BY DEF WritePiece, Go
<1>2. \A q \in Procs : at'[q] = (IF q = p THEN "payload" ELSE at[q])
  BY <1>1 DEF ProcTypes
<1>3. \A q \in Procs : q # p => at[q] \notin {"header", "payload"}
  BY DEF ProcTypes, Mutex
<1>4. Mutex'
  BY <1>1, <1>2 DEF ProcTypes, Mutex
<1>5. ProcTypes'
  <2>1. at' \in [Procs -> Places]
    BY <1>1 DEF ProcTypes, Places
  <2> QED
    BY <1>1, <1>4, <2>1 DEF ProcTypes
<1>6. WireTypes'
  <2>1. kind[p] \in Kinds
    BY DEF ProcTypes
  <2>2. begun' \in Procs \X Kinds
    BY <1>1, <2>1
  <2>3. torn' \in BOOLEAN
    BY <1>1
  <2> QED
    BY <1>1, <2>2, <2>3 DEF WireTypes
<1>7. FrameBegun'
  BY <1>1, <1>2, <1>3 DEF FrameBegun
<1>8. (tls \/ ~failed) => ~failed
  BY DEF WritePiece, Refused
<1>9. FramesWhole'
  <2> SUFFICES ASSUME tls \/ ~failed PROVE ~torn'
    BY <1>1 DEF FramesWhole
  <2>1. begun = << >>
    BY <1>3, <1>8 DEF Begun, FrameBegun
  <2>2. ~torn
    BY DEF Begun, FramesWhole
  <2> QED
    BY <1>1, <2>1, <2>2
<1> QED
  BY <1>5, <1>6, <1>7, <1>9 DEF Begun

(* The payload continues the header that was written last. *)
LEMMA PayloadStep ==
    ASSUME ProcTypes, SockTypes, WireTypes, Begun, NEW p \in Procs, WritePiece(p), at[p] = "payload"
    PROVE  ProcTypes' /\ WireTypes' /\ Begun'
<1>1. /\ begun' = << >> /\ torn' = (torn \/ begun # <<p, kind[p]>>)
      /\ pongs' = IF kind[p] = "pong" THEN pongs + 1 ELSE pongs
      /\ Written(p, TRUE) /\ UNCHANGED <<kind, failed, tls>>
  BY DEF WritePiece
<1>2. ProcTypes' /\ \A q \in Procs : at'[q] # "payload"
  BY <1>1, WrittenTypes
<1>3. WireTypes'
  <2>1. torn' \in BOOLEAN
    BY <1>1
  <2>2. pongs' \in Nat
    BY <1>1 DEF WireTypes
  <2> QED
    BY <1>1, <2>1, <2>2 DEF WireTypes
<1>4. FrameBegun'
  BY <1>1, <1>2 DEF FrameBegun
<1>5. (tls \/ ~failed) => ~failed
  BY DEF WritePiece, Refused
<1>6. FramesWhole'
  <2> SUFFICES ASSUME tls \/ ~failed PROVE ~torn'
    BY <1>1 DEF FramesWhole
  <2>1. begun = <<p, kind[p]>>
    BY <1>5 DEF Begun, FrameBegun
  <2>2. ~torn
    BY DEF Begun, FramesWhole
  <2> QED
    BY <1>1, <2>1, <2>2
<1> QED
  BY <1>2, <1>3, <1>4, <1>6 DEF Begun

(* A write that fails leaves a frame begun, and failed says so. *)
LEMMA FailStep ==
    ASSUME ProcTypes, Begun, NEW p \in Procs, WriteFails(p)
    PROVE  ProcTypes' /\ Begun'
<1>1. /\ at[p] \in {"header", "payload"} /\ failed' = TRUE /\ Written(p, FALSE)
      /\ UNCHANGED <<kind, tls, torn>>
  BY DEF WriteFails, wireVars
<1>2. ProcTypes'
  BY <1>1, WrittenTypes
<1>3. FrameBegun'
  BY <1>1 DEF FrameBegun
<1> QED
  BY <1>1, <1>2, <1>3 DEF Begun, FramesWhole

(* A frame that arrives: the reader stays where it is or leaves readFrame  *)
(* for a place outside of writeFrame, with an answer to write or not.      *)
LEMMA ReceiveStep ==
    ASSUME ProcTypes, ReadTypes, SockTypes, Begun, NEW f \in Frame, Receive(f)
    PROVE  ProcTypes' /\ ReadTypes' /\ SockTypes' /\ Begun'
<1>1. /\ at["reader"] = "read" /\ frames' = Append(frames, f)
      /\ UNCHANGED <<sock, tls, holder, gatewayMu, deadline, failed, writes, wireVars, fault>>
  BY DEF Receive
<1>2. frames' \in Seq(Frame) /\ Len(frames') \in Nat
  BY <1>1, AppendProperties, LenProperties DEF ReadTypes
<1>3. "reader" \in Procs
  BY DEF Procs, Users
<1>4. /\ message' \in Seq(Nat) /\ delivered' \in Seq(Seq(Nat)) /\ readBy' \in {readBy, Never}
      /\ \/ UNCHANGED <<at, kind>>
         \/ \E place \in Outside, k \in Kinds :
              /\ at' = [at EXCEPT !["reader"] = place]
              /\ kind' = kind \/ kind' = [kind EXCEPT !["reader"] = k]
  <2>1. {"leave", "idle", "lock"} \subseteq Outside /\ {"pong", "reply"} \subseteq Kinds
    BY DEF Outside, Places, Kinds
  <2>2. CASE GiveUp
    BY <2>1, <2>2 DEF GiveUp, Go, ReadTypes
  <2>3. CASE Answer("pong") \/ Answer("reply")
    BY <2>1, <2>3 DEF Answer, Go, ReadTypes
  <2>4. CASE UNCHANGED <<at, kind, message, delivered, readBy>>
    BY <2>4 DEF ReadTypes
  <2>5. CASE Data(f)
    <3>1. message' = Append(message, Len(frames')) /\ UNCHANGED kind
      BY <2>5 DEF Data
    <3>2. message' \in Seq(Nat)
      BY <1>2, <3>1, AppendProperties DEF ReadTypes
    <3>3. Append(delivered, message') \in Seq(Seq(Nat))
      BY <3>2, AppendProperties DEF ReadTypes
    <3>4. \/ Go("reader", "leave") /\ UNCHANGED <<delivered, readBy>>
          \/ UNCHANGED <<at, delivered, readBy>>
          \/ delivered' = Append(delivered, message') /\ readBy' = Never /\ Go("reader", "idle")
      BY <2>5 DEF Data
    <3>5. CASE Go("reader", "leave") /\ UNCHANGED <<delivered, readBy>>
      BY <2>1, <3>1, <3>2, <3>5 DEF Go, ReadTypes
    <3>6. CASE UNCHANGED <<at, delivered, readBy>>
      BY <3>1, <3>2, <3>6 DEF ReadTypes
    <3>7. CASE delivered' = Append(delivered, message') /\ readBy' = Never /\ Go("reader", "idle")
      BY <2>1, <3>1, <3>2, <3>3, <3>7 DEF Go
    <3> QED
      BY <3>4, <3>5, <3>6, <3>7
  <2>6. \/ GiveUp \/ Answer("pong") \/ Answer("reply") \/ Data(f)
        \/ UNCHANGED <<at, kind, message, delivered, readBy>>
    BY DEF Receive
  <2> QED
    BY <2>2, <2>3, <2>4, <2>5, <2>6
<1>5. ProcTypes' /\ Begun'
  <2>1. CASE UNCHANGED <<at, kind>>
    BY <1>1, <2>1, NobodyMoves DEF procVars, wireVars
  <2>2. CASE \E place \in Outside, k \in Kinds :
                /\ at' = [at EXCEPT !["reader"] = place]
                /\ kind' = kind \/ kind' = [kind EXCEPT !["reader"] = k]
    <3>1. PICK place \in Outside, k \in Kinds :
                /\ at' = [at EXCEPT !["reader"] = place]
                /\ kind' = kind \/ kind' = [kind EXCEPT !["reader"] = k]
      BY <2>2
    <3>2. gatewayMu' \in Users \cup {"none"} /\ at["reader"] \notin {"header", "payload"}
      BY <1>1 DEF ProcTypes
    <3>3. UNCHANGED <<holder, failed, tls, begun, torn>>
      BY <1>1 DEF wireVars
    <3> QED
      BY <1>3, <3>1, <3>2, <3>3, MovesOutside
  <2> QED
    BY <1>4, <2>1, <2>2
<1>6. SockTypes'
  BY <1>1, <1>4 DEF SockTypes, Never
<1> QED
  BY <1>2, <1>4, <1>5, <1>6 DEF ReadTypes

(* The steps of one goroutine outside of writeFrame *)
LEMMA UserStep ==
    ASSUME ProcTypes, ReadTypes, SockTypes, WireTypes, Begun, NEW p \in Procs,
           (p \in Users /\ WriteJSON(p)) \/ Close(p) \/ Shut(p)
           \/ (p = "reader" /\ (ReadJSON \/ ReadFails))
    PROVE  ProcTypes' /\ ReadTypes' /\ SockTypes' /\ WireTypes' /\ Begun'
<1>1. {"leave", "idle", "lock", "read", "done"} \subseteq Outside /\ {"text", "close"} \subseteq Kinds
  BY DEF Outside, Places, Kinds
<1>2. CASE p \in Users /\ WriteJSON(p)
  <2>1. /\ at[p] = "idle" /\ at' = [at EXCEPT ![p] = "lock"] /\ kind' = [kind EXCEPT ![p] = "text"]
        /\ gatewayMu' = p /\ UNCHANGED <<holder, failed, tls, begun, torn>>
    BY <1>2 DEF WriteJSON, Go, wireVars
  <2>2. ProcTypes' /\ Begun'
    BY <1>1, <1>2, <2>1, MovesOutside
  <2>3. SockTypes'
    BY <1>2, TimeAssumption DEF WriteJSON, SockTypes
  <2> QED
    BY <1>2, <2>2, <2>3 DEF WriteJSON, ReadTypes, WireTypes, readVars, wireVars
<1>3. CASE Close(p)
  <2>1. /\ at[p] \in {"leave", "idle"} /\ at' = [at EXCEPT ![p] = "lock"]
        /\ kind' = [kind EXCEPT ![p] = "close"]
        /\ UNCHANGED <<holder, gatewayMu, failed, tls, begun, torn>>
    BY <1>3 DEF Close, Go, wireVars
  <2>2. gatewayMu' \in Users \cup {"none"}
    BY <2>1 DEF ProcTypes
  <2>3. ProcTypes' /\ Begun'
    BY <1>1, <2>1, <2>2, MovesOutside
  <2>4. SockTypes'
    BY <1>3, TimeAssumption DEF Close, SockTypes
  <2> QED
    BY <1>3, <2>3, <2>4 DEF Close, ReadTypes, WireTypes, readVars, wireVars
<1>4. CASE Shut(p)
  <2>1. /\ at[p] = "shut" /\ at' = [at EXCEPT ![p] = "done"]
        /\ UNCHANGED <<kind, holder, gatewayMu, failed, tls, begun, torn>>
    BY <1>4 DEF Shut, Go, wireVars
  <2>2. gatewayMu' \in Users \cup {"none"}
    BY <2>1 DEF ProcTypes
  <2>3. ProcTypes' /\ Begun'
    BY <1>1, <2>1, <2>2, MovesOutside
  <2>4. SockTypes'
    BY <1>4 DEF Shut, SockTypes
  <2> QED
    BY <1>4, <2>3, <2>4 DEF Shut, ReadTypes, WireTypes, readVars, wireVars
<1>5. CASE p = "reader" /\ ReadJSON
  <2>1. /\ at[p] = "idle" /\ at' = [at EXCEPT ![p] = "read"]
        /\ UNCHANGED <<kind, holder, gatewayMu, failed, tls, begun, torn>>
    BY <1>5 DEF ReadJSON, Go, wireVars
  <2>2. gatewayMu' \in Users \cup {"none"}
    BY <2>1 DEF ProcTypes
  <2>3. ProcTypes' /\ Begun'
    BY <1>1, <2>1, <2>2, MovesOutside
  <2>4. SockTypes' /\ WireTypes'
    BY <1>5 DEF ReadJSON, SockTypes, WireTypes, wireVars
  <2>5. ReadTypes'
    BY <1>5, EmptySeq DEF ReadJSON, ReadTypes
  <2> QED
    BY <2>3, <2>4, <2>5
<1>6. CASE p = "reader" /\ ReadFails
  <2>1. /\ at[p] = "read" /\ at' = [at EXCEPT ![p] = "leave"]
        /\ UNCHANGED <<kind, holder, gatewayMu, failed, tls, begun, torn>>
    BY <1>6 DEF ReadFails, Go, wireVars
  <2>2. gatewayMu' \in Users \cup {"none"}
    BY <2>1 DEF ProcTypes
  <2>3. ProcTypes' /\ Begun'
    BY <1>1, <2>1, <2>2, MovesOutside
  <2> QED
    BY <1>6, <2>3 DEF ReadFails, SockTypes, ReadTypes, WireTypes, readVars, wireVars
<1> QED
  BY <1>2, <1>3, <1>4, <1>5, <1>6

(* The steps of the socket, the network and the clock move nobody.         *)
LEMMA SocketStep ==
    ASSUME ProcTypes, ReadTypes, SockTypes, WireTypes, Begun,
           Dial \/ Upgraded \/ NotUpgraded \/ Fault \/ Tick \/ UNCHANGED vars
    PROVE  ProcTypes' /\ ReadTypes' /\ SockTypes' /\ WireTypes' /\ Begun'
<1>1. UNCHANGED <<tls, procVars, failed, writes, readVars, wireVars>>
  BY DEF Dial, Upgraded, NotUpgraded, Fault, Tick, vars
<1>2. ProcTypes' /\ Begun'
  BY <1>1, NobodyMoves DEF wireVars
<1>3. ReadTypes' /\ WireTypes'
  BY <1>1 DEF ReadTypes, WireTypes, readVars, wireVars
<1>4. /\ sock' \in {"dial", "handshake", "open", "closed", "failed"}
      /\ fault' \in BOOLEAN
  BY DEF Dial, Upgraded, NotUpgraded, Fault, Tick, vars, SockTypes
<1>5. deadline' \in Int /\ readBy' \in Int
  BY TimeAssumption DEF Dial, Upgraded, NotUpgraded, Fault, Tick, vars, SockTypes, Never, Earlier
<1>6. SockTypes'
  BY <1>1, <1>4, <1>5 DEF SockTypes
<1> QED
  BY <1>2, <1>3, <1>6

(* Every step keeps all of it. *)
LEMMA NextInv ==
    /\ ProcTypes /\ SockTypes /\ ReadTypes /\ WireTypes /\ Begun /\ [Next]_vars
    => (ProcTypes /\ SockTypes /\ ReadTypes /\ WireTypes /\ Begun)'
<1> SUFFICES ASSUME ProcTypes, SockTypes, ReadTypes, WireTypes, Begun, [Next]_vars
             PROVE  ProcTypes' /\ SockTypes' /\ ReadTypes' /\ WireTypes' /\ Begun'
  OBVIOUS
<1>1. CASE Dial \/ Upgraded \/ NotUpgraded \/ Fault \/ Tick \/ UNCHANGED vars
  BY <1>1, SocketStep
<1>2. ASSUME NEW p \in Procs, (p \in Users /\ WriteJSON(p)) \/ Close(p) \/ Shut(p)
                              \/ (p = "reader" /\ (ReadJSON \/ ReadFails))
      PROVE  ProcTypes' /\ SockTypes' /\ ReadTypes' /\ WireTypes' /\ Begun'
  BY <1>2, UserStep
<1>3. ASSUME NEW p \in Procs, Lock(p)
      PROVE  ProcTypes' /\ SockTypes' /\ ReadTypes' /\ WireTypes' /\ Begun'
  <2>1. UNCHANGED <<sock, tls, deadline, readBy, failed, writes, readVars, wireVars, fault>>
    BY <1>3 DEF Lock
  <2> QED
    BY <1>3, <2>1, LockStep DEF SockTypes, ReadTypes, WireTypes, readVars, wireVars
<1>4. ASSUME NEW p \in Procs, WritePiece(p)
      PROVE  ProcTypes' /\ SockTypes' /\ ReadTypes' /\ WireTypes' /\ Begun'
  <2>1. UNCHANGED <<sock, tls, kind, deadline, readBy, failed, writes, readVars, fault>>
        /\ at[p] \in {"header", "payload"}
    BY <1>4 DEF WritePiece
  <2>2. SockTypes' /\ ReadTypes'
    BY <2>1 DEF SockTypes, ReadTypes, readVars
  <2> QED
    BY <1>4, <2>1, <2>2, HeaderStep, PayloadStep
<1>5. ASSUME NEW p \in Procs, WriteFails(p)
      PROVE  ProcTypes' /\ SockTypes' /\ ReadTypes' /\ WireTypes' /\ Begun'
  <2>1. UNCHANGED <<sock, tls, kind, deadline, readBy, writes, readVars, wireVars, fault>>
        /\ failed' = TRUE
    BY <1>5 DEF WriteFails
  <2> QED
    BY <1>5, <2>1, FailStep DEF SockTypes, ReadTypes, WireTypes, readVars, wireVars
<1>6. ASSUME NEW f \in Frame, Receive(f)
      PROVE  ProcTypes' /\ SockTypes' /\ ReadTypes' /\ WireTypes' /\ Begun'
  <2>1. UNCHANGED wireVars
    BY <1>6 DEF Receive
  <2> QED
    BY <1>6, <2>1, ReceiveStep DEF WireTypes, wireVars
<1>7. Users \subseteq Procs /\ "reader" \in Procs
  BY DEF Procs, Users
<1> QED
  BY <1>1, <1>2, <1>3, <1>4, <1>5, <1>6, <1>7 DEF Next

(* The peer gets whole frames, whoever writes them and however many        *)
(* goroutines close: over TLS always, otherwise until a write fails        *)
(* (writeFrame).                                                           *)
THEOREM FramesNeverMix == Spec => []Safety
<1>1. ProcTypes /\ SockTypes /\ ReadTypes /\ WireTypes /\ Begun => Safety
  BY TypeParts DEF Begun, Safety
<1> QED
  BY <1>1, InitInv, NextInv, PTL DEF Spec

-----------------------------------------------------------------------------
(***************************************************************************)
(* Pings.  Pongs written whole and pings received are equal in number      *)
(* wherever the reader may go on reading, and while it writes its answer   *)
(* there is one ping more.                                                 *)
(***************************************************************************)
Pings(list) == {i \in DOMAIN list : list[i].op = "ping"}

ReaderWrites == at["reader"] \in {"lock", "header", "payload"}

PongPending ==
    /\ \A p \in Procs : kind[p] = "pong" => p = "reader"
    /\ (at["reader"] \in {"read", "idle"} \/ (ReaderWrites /\ kind["reader"] = "text"))
          => Cardinality(Pings(frames)) = pongs
    /\ (ReaderWrites /\ kind["reader"] = "pong") => Cardinality(Pings(frames)) = pongs + 1

(* A ping that arrives is one more, any other frame is not. *)
LEMMA OnePingMore ==
    ASSUME NEW list \in Seq(Frame), NEW f \in Frame
    PROVE  Cardinality(Pings(Append(list, f))) =
             IF f.op = "ping" THEN Cardinality(Pings(list)) + 1 ELSE Cardinality(Pings(list))
<1> DEFINE longer == Append(list, f)
           n == Len(list) + 1
<1>1. Len(list) \in Nat /\ DOMAIN list = 1..Len(list)
  BY LenProperties
<1>2. /\ longer \in Seq(Frame) /\ Len(longer) = n /\ longer[n] = f
      /\ \A i \in 1..Len(list) : longer[i] = list[i]
  BY AppendProperties
<1>3. DOMAIN longer = 1..n
  BY <1>2, LenProperties
<1> HIDE DEF longer
<1>4. IsFiniteSet(Pings(list))
  <2>1. Pings(list) \subseteq 1..Len(list)
    BY <1>1 DEF Pings
  <2>2. IsFiniteSet(1..Len(list))
    BY <1>1, FS_Interval
  <2> QED
    BY <2>1, <2>2, FS_Subset
<1>5. n \notin Pings(list)
  BY <1>1 DEF Pings
<1>6. CASE f.op = "ping"
  <2>1. Pings(longer) = Pings(list) \cup {n}
    BY <1>1, <1>2, <1>3, <1>6 DEF Pings
  <2>2. Cardinality(Pings(list) \cup {n}) = Cardinality(Pings(list)) + 1
    BY <1>4, <1>5, FS_AddElement
  <2> QED
    BY <1>6, <2>1, <2>2 DEF longer
<1>7. CASE f.op # "ping"
  <2>1. Pings(longer) = Pings(list)
    BY <1>1, <1>2, <1>3, <1>7 DEF Pings
  <2> QED
    BY <1>7, <2>1 DEF longer
<1> QED
  BY <1>6, <1>7

(* Every step keeps the count. *)
LEMMA NextPongs ==
    ProcTypes /\ ReadTypes /\ WireTypes /\ PongPending /\ [Next]_vars => PongPending'
<1> SUFFICES ASSUME ProcTypes, ReadTypes, WireTypes, PongPending, [Next]_vars PROVE PongPending'
  OBVIOUS
<1>1. /\ "reader" \in Procs /\ Users \subseteq Procs
  BY DEF Procs, Users
<1>2. at \in [Procs -> Places] /\ kind \in [Procs -> Kinds]
  BY DEF ProcTypes
<1>3. CASE Dial \/ Upgraded \/ NotUpgraded \/ Fault \/ Tick \/ UNCHANGED vars
  <2>1. UNCHANGED <<at, kind, frames, pongs>>
    BY <1>3 DEF Dial, Upgraded, NotUpgraded, Fault, Tick, vars, procVars, readVars, wireVars
  <2> QED
    BY <2>1 DEF PongPending, ReaderWrites
<1>4. ASSUME NEW p \in Users, WriteJSON(p) PROVE PongPending'
  <2>1. /\ at[p] = "idle" /\ at' = [at EXCEPT ![p] = "lock"] /\ kind' = [kind EXCEPT ![p] = "text"]
        /\ UNCHANGED <<frames, pongs>>
    BY <1>4 DEF WriteJSON, Go, readVars, wireVars
  <2> QED
    BY <1>1, <1>2, <2>1 DEF PongPending, ReaderWrites
<1>5. ASSUME NEW p \in Procs, Lock(p) PROVE PongPending'
  <2>1. /\ at[p] = "lock" /\ at' = [at EXCEPT ![p] = "header"] /\ UNCHANGED <<kind, frames, pongs>>
    BY <1>5 DEF Lock, Go, readVars, wireVars
  <2> QED
    BY <1>1, <1>2, <2>1 DEF PongPending, ReaderWrites
<1>6. ASSUME NEW p \in Procs, WritePiece(p) PROVE PongPending'
  <2>1. at[p] \in {"header", "payload"} /\ UNCHANGED <<kind, frames>>
    BY <1>6 DEF WritePiece, readVars
  <2>2. CASE at[p] = "header"
    <3>1. at' = [at EXCEPT ![p] = "payload"] /\ UNCHANGED pongs
      BY <1>6, <2>2 DEF WritePiece, Go
    <3> QED
      BY <1>1, <1>2, <2>1, <2>2, <3>1 DEF PongPending, ReaderWrites
  <2>3. CASE at[p] = "payload"
    <3>1. /\ at' = [at EXCEPT ![p] = NextPlace(p, TRUE)]
          /\ pongs' = IF kind[p] = "pong" THEN pongs + 1 ELSE pongs
      BY <1>6, <2>3 DEF WritePiece, Written, Go
    <3>2. kind[p] \in {"text", "pong", "reply", "close"}
      BY <1>2 DEF Kinds
    <3>3. CASE kind[p] = "pong"
      <4>1. p = "reader" /\ pongs' = pongs + 1 /\ at' = [at EXCEPT !["reader"] = "read"]
        BY <3>1, <3>3 DEF PongPending, NextPlace
      <4>2. Cardinality(Pings(frames)) = pongs + 1
        BY <2>3, <3>3, <4>1 DEF PongPending, ReaderWrites
      <4> QED
        BY <1>1, <1>2, <2>1, <4>1, <4>2 DEF PongPending, ReaderWrites
    <3>4. CASE kind[p] = "text"
      <4>1. pongs' = pongs /\ at' = [at EXCEPT ![p] = "idle"]
        BY <3>1, <3>4 DEF NextPlace
      <4> QED
        BY <1>1, <1>2, <2>1, <2>3, <3>4, <4>1 DEF PongPending, ReaderWrites
    <3>5. CASE kind[p] \in {"reply", "close"}
      <4>1. pongs' = pongs /\ at' = [at EXCEPT ![p] = NextPlace(p, TRUE)]
            /\ NextPlace(p, TRUE) \in {"leave", "shut"}
        BY <3>1, <3>5 DEF NextPlace
      <4> QED
        BY <1>1, <1>2, <2>1, <2>3, <4>1 DEF PongPending, ReaderWrites
    <3> QED
      BY <3>2, <3>3, <3>4, <3>5
  <2> QED
    BY <2>1, <2>2, <2>3
<1>7. ASSUME NEW p \in Procs, WriteFails(p) PROVE PongPending'
  <2>1. /\ at[p] \in {"header", "payload"} /\ at' = [at EXCEPT ![p] = NextPlace(p, FALSE)]
        /\ UNCHANGED <<kind, frames, pongs>>
    BY <1>7 DEF WriteFails, Written, Go, readVars, wireVars
  <2>2. NextPlace(p, FALSE) \in {"leave", "shut"}
    BY <1>2 DEF NextPlace, Kinds
  <2> QED
    BY <1>1, <1>2, <2>1, <2>2 DEF PongPending, ReaderWrites
<1>8. ASSUME NEW p \in Procs, Close(p) PROVE PongPending'
  <2>1. /\ at' = [at EXCEPT ![p] = "lock"] /\ kind' = [kind EXCEPT ![p] = "close"]
        /\ UNCHANGED <<frames, pongs>>
    BY <1>8 DEF Close, Go, readVars, wireVars
  <2> QED
    BY <1>1, <1>2, <2>1 DEF PongPending, ReaderWrites
<1>9. ASSUME NEW p \in Procs, Shut(p) PROVE PongPending'
  <2>1. at' = [at EXCEPT ![p] = "done"] /\ UNCHANGED <<kind, frames, pongs>>
    BY <1>9 DEF Shut, Go, readVars, wireVars
  <2> QED
    BY <1>1, <1>2, <2>1 DEF PongPending, ReaderWrites
<1>10. CASE ReadJSON \/ ReadFails
  <2>1. /\ at["reader"] \in {"idle", "read"} /\ UNCHANGED <<kind, frames, pongs>>
        /\ \E place \in {"read", "leave"} : at' = [at EXCEPT !["reader"] = place]
    BY <1>10 DEF ReadJSON, ReadFails, Go, readVars, wireVars
  <2> QED
    BY <1>1, <1>2, <2>1 DEF PongPending, ReaderWrites
<1>11. ASSUME NEW f \in Frame, Receive(f) PROVE PongPending'
  <2>1. /\ at["reader"] = "read" /\ frames' = Append(frames, f) /\ UNCHANGED pongs
    BY <1>11 DEF Receive, wireVars
  <2>2. Cardinality(Pings(frames')) =
          IF f.op = "ping" THEN Cardinality(Pings(frames)) + 1 ELSE Cardinality(Pings(frames))
    BY <2>1, OnePingMore DEF ReadTypes
  <2>3. Cardinality(Pings(frames)) = pongs
    BY <2>1 DEF PongPending
  <2>4. CASE GiveUp
    BY <1>1, <1>2, <2>4 DEF GiveUp, Go, PongPending, ReaderWrites
  <2>5. CASE f.op = "ping" /\ Answer("pong")
    <3>1. at' = [at EXCEPT !["reader"] = "lock"] /\ kind' = [kind EXCEPT !["reader"] = "pong"]
      BY <2>5 DEF Answer, Go
    <3> QED
      BY <1>1, <1>2, <2>1, <2>2, <2>3, <2>5, <3>1 DEF PongPending, ReaderWrites
  <2>6. CASE Answer("reply")
    <3>1. at' = [at EXCEPT !["reader"] = "lock"] /\ kind' = [kind EXCEPT !["reader"] = "reply"]
      BY <2>6 DEF Answer, Go
    <3> QED
      BY <1>1, <1>2, <3>1 DEF PongPending, ReaderWrites
  <2>7. CASE f.op # "ping" /\ UNCHANGED <<at, kind>>
    BY <2>1, <2>2, <2>3, <2>7 DEF PongPending, ReaderWrites
  <2>8. CASE f.op # "ping" /\ Data(f)
    <3>1. UNCHANGED kind
      BY <2>8 DEF Data
    <3>2. \/ UNCHANGED at
          \/ \E place \in {"leave", "idle"} : at' = [at EXCEPT !["reader"] = place]
      BY <2>8 DEF Data, Go
    <3>3. at'["reader"] \in {"read", "leave", "idle"}
      BY <1>1, <1>2, <2>1, <3>2
    <3> QED
      BY <2>1, <2>2, <2>3, <2>8, <3>1, <3>3 DEF PongPending, ReaderWrites
  <2>9. \/ GiveUp \/ (f.op = "ping" /\ Answer("pong")) \/ Answer("reply")
        \/ f.op # "ping" /\ UNCHANGED <<at, kind>>
        \/ f.op # "ping" /\ Data(f)
    BY <1>11 DEF Receive
  <2> QED
    BY <2>4, <2>5, <2>6, <2>7, <2>8, <2>9
<1> QED
  BY <1>3, <1>4, <1>5, <1>6, <1>7, <1>8, <1>9, <1>10, <1>11 DEF Next

(* Every ping the reader has read past was answered by a whole pong, among *)
(* any other frames, writes and failures (readMessage).                    *)
THEOREM EveryPingIsAnswered == Spec => []PingsAnswered
<1>1. Init => PongPending
  <2> SUFFICES ASSUME Init PROVE PongPending
    OBVIOUS
  <2>1. Pings(frames) = {}
    BY DEF Init, Pings
  <2>2. Cardinality(Pings(frames)) = 0
    BY <2>1, FS_EmptySet
  <2>3. at["reader"] = "idle" /\ \A p \in Procs : kind[p] = "text"
    BY DEF Init, Procs, Users
  <2>4. pongs = 0 /\ "reader" \in Procs
    BY DEF Init, Procs, Users
  <2> QED
    BY <2>2, <2>3, <2>4 DEF PongPending, ReaderWrites
<1>2. PongPending => PingsAnswered
  BY DEF PongPending, PingsAnswered, Pings
<1> QED
  BY <1>1, <1>2, InitInv, NextInv, NextPongs, PTL DEF Spec

-----------------------------------------------------------------------------
(***************************************************************************)
(* Messages.  What was delivered is whole, what is being read is whole so  *)
(* far, and no data frame lies between the two or behind them; the reader  *)
(* may leave its message only for good.                                    *)
(***************************************************************************)
DataOp == {"text", "continuation"}
Gap(fr, i, j) == \A n \in (i + 1)..(j - 1) : fr[n].op \notin DataOp
Behind(fr, i) == Gap(fr, i, Len(fr) + 1)
LastOf(d) == d[Len(d)]

(* The data frames of one message, up to its last *)
Linked(fr, d) ==
    /\ Len(d) \in Nat \ {0} /\ \A i \in 1..Len(d) : d[i] \in 1..Len(fr)
    /\ fr[d[1]].op = "text"
    /\ \A i \in 2..Len(d) : /\ fr[d[i]].op = "continuation" /\ ~fr[d[i-1]].fin
                            /\ Gap(fr, d[i-1], d[i])

SizeIn(fr, d) == Total([n \in 1..Len(d) |-> fr[d[n]].size])
Whole(fr, d) == Linked(fr, d) /\ fr[LastOf(d)].fin /\ SizeIn(fr, d) <= MaxMessage

(* What was delivered, and the last frame of it *)
InOrder(fr, ds) ==
    \A k \in 1..Len(ds) :
        /\ Whole(fr, ds[k])
        /\ k > 1 => Gap(fr, LastOf(ds[k-1]), ds[k][1])
End(ds) == IF Len(ds) = 0 THEN 0 ELSE LastOf(LastOf(ds))

(* The message that is being read *)
Growing(fr, ds, m) ==
    IF Len(m) = 0 THEN Behind(fr, End(ds))
    ELSE /\ Linked(fr, m) /\ ~fr[LastOf(m)].fin
         /\ Gap(fr, End(ds), m[1]) /\ Behind(fr, LastOf(m))

(* The reader is in readMessage and may go on with its message; or it is   *)
(* out of it and may begin the next.                                       *)
Reading == at["reader"] = "read" \/ (ReaderWrites /\ kind["reader"] = "pong")
Pausing == at["reader"] = "idle" \/ (ReaderWrites /\ kind["reader"] = "text")

MessageInv == /\ InOrder(frames, delivered)
              /\ Reading => Growing(frames, delivered, message)
              /\ Pausing => Behind(frames, End(delivered))

(* A frame that arrives is the last, and the others stay. *)
Longer(fr, f, fr2) ==
    /\ Len(fr) \in Nat /\ Len(fr2) = Len(fr) + 1 /\ fr2[Len(fr) + 1] = f
    /\ \A i \in 1..Len(fr) : fr2[i] = fr[i]

(* Append gives such a longer list. *)
LEMMA FrameMore ==
    ASSUME NEW fr \in Seq(Frame), NEW f \in Frame
    PROVE  Longer(fr, f, Append(fr, f))
BY AppendProperties, LenProperties DEF Longer

(* What lies between two frames stays as it is. *)
LEMMA GapStays ==
    ASSUME NEW fr, NEW f, NEW fr2, Longer(fr, f, fr2),
           NEW i \in Nat, NEW j \in 1..(Len(fr) + 1), Gap(fr, i, j)
    PROVE  Gap(fr2, i, j)
<1> SUFFICES ASSUME NEW n \in (i + 1)..(j - 1) PROVE fr2[n].op \notin DataOp
  BY DEF Gap
<1>1. n \in 1..Len(fr) /\ fr[n].op \notin DataOp
  BY DEF Longer, Gap
<1> QED
  BY <1>1 DEF Longer

(* What is whole so far stays so. *)
LEMMA LinkedStays ==
    ASSUME NEW fr, NEW f, NEW fr2, Longer(fr, f, fr2), NEW d, Linked(fr, d)
    PROVE  /\ Linked(fr2, d) /\ SizeIn(fr2, d) = SizeIn(fr, d)
           /\ LastOf(d) \in 1..Len(fr) /\ d[1] \in 1..Len(fr)
           /\ fr2[LastOf(d)] = fr[LastOf(d)]
<1> DEFINE n == Len(fr)
           l == Len(d)
<1>1. /\ n \in Nat /\ Len(fr2) = n + 1 /\ \A i \in 1..n : fr2[i] = fr[i]
  BY DEF Longer
<1>2. l \in Nat \ {0} /\ \A i \in 1..l : d[i] \in 1..n
  BY DEF Linked
<1> HIDE DEF n, l
<1>3. \A i \in 1..l : fr2[d[i]] = fr[d[i]] /\ d[i] \in 1..(n + 1) /\ d[i] \in Nat
  BY <1>1, <1>2
<1>4. 1 \in 1..l /\ l \in 1..l /\ \A i \in 2..l : i \in 1..l /\ i - 1 \in 1..l
  BY <1>2
<1>5. ASSUME NEW i \in 2..l
      PROVE  /\ fr2[d[i]].op = "continuation" /\ ~fr2[d[i-1]].fin
             /\ Gap(fr2, d[i-1], d[i])
  <2>1. /\ fr[d[i]].op = "continuation" /\ ~fr[d[i-1]].fin /\ Gap(fr, d[i-1], d[i])
    BY DEF Linked, l
  <2>2. d[i-1] \in Nat /\ d[i] \in 1..(Len(fr) + 1)
    BY <1>3, <1>4 DEF n
  <2>3. Gap(fr2, d[i-1], d[i])
    BY <2>1, <2>2, GapStays
  <2> QED
    BY <1>3, <1>4, <2>1, <2>3
<1>6. fr[d[1]].op = "text"
  BY DEF Linked
<1>7. Linked(fr2, d)
  BY <1>1, <1>2, <1>3, <1>4, <1>5, <1>6 DEF Linked, l
<1>8. SizeIn(fr2, d) = SizeIn(fr, d)
  <2>1. [i \in 1..l |-> fr2[d[i]].size] = [i \in 1..l |-> fr[d[i]].size]
    BY <1>3
  <2> QED
    BY <2>1 DEF SizeIn, l
<1> QED
  BY <1>2, <1>3, <1>4, <1>7, <1>8 DEF LastOf, n, l

(* The messages delivered stay whole and in their order. *)
LEMMA InOrderStays ==
    ASSUME NEW fr, NEW f, NEW fr2, Longer(fr, f, fr2),
           NEW ds, Len(ds) \in Nat, InOrder(fr, ds)
    PROVE  InOrder(fr2, ds) /\ End(ds) \in 0..Len(fr)
<1> DEFINE l == Len(ds)
<1>1. ASSUME NEW k \in 1..l PROVE Linked(fr, ds[k]) /\ Whole(fr, ds[k])
  BY DEF InOrder, Whole
<1>2. ASSUME NEW k \in 1..l
      PROVE  /\ Linked(fr2, ds[k]) /\ SizeIn(fr2, ds[k]) = SizeIn(fr, ds[k])
             /\ LastOf(ds[k]) \in 1..Len(fr) /\ ds[k][1] \in 1..Len(fr)
             /\ fr2[LastOf(ds[k])] = fr[LastOf(ds[k])]
  BY <1>1, LinkedStays
<1> HIDE DEF l
<1>3. l \in Nat /\ Len(fr) \in Nat
  BY DEF l, Longer
<1>4. ASSUME NEW k \in 1..l PROVE Whole(fr2, ds[k])
  BY <1>1, <1>2 DEF Whole
<1>5. ASSUME NEW k \in 1..l, k > 1 PROVE Gap(fr2, LastOf(ds[k-1]), ds[k][1])
  <2>1. k - 1 \in 1..l
    BY <1>3, <1>5
  <2>2. Gap(fr, LastOf(ds[k-1]), ds[k][1])
    BY <1>5 DEF InOrder, l
  <2>3. LastOf(ds[k-1]) \in Nat /\ ds[k][1] \in 1..(Len(fr) + 1)
    BY <1>2, <1>3, <2>1
  <2> QED
    BY <2>2, <2>3, GapStays
<1>6. InOrder(fr2, ds)
  BY <1>4, <1>5 DEF InOrder, l
<1>7. End(ds) \in 0..Len(fr)
  <2>1. CASE l = 0
    BY <1>3, <2>1 DEF End, l
  <2>2. CASE l # 0
    <3>1. l \in 1..l
      BY <1>3, <2>2
    <3>2. LastOf(ds[l]) \in 1..Len(fr)
      BY <1>2, <3>1
    <3>3. End(ds) = LastOf(ds[l])
      BY <2>2 DEF End, LastOf, l
    <3> QED
      BY <1>3, <3>2, <3>3
  <2> QED
    BY <2>1, <2>2
<1> QED
  BY <1>6, <1>7

(* A control frame interrupts nothing. *)
LEMMA BehindStays ==
    ASSUME NEW fr, NEW f, NEW fr2, Longer(fr, f, fr2), f.op \notin DataOp,
           NEW i \in Nat, Behind(fr, i)
    PROVE  Behind(fr2, i)
<1>1. /\ Len(fr) \in Nat /\ Len(fr2) = Len(fr) + 1 /\ fr2[Len(fr) + 1] = f
      /\ \A n \in 1..Len(fr) : fr2[n] = fr[n]
  BY DEF Longer
<1> SUFFICES ASSUME NEW n \in (i + 1)..(Len(fr2) + 1 - 1) PROVE fr2[n].op \notin DataOp
  BY DEF Behind, Gap
<1>2. CASE n = Len(fr) + 1
  BY <1>1, <1>2
<1>3. CASE n # Len(fr) + 1
  <2>1. n \in 1..Len(fr) /\ n \in (i + 1)..(Len(fr) + 1 - 1)
    BY <1>1, <1>3
  <2> QED
    BY <1>1, <2>1 DEF Behind, Gap
<1> QED
  BY <1>2, <1>3

(* A control frame leaves the message that grows alone. *)
LEMMA GrowingStays ==
    ASSUME NEW fr, NEW f, NEW fr2, Longer(fr, f, fr2), f.op \notin DataOp,
           NEW ds, End(ds) \in 0..Len(fr), NEW m, Growing(fr, ds, m)
    PROVE  Growing(fr2, ds, m)
<1>1. Len(fr) \in Nat /\ End(ds) \in Nat
  BY DEF Longer
<1>2. CASE Len(m) = 0
  BY <1>1, <1>2, BehindStays DEF Growing
<1>3. CASE Len(m) # 0
  <2>1. /\ Linked(fr, m) /\ ~fr[LastOf(m)].fin
        /\ Gap(fr, End(ds), m[1]) /\ Behind(fr, LastOf(m))
    BY <1>3 DEF Growing
  <2>2. /\ Linked(fr2, m) /\ LastOf(m) \in 1..Len(fr) /\ m[1] \in 1..Len(fr)
        /\ fr2[LastOf(m)] = fr[LastOf(m)]
    BY <2>1, LinkedStays
  <2>3. LastOf(m) \in Nat /\ m[1] \in 1..(Len(fr) + 1)
    BY <1>1, <2>2
  <2>4. Behind(fr2, LastOf(m))
    BY <2>1, <2>3, BehindStays
  <2>5. Gap(fr2, End(ds), m[1])
    BY <1>1, <2>1, <2>3, GapStays
  <2> QED
    BY <1>3, <2>1, <2>2, <2>4, <2>5 DEF Growing
<1> QED
  BY <1>2, <1>3

(* A data frame begins a message or continues the one being read. *)
InPlace(f, m) == (f.op = "text" /\ Len(m) = 0) \/ (f.op = "continuation" /\ Len(m) # 0)

(* The message with that frame, the last one, which may be the end of it *)
Continued(fr, f, ds, m) ==
    /\ Len(m) # 0 /\ Linked(fr, m) /\ LastOf(m) = Len(fr) /\ fr[LastOf(m)] = f
    /\ Gap(fr, End(ds), m[1]) /\ Behind(fr, LastOf(m))

(* A data frame in its place continues the message. *)
LEMMA DataLinks ==
    ASSUME NEW fr, NEW f, NEW fr2, Longer(fr, f, fr2), NEW ds, End(ds) \in 0..Len(fr),
           NEW m, NEW m2, Longer(m, Len(fr) + 1, m2), Growing(fr, ds, m), InPlace(f, m)
    PROVE  Continued(fr2, f, ds, m2)
<1> DEFINE n == Len(fr)
           l == Len(m)
<1>1. /\ n \in Nat /\ Len(fr2) = n + 1 /\ fr2[n + 1] = f
      /\ \A i \in 1..n : fr2[i] = fr[i]
  BY DEF Longer
<1>2. /\ l \in Nat /\ Len(m2) = l + 1 /\ m2[l + 1] = n + 1
      /\ \A i \in 1..l : m2[i] = m[i]
  BY DEF Longer
<1>3. LastOf(m2) = n + 1 /\ fr2[LastOf(m2)] = f /\ Len(m2) # 0
  BY <1>1, <1>2 DEF LastOf
<1>4. Behind(fr2, LastOf(m2))
  BY <1>1, <1>3 DEF Behind, Gap
<1>5. Len(fr) = n /\ Len(m) = l /\ End(ds) \in Nat /\ End(ds) \in 0..n
  BY <1>1
<1> HIDE DEF n, l
<1>6. CASE f.op = "text" /\ l = 0
  <2>1. m2[1] = n + 1 /\ Len(m2) = 1
    BY <1>2, <1>6
  <2>2. Linked(fr2, m2)
    BY <1>1, <1>2, <1>6, <2>1 DEF Linked
  <2>3. Gap(fr, End(ds), n + 1)
    BY <1>5, <1>6 DEF Growing, Behind
  <2>4. Gap(fr2, End(ds), n + 1)
    BY <1>1, <1>5, <2>3, GapStays
  <2> QED
    BY <1>1, <1>3, <1>4, <2>1, <2>2, <2>4 DEF Continued
<1>7. CASE f.op = "continuation" /\ l # 0
  <2>1. /\ Linked(fr, m) /\ ~fr[LastOf(m)].fin
        /\ Gap(fr, End(ds), m[1]) /\ Behind(fr, LastOf(m))
    BY <1>5, <1>7 DEF Growing
  <2>2. /\ Linked(fr2, m) /\ LastOf(m) \in 1..n /\ m[1] \in 1..n
        /\ fr2[LastOf(m)] = fr[LastOf(m)]
    BY <1>5, <2>1, LinkedStays
  <2>3. m2[1] = m[1] /\ m2[l] = m[l] /\ m[l] = LastOf(m)
    BY <1>2, <1>5, <1>7 DEF LastOf
  <2>4. Gap(fr2, End(ds), m[1])
    <3>1. m[1] \in 1..(Len(fr) + 1)
      BY <1>1, <1>5, <2>2
    <3> QED
      BY <1>5, <2>1, <3>1, GapStays
  <2>5. Gap(fr2, LastOf(m), n + 1)
    <3>1. Gap(fr, LastOf(m), n + 1) /\ LastOf(m) \in Nat /\ n + 1 \in 1..(Len(fr) + 1)
      BY <1>1, <1>5, <2>1, <2>2 DEF Behind
    <3> QED
      BY <3>1, GapStays
  <2>6. /\ \A i \in 1..l : m[i] \in 1..(n + 1)
        /\ fr2[m[1]].op = "text"
        /\ \A i \in 2..l : /\ fr2[m[i]].op = "continuation" /\ ~fr2[m[i-1]].fin
                           /\ Gap(fr2, m[i-1], m[i])
    BY <1>1, <1>5, <2>2 DEF Linked
  <2>7. \A i \in 1..(l + 1) : m2[i] \in 1..(n + 1)
    <3> SUFFICES ASSUME NEW i \in 1..(l + 1) PROVE m2[i] \in 1..(n + 1)
      OBVIOUS
    <3>1. CASE i \in 1..l
      BY <1>2, <2>6, <3>1
    <3>2. CASE i = l + 1
      BY <1>1, <1>2, <3>2
    <3> QED
      BY <1>2, <3>1, <3>2
  <2>8. ASSUME NEW i \in 2..(l + 1)
        PROVE  /\ fr2[m2[i]].op = "continuation" /\ ~fr2[m2[i-1]].fin
               /\ Gap(fr2, m2[i-1], m2[i])
    <3>1. CASE i \in 2..l
      <4>1. i \in 1..l /\ i - 1 \in 1..l
        BY <1>2, <3>1
      <4>2. m2[i] = m[i] /\ m2[i-1] = m[i-1]
        BY <1>2, <4>1
      <4> QED
        BY <2>6, <3>1, <4>2
    <3>2. CASE i = l + 1
      <4>1. i - 1 = l /\ m2[i] = n + 1 /\ m2[i-1] = LastOf(m)
        BY <1>2, <2>3, <3>2
      <4> QED
        BY <1>1, <1>7, <2>1, <2>2, <2>5, <4>1
    <3> QED
      BY <1>2, <3>1, <3>2
  <2>9. Linked(fr2, m2)
    BY <1>1, <1>2, <2>3, <2>6, <2>7, <2>8 DEF Linked
  <2> QED
    BY <1>1, <1>3, <1>4, <2>3, <2>4, <2>9 DEF Continued
<1> QED
  BY <1>5, <1>6, <1>7 DEF InPlace

(* A whole message is delivered after the others. *)
LEMMA Deliver ==
    ASSUME NEW fr, NEW ds \in Seq(Seq(Nat)), InOrder(fr, ds), NEW m \in Seq(Nat),
           Whole(fr, m), Gap(fr, End(ds), m[1])
    PROVE  InOrder(fr, Append(ds, m)) /\ End(Append(ds, m)) = LastOf(m)
<1> DEFINE l == Len(ds)
           more == Append(ds, m)
<1>1. /\ l \in Nat /\ Len(more) = l + 1 /\ more[l + 1] = m
      /\ \A k \in 1..l : more[k] = ds[k]
  BY AppendProperties, LenProperties
<1>2. Len(ds) = l
  OBVIOUS
<1> HIDE DEF l, more
<1>3. End(more) = LastOf(m)
  BY <1>1 DEF End, LastOf
<1>4. ASSUME NEW k \in 1..(l + 1)
      PROVE  Whole(fr, more[k]) /\ (k > 1 => Gap(fr, LastOf(more[k-1]), more[k][1]))
  <2>1. CASE k \in 1..l
    <3>1. Whole(fr, ds[k]) /\ (k > 1 => Gap(fr, LastOf(ds[k-1]), ds[k][1]))
      BY <1>2, <2>1 DEF InOrder
    <3>2. more[k] = ds[k] /\ (k > 1 => more[k-1] = ds[k-1])
      BY <1>1, <2>1
    <3> QED
      BY <3>1, <3>2
  <2>2. CASE k = l + 1
    <3>1. ASSUME k > 1 PROVE Gap(fr, LastOf(more[k-1]), more[k][1])
      <4>1. k - 1 = l /\ l \in 1..l /\ l # 0
        BY <1>1, <2>2, <3>1
      <4>2. End(ds) = LastOf(ds[l])
        BY <1>2, <4>1 DEF End, LastOf
      <4> QED
        BY <1>1, <2>2, <4>1, <4>2
    <3> QED
      BY <1>1, <2>2, <3>1
  <2> QED
    BY <1>1, <2>1, <2>2
<1>5. InOrder(fr, more)
  BY <1>1, <1>4 DEF InOrder
<1> QED
  BY <1>3, <1>5 DEF more

(* The frames of the step that arrives, as Receive and Data say it *)
LEMMA ReceiveMessages ==
    ASSUME ProcTypes, ReadTypes, MessageInv, NEW f \in Frame, Receive(f)
    PROVE  MessageInv'
<1>1. /\ at["reader"] = "read" /\ frames' = Append(frames, f)
      /\ "reader" \in Procs /\ at \in [Procs -> Places] /\ kind \in [Procs -> Kinds]
  BY DEF Receive, ProcTypes, Procs, Users
<1>2. /\ Longer(frames, f, frames')
      /\ delivered \in Seq(Seq(Nat)) /\ message \in Seq(Nat)
      /\ Len(delivered) \in Nat /\ Len(message) \in Nat /\ Len(frames) \in Nat
      /\ Len(frames') = Len(frames) + 1
      /\ (message = << >>) <=> (Len(message) = 0)
  BY <1>1, FrameMore, LenProperties, EmptySeq DEF ReadTypes, Longer
<1>3. InOrder(frames, delivered) /\ Growing(frames, delivered, message)
  BY <1>1 DEF MessageInv, Reading
<1>4. InOrder(frames', delivered) /\ End(delivered) \in 0..Len(frames)
  BY <1>2, <1>3, InOrderStays
<1>5. CASE GiveUp \/ Answer("reply")
  <2>1. delivered' = delivered
    BY <1>5 DEF GiveUp, Answer
  <2>2. at'["reader"] = "leave" \/ (at'["reader"] = "lock" /\ kind'["reader"] = "reply")
    BY <1>1, <1>5 DEF GiveUp, Answer, Go
  <2> QED
    BY <1>4, <2>1, <2>2 DEF MessageInv, Reading, Pausing, ReaderWrites
<1>6. CASE f.op \notin DataOp /\ (Answer("pong") \/ UNCHANGED <<at, kind, message, delivered>>)
  <2>1. UNCHANGED <<message, delivered>>
    BY <1>6 DEF Answer
  <2>2. at'["reader"] = "read" \/ (at'["reader"] = "lock" /\ kind'["reader"] = "pong")
    BY <1>1, <1>6 DEF Answer, Go
  <2>3. ~Pausing'
    BY <2>2 DEF Pausing, ReaderWrites
  <2>4. Growing(frames', delivered, message)
    BY <1>2, <1>3, <1>4, <1>6, GrowingStays
  <2> QED
    BY <1>4, <2>1, <2>3, <2>4 DEF MessageInv
<1>7. CASE f.op \in DataOp /\ ~OutOfPlace(f) /\ Data(f)
  <2>1. message' = Append(message, Len(frames) + 1)
    BY <1>2, <1>7 DEF Data
  <2>2. /\ message' \in Seq(Nat) /\ Longer(message, Len(frames) + 1, message')
    BY <1>2, <2>1, AppendProperties DEF Longer
  <2>3. InPlace(f, message)
    BY <1>2, <1>7 DEF OutOfPlace, DataOp, InPlace
  <2>4. Continued(frames', f, delivered, message')
    BY <1>2, <1>3, <1>4, <2>2, <2>3, DataLinks
  <2>5. CASE Go("reader", "leave") /\ UNCHANGED delivered
    <3>1. at'["reader"] = "leave"
      BY <1>1, <2>5 DEF Go
    <3> QED
      BY <1>4, <2>5, <3>1 DEF MessageInv, Reading, Pausing, ReaderWrites
  <2>6. CASE ~f.fin /\ UNCHANGED <<at, delivered>>
    <3>1. Growing(frames', delivered', message')
      BY <2>6, <2>4 DEF Continued, Growing
    <3>2. ~Pausing'
      BY <1>1, <2>6 DEF Pausing, ReaderWrites
    <3> QED
      BY <1>4, <2>6, <3>1, <3>2 DEF MessageInv
  <2>7. CASE /\ SizeIn(frames', message') <= MaxMessage /\ f.fin
             /\ delivered' = Append(delivered, message') /\ Go("reader", "idle")
    <3>1. Whole(frames', message')
      BY <2>7, <2>4 DEF Continued, Whole
    <3>2. InOrder(frames', delivered') /\ End(delivered') = LastOf(message')
      BY <1>2, <1>4, <2>2, <2>7, <2>4, <3>1, Deliver DEF Continued
    <3>3. at'["reader"] = "idle"
      BY <1>1, <2>7 DEF Go
    <3> QED
      BY <2>4, <3>2, <3>3 DEF Continued, MessageInv, Reading, ReaderWrites
  <2>8. SizeOf(message)' = SizeIn(frames', message')
    BY DEF SizeOf, SizeIn
  <2> QED
    BY <1>7, <2>5, <2>6, <2>7, <2>8 DEF Data
<1>8. \/ GiveUp \/ Answer("reply")
      \/ f.op \notin DataOp /\ (Answer("pong") \/ UNCHANGED <<at, kind, message, delivered>>)
      \/ f.op \in DataOp /\ ~OutOfPlace(f) /\ Data(f)
  <2>1. f.op \in {"text", "continuation", "ping", "pong", "close", "other"}
    BY FrameAssumption DEF Opcode
  <2> QED
    BY <2>1 DEF Receive, DataOp
<1> QED
  BY <1>5, <1>6, <1>7, <1>8

(* A step that reads no frame *)
LEMMA OtherMessages ==
    ASSUME MessageInv, UNCHANGED <<frames, delivered>>,
           Reading' => (Reading /\ message' = message) \/ (Pausing /\ message' = << >>),
           Pausing' => Pausing
    PROVE  MessageInv'
<1>1. Pausing /\ message' = << >> => Growing(frames, delivered, message')
  <2>1. Len(<< >>) = 0
    BY EmptySeq
  <2> QED
    BY <2>1 DEF MessageInv, Growing
<1>2. Reading' => Growing(frames, delivered, message')
  BY <1>1 DEF MessageInv
<1>3. InOrder(frames', delivered') /\ (Pausing' => Behind(frames', End(delivered')))
  BY DEF MessageInv
<1> QED
  BY <1>2, <1>3 DEF MessageInv

(* Every step keeps the messages whole. *)
LEMMA NextMessages == ProcTypes /\ ReadTypes /\ MessageInv /\ [Next]_vars => MessageInv'
<1> SUFFICES ASSUME ProcTypes, ReadTypes, MessageInv, [Next]_vars PROVE MessageInv'
  OBVIOUS
<1>1. "reader" \in Procs /\ Users \subseteq Procs
  BY DEF Procs, Users
<1>2. at \in [Procs -> Places] /\ kind \in [Procs -> Kinds]
  BY DEF ProcTypes
<1>3. CASE Dial \/ Upgraded \/ NotUpgraded \/ Fault \/ Tick \/ UNCHANGED vars
  <2>1. UNCHANGED <<at, kind, frames, message, delivered>>
    BY <1>3 DEF Dial, Upgraded, NotUpgraded, Fault, Tick, vars, procVars, readVars
  <2> QED
    BY <2>1, OtherMessages DEF Reading, Pausing, ReaderWrites
<1>4. ASSUME NEW p \in Procs, Lock(p) \/ Close(p) \/ Shut(p) \/ (p \in Users /\ WriteJSON(p))
      PROVE  MessageInv'
  <2>1. UNCHANGED <<frames, message, delivered>>
    BY <1>4 DEF Lock, Close, Shut, WriteJSON, readVars
  <2>2. /\ Reading' => Reading
        /\ Pausing' => Pausing
    <3>1. CASE Lock(p)
      <4>1. at[p] = "lock" /\ at' = [at EXCEPT ![p] = "header"] /\ UNCHANGED kind
        BY <3>1 DEF Lock, Go
      <4> QED
        BY <1>1, <1>2, <4>1 DEF Reading, Pausing, ReaderWrites
    <3>2. CASE Close(p)
      <4>1. at' = [at EXCEPT ![p] = "lock"] /\ kind' = [kind EXCEPT ![p] = "close"]
        BY <3>2 DEF Close, Go
      <4> QED
        BY <1>1, <1>2, <4>1 DEF Reading, Pausing, ReaderWrites
    <3>3. CASE Shut(p)
      <4>1. at' = [at EXCEPT ![p] = "done"] /\ UNCHANGED kind
        BY <3>3 DEF Shut, Go
      <4> QED
        BY <1>1, <1>2, <4>1 DEF Reading, Pausing, ReaderWrites
    <3>4. CASE WriteJSON(p)
      <4>1. /\ at[p] = "idle" /\ at' = [at EXCEPT ![p] = "lock"]
            /\ kind' = [kind EXCEPT ![p] = "text"]
        BY <3>4 DEF WriteJSON, Go
      <4> QED
        BY <1>1, <1>2, <4>1 DEF Reading, Pausing, ReaderWrites
    <3> QED
      BY <1>4, <3>1, <3>2, <3>3, <3>4
  <2> QED
    BY <2>1, <2>2, OtherMessages
<1>5. ASSUME NEW p \in Procs, WritePiece(p) \/ WriteFails(p) PROVE MessageInv'
  <2>1. at[p] \in {"header", "payload"} /\ UNCHANGED <<kind, frames, message, delivered>>
    BY <1>5 DEF WritePiece, WriteFails, readVars
  <2>2. \/ at' = [at EXCEPT ![p] = "payload"]
        \/ \E ok \in BOOLEAN : at' = [at EXCEPT ![p] = NextPlace(p, ok)]
    BY <1>5 DEF WritePiece, WriteFails, Written, Go
  <2>3. kind[p] \in {"text", "pong", "reply", "close"}
    BY <1>2 DEF Kinds
  <2>4. \/ at'[p] \in {"payload", "leave", "shut"}
        \/ kind[p] = "pong" /\ at'[p] = "read"
        \/ kind[p] = "text" /\ at'[p] = "idle"
    <3>1. ASSUME NEW ok \in BOOLEAN
          PROVE  \/ NextPlace(p, ok) \in {"leave", "shut"}
                 \/ kind[p] = "pong" /\ NextPlace(p, ok) = "read"
                 \/ kind[p] = "text" /\ NextPlace(p, ok) = "idle"
      BY <2>3 DEF NextPlace
    <3> QED
      BY <1>2, <2>2, <3>1
  <2>5. \A q \in Procs : q # p => at'[q] = at[q]
    BY <1>2, <2>2
  <2>6. /\ Reading' => Reading
        /\ Pausing' => Pausing
    <3>1. CASE p = "reader"
      BY <2>1, <2>4, <3>1 DEF Reading, Pausing, ReaderWrites
    <3>2. CASE p # "reader"
      BY <1>1, <2>1, <2>5, <3>2 DEF Reading, Pausing, ReaderWrites
    <3> QED
      BY <3>1, <3>2
  <2> QED
    BY <2>1, <2>6, OtherMessages
<1>6. CASE ReadJSON
  <2>1. /\ at["reader"] = "idle" /\ message' = << >> /\ UNCHANGED <<kind, frames, delivered>>
        /\ at' = [at EXCEPT !["reader"] = "read"]
    BY <1>6 DEF ReadJSON, Go
  <2> QED
    BY <1>1, <1>2, <2>1, OtherMessages DEF Reading, Pausing, ReaderWrites
<1>7. CASE ReadFails
  <2>1. /\ at' = [at EXCEPT !["reader"] = "leave"]
        /\ UNCHANGED <<kind, frames, message, delivered>>
    BY <1>7 DEF ReadFails, Go, readVars
  <2> QED
    BY <1>1, <1>2, <2>1, OtherMessages DEF Reading, Pausing, ReaderWrites
<1>8. ASSUME NEW f \in Frame, Receive(f) PROVE MessageInv'
  BY <1>8, ReceiveMessages
<1> QED
  BY <1>1, <1>3, <1>4, <1>5, <1>6, <1>7, <1>8 DEF Next

(* What ReadJSON hands to the Gateway are the peer's messages, cut where   *)
(* the peer cut them, nothing left out and none too long, whatever control *)
(* frames came in between (readMessage).                                   *)
THEOREM MessagesAreWhole == Spec => []MessagesWhole
<1>1. Init => MessageInv
  <2> SUFFICES ASSUME Init PROVE MessageInv
    OBVIOUS
  <2>1. Len(<< >>) = 0
    BY EmptySeq
  <2>2. Len(frames) = 0 /\ Len(delivered) = 0 /\ Len(message) = 0
    BY <2>1 DEF Init
  <2>3. InOrder(frames, delivered)
    BY <2>2 DEF InOrder
  <2>4. Behind(frames, End(delivered))
    BY <2>2 DEF Behind, Gap, End
  <2> QED
    BY <2>2, <2>3, <2>4 DEF MessageInv, Growing
<1>2. ReadTypes /\ MessageInv => MessagesWhole
  <2> SUFFICES ASSUME ReadTypes, MessageInv, NEW k \in DOMAIN delivered
               PROVE  LET d == delivered[k] IN
                      /\ frames[d[1]].op = "text" /\ frames[d[Len(d)]].fin
                      /\ \A i \in 2..Len(d) :
                            frames[d[i]].op = "continuation" /\ ~frames[d[i-1]].fin
                      /\ \A i \in 2..Len(d) : \A j \in (d[i-1] + 1)..(d[i] - 1) : ~IsData(j)
                      /\ k > 1 => LET e == delivered[k-1] IN
                                  \A j \in (e[Len(e)] + 1)..(d[1] - 1) : ~IsData(j)
                      /\ SizeOf(d) <= MaxMessage
    BY DEF MessagesWhole
  <2> DEFINE d == delivered[k]
  <2>1. k \in 1..Len(delivered)
    BY LenProperties DEF ReadTypes
  <2>2. Whole(frames, d) /\ (k > 1 => Gap(frames, LastOf(delivered[k-1]), d[1]))
    BY <2>1 DEF MessageInv, InOrder
  <2> HIDE DEF d
  <2>3. Linked(frames, d) /\ frames[LastOf(d)].fin /\ SizeOf(d) <= MaxMessage
    BY <2>2 DEF Whole, SizeIn, SizeOf
  <2>4. \A i \in 2..Len(d) : \A j \in (d[i-1] + 1)..(d[i] - 1) : ~IsData(j)
    BY <2>3 DEF Linked, Gap, IsData, DataOp
  <2>5. k > 1 => \A j \in (LastOf(delivered[k-1]) + 1)..(d[1] - 1) : ~IsData(j)
    BY <2>2 DEF Gap, IsData, DataOp
  <2>6. /\ frames[d[1]].op = "text"
        /\ \A i \in 2..Len(d) : frames[d[i]].op = "continuation" /\ ~frames[d[i-1]].fin
    BY <2>3 DEF Linked
  <2> QED
    BY <2>3, <2>4, <2>5, <2>6 DEF d, LastOf
<1> QED
  BY <1>1, <1>2, InitInv, NextInv, NextMessages, PTL DEF Spec

=============================================================================
