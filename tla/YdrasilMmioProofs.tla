------------------------- MODULE YdrasilMmioProofs -------------------------
(***************************************************************************)
(* Proofs about the MMIO path, for every set of addresses and data and     *)
(* whatever the two clocks do: the bus performs each request it is asked   *)
(* exactly once and answers with that access's response, the buses between *)
(* the clocks are read only while they are still, and the result a load    *)
(* has buffered is that of its own access.                                 *)
(***************************************************************************)
EXTENDS YdrasilMmio, TLAPS

(***************************************************************************)
(* The inductive invariant.  A request is a wave that runs through eight   *)
(* toggles: the request toggle, the two flops towards the APB clock, the   *)
(* toggle seen there, the response toggle, the two flops back, and the     *)
(* response the bridge has seen.  A toggle that differs from the last one  *)
(* has been passed, and so have all before it.                             *)
(***************************************************************************)
ChainInv ==
    /\ bridge.state = "wait_response" <=> bridge.req_toggle # bridge.rsp_seen
    /\ req_sync[1] # bridge.rsp_seen => bridge.req_toggle # bridge.rsp_seen
    /\ req_sync[2] # bridge.rsp_seen => req_sync[1] # bridge.rsp_seen
    /\ apb.req_seen # bridge.rsp_seen => req_sync[2] # bridge.rsp_seen
    /\ apb.state # "idle" <=> apb.req_seen # apb.rsp_toggle
    /\ apb.rsp_toggle # bridge.rsp_seen => apb.req_seen # bridge.rsp_seen
    /\ rsp_sync[1] # bridge.rsp_seen => apb.rsp_toggle # bridge.rsp_seen
    /\ rsp_sync[2] # bridge.rsp_seen => rsp_sync[1] # bridge.rsp_seen

\* Master and bridge walk through a request together: address and data of a
\* write are taken in one cycle, and the bridge waits or answers exactly
\* while the master waits for a response.
PairInv ==
    /\ bridge.state \in {"idle", "wait_response", "write_response",
                         "read_response"}
    /\ ~bridge.aw_have /\ ~bridge.w_have
    /\ master.state \in {"idle", "write_addr_data", "read_addr"}
          <=> bridge.state = "idle"
    /\ master.state \in {"write_addr_data", "write_resp"} => master.req.write
    /\ master.state \in {"read_addr", "read_data"} => ~master.req.write
    /\ master.state = "write_addr_data" => ~master.aw_done /\ ~master.w_done
    /\ bridge.state = "write_response" => master.state = "write_resp"
    /\ bridge.state = "read_response" => master.state = "read_data"
    /\ bridge.state = "wait_response"
          => /\ bridge.req = master.req
             /\ bridge.pending_write <=> master.req.write

\* What has been carried so far: the request on the APB, the response of the
\* device on its way back, and the response the bridge answers with.
CarryInv ==
    /\ ~master.req.write => master.req.data = 0
    /\ apb.state # "idle" => apb.req = master.req
    /\ apb.rsp_toggle # bridge.rsp_seen
          => device.req = master.req /\ apb.rsp = device.rsp
    /\ bridge.state \in {"write_response", "read_response"}
          => device.req = master.req /\ bridge.rsp = device.rsp

\* The LSU holds the request the master works on, and no request while a
\* result waits for the completion bus.
LsuInv ==
    /\ mmio_req # None /\ ~mmio_req.write => mmio_req.data = 0
    /\ mmio_req # None /\ master.state # "idle" => mmio_req = master.req
    /\ mmio_wb # None => mmio_req = None
    /\ ResultIsOwn

MmioInd == TypeOK /\ ChainInv /\ PairInv /\ CarryInv /\ LsuInv

(***************************************************************************)
(* What a CPU clock edge can do to master and bridge, given the invariant. *)
(***************************************************************************)
Rests == /\ master.state = "idle" /\ mmio_req = None
         /\ master' = [master EXCEPT !.aw_done = FALSE, !.w_done = FALSE]
         /\ bridge' = bridge
TakesUp == /\ master.state = "idle" /\ mmio_req # None
           /\ master' = [state |-> IF mmio_req.write THEN "write_addr_data"
                                   ELSE "read_addr",
                         req |-> mmio_req, aw_done |-> FALSE, w_done |-> FALSE]
           /\ bridge' = bridge
SendsWrite ==
    /\ master.state = "write_addr_data"
    /\ master' = [master EXCEPT !.aw_done = TRUE, !.w_done = TRUE,
                                !.state = "write_resp"]
    /\ bridge' = [bridge EXCEPT !.req = master.req, !.pending_write = TRUE,
                                !.req_toggle = Flip(@), !.aw_have = FALSE,
                                !.w_have = FALSE, !.state = "wait_response"]
SendsRead ==
    /\ master.state = "read_addr"
    /\ master' = [master EXCEPT !.state = "read_data"]
    /\ bridge' = [bridge EXCEPT !.req = master.req, !.pending_write = FALSE,
                                !.req_toggle = Flip(@),
                                !.state = "wait_response"]
Waits == /\ bridge.state = "wait_response" /\ rsp_sync[2] = bridge.rsp_seen
         /\ master' = master /\ bridge' = bridge
Receives ==
    /\ bridge.state = "wait_response" /\ rsp_sync[2] # bridge.rsp_seen
    /\ master' = master
    /\ bridge' = [bridge EXCEPT !.rsp_seen = rsp_sync[2], !.rsp = apb.rsp,
                    !.state = IF master.req.write THEN "write_response"
                              ELSE "read_response"]
Answers ==
    /\ bridge.state \in {"write_response", "read_response"}
    /\ master' = [master EXCEPT !.state = "idle"]
    /\ bridge' = [bridge EXCEPT !.rsp.err = FALSE, !.state = "idle"]
AxiMove == \/ Rests \/ TakesUp \/ SendsWrite \/ SendsRead
           \/ Waits \/ Receives \/ Answers

\* Nothing is answered unless the bridge holds a response.
LEMMA AnswerOnlyThen ==
    ASSUME MmioInd
    PROVE  rsp_valid <=> bridge.state \in {"write_response", "read_response"}
BY DEF MmioInd, TypeOK, PairInv, rsp_valid, b_fire, r_fire

\* A CPU clock edge moves master and bridge in one of those ways.
LEMMA AxiMoves ==
    ASSUME MmioInd, MasterStep, BridgeStep
    PROVE  AxiMove
<1> USE DEF MmioInd, TypeOK, PairInv
<1>0. /\ master.state \in {"idle", "write_addr_data", "write_resp",
                           "read_addr", "read_data"}
      /\ DOMAIN master = {"state", "req", "aw_done", "w_done"}
      OBVIOUS
<1>1. CASE master.state = "idle"
  <2>1. bridge.state = "idle" BY <1>1
  <2>2. ~aw_fire /\ ~w_fire /\ ~ar_fire
    BY <1>1 DEF aw_fire, w_fire, ar_fire, awvalid, wvalid
  <2>3. bridge' = bridge
    BY <2>1, <2>2 DEF BridgeStep, write_collect, Collect, HaveAw, HaveW
  <2>4. CASE mmio_req = None
    BY <1>1, <2>3, <2>4 DEF MasterStep, AxiMove, Rests
  <2>5. CASE mmio_req # None
    BY <1>1, <2>3, <2>5 DEF MasterStep, AxiMove, TakesUp
  <2> QED BY <2>4, <2>5
<1>2. CASE master.state = "write_addr_data"
  <2>1. bridge.state = "idle" /\ ~master.aw_done /\ ~master.w_done BY <1>2
  <2>2. aw_fire /\ w_fire /\ ~ar_fire
    BY <1>2, <2>1 DEF aw_fire, w_fire, ar_fire, awvalid, wvalid, write_collect
  <2>3. bridge' = [bridge EXCEPT !.req =
                     [[bridge.req EXCEPT !.addr = master.req.addr,
                                         !.data = master.req.data]
                      EXCEPT !.write = TRUE],
              !.pending_write = TRUE, !.req_toggle = Flip(@),
              !.aw_have = FALSE, !.w_have = FALSE,
              !.state = "wait_response"]
    BY <2>1, <2>2 DEF BridgeStep, write_collect, Collect, HaveAw, HaveW
  <2>4. [[bridge.req EXCEPT !.addr = master.req.addr,
                            !.data = master.req.data]
                      EXCEPT !.write = TRUE] = master.req
    BY <1>2 DEF Requests
  <2>5. master' = [master EXCEPT !.aw_done = TRUE, !.w_done = TRUE,
                                 !.state = "write_resp"]
    BY <1>2, <2>2 DEF MasterStep
  <2> QED BY <1>2, <2>3, <2>4, <2>5 DEF AxiMove, SendsWrite
<1>3. CASE master.state = "read_addr"
  <2>1. bridge.state = "idle" BY <1>3
  <2>2. ~aw_fire /\ ~w_fire /\ ar_fire
    BY <1>3, <2>1 DEF aw_fire, w_fire, ar_fire, awvalid, wvalid
  <2>3. bridge' = [bridge EXCEPT
              !.req = [write |-> FALSE, addr |-> master.req.addr, data |-> 0],
              !.pending_write = FALSE, !.req_toggle = Flip(@),
              !.state = "wait_response"]
    BY <2>1, <2>2 DEF BridgeStep, write_collect, Collect, HaveAw, HaveW
  <2>4. [write |-> FALSE, addr |-> master.req.addr, data |-> 0] = master.req
    BY <1>3 DEF CarryInv, Requests
  <2>5. master' = [master EXCEPT !.state = "read_data"]
    BY <1>3, <2>2 DEF MasterStep
  <2> QED BY <1>3, <2>3, <2>4, <2>5 DEF AxiMove, SendsRead
<1>4. CASE master.state \in {"write_resp", "read_data"}
  <2>1. bridge.state # "idle" BY <1>4
  <2>2. CASE bridge.state = "wait_response"
    <3>1. ~rsp_valid BY <2>2, AnswerOnlyThen
    <3>2. master' = master BY <1>4, <3>1 DEF MasterStep
    <3>3. bridge' = Await BY <2>2 DEF BridgeStep, write_collect
    <3>4. bridge.pending_write <=> master.req.write BY <2>2
    <3> QED BY <2>2, <3>2, <3>3, <3>4 DEF Await, AxiMove, Waits, Receives
  <2>3. CASE bridge.state \in {"write_response", "read_response"}
    <3>1. rsp_valid BY <2>3, AnswerOnlyThen
    <3>2. master' = [master EXCEPT !.state = "idle"]
      BY <1>4, <3>1 DEF MasterStep
    <3>3. bridge' = [bridge EXCEPT !.rsp.err = FALSE, !.state = "idle"]
      BY <2>3, <3>1 DEF BridgeStep, write_collect
    <3> QED BY <2>3, <3>2, <3>3 DEF AxiMove, Answers
  <2> QED BY <2>1, <2>2, <2>3
<1> QED BY <1>0, <1>1, <1>2, <1>3, <1>4

(***************************************************************************)
(* What an APB clock edge can do to the APB half.                          *)
(***************************************************************************)
Stays == apb' = apb /\ device' = device
Captures == /\ apb.state = "idle" /\ req_sync[2] # apb.req_seen
            /\ apb' = [apb EXCEPT !.req_seen = req_sync[2],
                                  !.req = bridge.req, !.state = "setup"]
            /\ device' = device
SetsUp == /\ apb.state = "setup" /\ device' = device
          /\ apb' = [apb EXCEPT !.state = "access"]
Performs(d) ==
    /\ apb.state = "access"
    /\ apb' = [apb EXCEPT !.rsp = d, !.rsp_toggle = Flip(@), !.state = "idle"]
    /\ device' = [req |-> apb.req, rsp |-> d]
ApbMove == Stays \/ Captures \/ SetsUp \/ \E d \in Responses : Performs(d)

\* An APB clock edge moves the APB half in one of those ways, and leaves a
\* request alone that has not arrived.
LEMMA ApbMoves ==
    ASSUME TypeOK, NEW pready \in BOOLEAN, ApbStep(pready)
    PROVE  /\ ApbMove
           /\ req_sync' = <<bridge.req_toggle, req_sync[1]>>
           /\ Stays => apb.state # "idle" \/ req_sync[2] = apb.req_seen
<1>1. PICK d \in IF apb.state = "access" /\ pready THEN Responses ELSE {NoRsp} :
        /\ apb' = ApbFsm(pready, d)
        /\ req_sync' = <<bridge.req_toggle, req_sync[1]>>
        /\ device' = IF apb.state = "access" /\ pready
                     THEN [req |-> apb.req, rsp |-> d] ELSE device
  BY DEF ApbStep
<1>2. CASE apb.state = "idle"
  BY <1>1, <1>2 DEF ApbFsm, ReqArrived, ApbMove, Stays, Captures, TypeOK
<1>3. CASE apb.state = "setup"
  BY <1>1, <1>3 DEF ApbFsm, ApbMove, Stays, SetsUp, TypeOK
<1>4. CASE apb.state = "access" /\ pready
  <2>1. d \in Responses BY <1>1, <1>4
  <2>2. Performs(d) BY <1>1, <1>4 DEF ApbFsm, Performs
  <2> QED BY <1>1, <1>4, <2>1, <2>2 DEF ApbMove
<1>5. CASE apb.state = "access" /\ ~pready
  BY <1>1, <1>5 DEF ApbFsm, ApbMove, Stays
<1> QED BY <1>2, <1>3, <1>4, <1>5 DEF TypeOK

(***************************************************************************)
(* The invariant under the steps.                                          *)
(***************************************************************************)
\* A step of the path: an edge of either clock, or of both.
AxiHalf == \/ AxiMove /\ rsp_sync' = <<apb.rsp_toggle, rsp_sync[1]>>
           \/ UNCHANGED <<master, bridge, rsp_sync>>
ApbHalf == \/ ApbMove /\ req_sync' = <<bridge.req_toggle, req_sync[1]>>
           \/ UNCHANGED <<apb, req_sync, device>>

\* Every step is one.
LEMMA Halves ==
    ASSUME MmioInd, [Next]_vars
    PROVE  AxiHalf /\ ApbHalf
<1>1. ASSUME AxiStep PROVE AxiHalf
  BY <1>1, AxiMoves DEF AxiStep, BridgeStep, AxiHalf
<1>2. ASSUME UNCHANGED axi_vars PROVE AxiHalf
  BY <1>2 DEF axi_vars, AxiHalf
<1>3. ASSUME NEW p \in BOOLEAN, ApbStep(p) PROVE ApbHalf
  BY <1>3, ApbMoves DEF MmioInd, ApbHalf
<1>4. ASSUME UNCHANGED apb_vars PROVE ApbHalf
  BY <1>4 DEF apb_vars, ApbHalf
<1> QED BY <1>1, <1>2, <1>3, <1>4
        DEF Next, AxiEdge, ApbEdge, BothEdges, vars

\* The fields after a step keep their types.
LEMMA FieldTypes ==
    ASSUME MmioInd, AxiHalf, ApbHalf
    PROVE  /\ master' \in [state : {"idle", "write_addr_data", "write_resp",
                            "read_addr", "read_data"},
                   req : Requests, aw_done : BOOLEAN, w_done : BOOLEAN]
           /\ bridge' \in [state : {"idle", "write_collect", "wait_response",
                            "write_response", "read_response"},
                   req : Requests, aw_have : BOOLEAN, w_have : BOOLEAN,
                   pending_write : BOOLEAN, req_toggle : {0, 1},
                   rsp_seen : {0, 1}, rsp : Responses]
           /\ apb' \in [state : {"idle", "setup", "access"}, req : Requests,
                rsp : Responses, req_seen : {0, 1}, rsp_toggle : {0, 1}]
           /\ rsp_sync' \in {0, 1} \X {0, 1} /\ req_sync' \in {0, 1} \X {0, 1}
           /\ device' \in [req : Requests, rsp : Responses]
<1> USE DEF MmioInd, TypeOK
<1>1. mmio_req # None => mmio_req \in Requests OBVIOUS
<1>2. Flip(bridge.req_toggle) \in {0, 1} /\ Flip(apb.rsp_toggle) \in {0, 1}
  BY DEF Flip
<1>3. [bridge.rsp EXCEPT !.err = FALSE] \in Responses BY DEF Responses
<1>4. bridge.rsp \in Responses /\ apb.rsp \in Responses /\ bridge.req \in Requests
      /\ master.req \in Requests /\ apb.req \in Requests
  OBVIOUS
<1>5. /\ rsp_sync[1] \in {0, 1} /\ rsp_sync[2] \in {0, 1}
      /\ req_sync[1] \in {0, 1} /\ req_sync[2] \in {0, 1}
      /\ apb.rsp_toggle \in {0, 1} /\ bridge.req_toggle \in {0, 1}
  OBVIOUS
<1>6. rsp_sync' \in {0, 1} \X {0, 1} BY <1>5 DEF AxiHalf
<1>7. req_sync' \in {0, 1} \X {0, 1} BY <1>5 DEF ApbHalf
<1>8. /\ master' \in [state : {"idle", "write_addr_data", "write_resp",
                            "read_addr", "read_data"},
                   req : Requests, aw_done : BOOLEAN, w_done : BOOLEAN]
      /\ bridge' \in [state : {"idle", "write_collect", "wait_response",
                            "write_response", "read_response"},
                   req : Requests, aw_have : BOOLEAN, w_have : BOOLEAN,
                   pending_write : BOOLEAN, req_toggle : {0, 1},
                   rsp_seen : {0, 1}, rsp : Responses]
  <2>1. CASE Rests BY <2>1 DEF Rests
  <2>2. CASE TakesUp BY <2>2, <1>1 DEF TakesUp
  <2>3. CASE SendsWrite BY <2>3, <1>2, <1>4 DEF SendsWrite
  <2>4. CASE SendsRead BY <2>4, <1>2, <1>4 DEF SendsRead
  <2>5. CASE Waits BY <2>5 DEF Waits
  <2>6. CASE Receives BY <2>6, <1>4, <1>5 DEF Receives
  <2>7. CASE Answers BY <2>7, <1>3 DEF Answers
  <2>8. CASE UNCHANGED <<master, bridge, rsp_sync>> BY <2>8
  <2> QED BY <2>1, <2>2, <2>3, <2>4, <2>5, <2>6, <2>7, <2>8
          DEF AxiHalf, AxiMove
<1>9. /\ apb' \in [state : {"idle", "setup", "access"}, req : Requests,
                rsp : Responses, req_seen : {0, 1}, rsp_toggle : {0, 1}]
      /\ device' \in [req : Requests, rsp : Responses]
  <2>1. CASE Stays BY <2>1 DEF Stays
  <2>2. CASE Captures BY <2>2, <1>4, <1>5 DEF Captures
  <2>3. CASE SetsUp BY <2>3 DEF SetsUp
  <2>4. ASSUME NEW d \in Responses, Performs(d)
        PROVE  /\ apb' \in [state : {"idle", "setup", "access"},
                      req : Requests, rsp : Responses,
                      req_seen : {0, 1}, rsp_toggle : {0, 1}]
               /\ device' \in [req : Requests, rsp : Responses]
    BY <2>4, <1>2, <1>4 DEF Performs
  <2>5. CASE UNCHANGED <<apb, req_sync, device>> BY <2>5
  <2> QED BY <2>1, <2>2, <2>3, <2>4, <2>5 DEF ApbHalf, ApbMove
<1> QED BY <1>6, <1>7, <1>8, <1>9

\* What a step does to the toggles of the bridge and to its waiting.
LEMMA BridgeToggles ==
    ASSUME MmioInd, AxiHalf
    PROVE  /\ \/ /\ rsp_sync'[1] = apb.rsp_toggle
                 /\ rsp_sync'[2] = rsp_sync[1]
              \/ /\ rsp_sync'[1] = rsp_sync[1] /\ rsp_sync'[2] = rsp_sync[2]
                 /\ bridge' = bridge
           /\ \/ /\ bridge'.state = "wait_response"
                       <=> bridge.state = "wait_response"
                 /\ bridge'.req_toggle = bridge.req_toggle
                 /\ bridge'.rsp_seen = bridge.rsp_seen
              \/ /\ bridge.state = "idle" /\ bridge'.state = "wait_response"
                 /\ bridge'.req_toggle = 1 - bridge.req_toggle
                 /\ bridge'.rsp_seen = bridge.rsp_seen
              \/ /\ bridge.state = "wait_response"
                 /\ rsp_sync[2] # bridge.rsp_seen
                 /\ bridge'.state # "wait_response"
                 /\ bridge'.req_toggle = bridge.req_toggle
                 /\ bridge'.rsp_seen = rsp_sync[2]
<1> USE DEF MmioInd, TypeOK
<1>1. \/ rsp_sync'[1] = apb.rsp_toggle /\ rsp_sync'[2] = rsp_sync[1]
      \/ /\ rsp_sync'[1] = rsp_sync[1] /\ rsp_sync'[2] = rsp_sync[2]
         /\ bridge' = bridge
  BY DEF AxiHalf
<1>2. CASE bridge' = bridge BY <1>1, <1>2
<1>3. CASE SendsWrite \/ SendsRead
  BY <1>1, <1>3 DEF SendsWrite, SendsRead, Flip, PairInv
<1>4. CASE Receives
  BY <1>1, <1>4 DEF Receives
<1>5. CASE Answers
  BY <1>1, <1>5 DEF Answers
<1> QED BY <1>2, <1>3, <1>4, <1>5
        DEF AxiHalf, AxiMove, Rests, TakesUp, Waits

\* What a step does to the toggles of the APB half and to its state.
LEMMA ApbToggles ==
    ASSUME MmioInd, ApbHalf
    PROVE  /\ \/ /\ req_sync'[1] = bridge.req_toggle
                 /\ req_sync'[2] = req_sync[1]
              \/ /\ req_sync'[1] = req_sync[1] /\ req_sync'[2] = req_sync[2]
                 /\ apb' = apb
           /\ \/ /\ apb'.state = "idle" <=> apb.state = "idle"
                 /\ apb'.req_seen = apb.req_seen
                 /\ apb'.rsp_toggle = apb.rsp_toggle
              \/ /\ apb.state = "idle" /\ apb'.state # "idle"
                 /\ req_sync[2] # apb.req_seen
                 /\ apb'.req_seen = req_sync[2]
                 /\ apb'.rsp_toggle = apb.rsp_toggle
              \/ /\ apb.state # "idle" /\ apb'.state = "idle"
                 /\ apb'.req_seen = apb.req_seen
                 /\ apb'.rsp_toggle = 1 - apb.rsp_toggle
<1> USE DEF MmioInd, TypeOK
<1>1. \/ req_sync'[1] = bridge.req_toggle /\ req_sync'[2] = req_sync[1]
      \/ /\ req_sync'[1] = req_sync[1] /\ req_sync'[2] = req_sync[2]
         /\ apb' = apb
  BY DEF ApbHalf
<1>2. CASE apb' = apb BY <1>1, <1>2
<1>3. CASE Captures BY <1>1, <1>3 DEF Captures
<1>4. CASE SetsUp BY <1>1, <1>4 DEF SetsUp
<1>5. CASE \E d \in Responses : Performs(d)
  BY <1>1, <1>5 DEF Performs, Flip
<1> QED BY <1>2, <1>3, <1>4, <1>5 DEF ApbHalf, ApbMove, Stays

\* The wave of a request moves on through the toggles and never overtakes
\* itself, whichever of the two clocks has an edge.
LEMMA ChainStep ==
    ASSUME MmioInd, AxiHalf, ApbHalf
    PROVE  ChainInv'
<1>1. /\ rsp_sync[1] \in {0, 1} /\ rsp_sync[2] \in {0, 1}
      /\ req_sync[1] \in {0, 1} /\ req_sync[2] \in {0, 1}
      /\ bridge.req_toggle \in {0, 1} /\ bridge.rsp_seen \in {0, 1}
      /\ apb.req_seen \in {0, 1} /\ apb.rsp_toggle \in {0, 1}
  BY DEF MmioInd, TypeOK
<1>2. ChainInv BY DEF MmioInd
<1> QED BY <1>1, <1>2, BridgeToggles, ApbToggles DEF ChainInv

\* Whatever is under way in the APB half belongs to the request the bridge
\* waits for.
LEMMA UnderWay ==
    ASSUME MmioInd,
           \/ apb.state # "idle" \/ req_sync[2] # apb.req_seen
           \/ apb.rsp_toggle # bridge.rsp_seen
    PROVE  /\ bridge.state = "wait_response" /\ bridge.req = master.req
           /\ master.state \in {"write_resp", "read_data"}
<1>1. /\ req_sync[2] \in {0, 1} /\ bridge.rsp_seen \in {0, 1}
      /\ apb.req_seen \in {0, 1} /\ apb.rsp_toggle \in {0, 1}
  BY DEF MmioInd, TypeOK
<1>2. bridge.state = "wait_response" BY <1>1 DEF MmioInd, ChainInv
<1> QED BY <1>2 DEF MmioInd, PairInv, TypeOK

\* Master and bridge stay in step.
LEMMA PairStep ==
    ASSUME MmioInd, AxiHalf
    PROVE  PairInv'
<1> USE DEF MmioInd, PairInv, TypeOK
<1>1. CASE Rests BY <1>1 DEF Rests
<1>2. CASE TakesUp BY <1>2 DEF TakesUp
<1>3. CASE SendsWrite BY <1>3 DEF SendsWrite
<1>4. CASE SendsRead BY <1>4 DEF SendsRead
<1>5. CASE Waits BY <1>5 DEF Waits
<1>6. CASE Receives BY <1>6 DEF Receives
<1>7. CASE Answers BY <1>7 DEF Answers
<1>8. CASE UNCHANGED <<master, bridge, rsp_sync>> BY <1>8
<1> QED BY <1>1, <1>2, <1>3, <1>4, <1>5, <1>6, <1>7, <1>8
        DEF AxiHalf, AxiMove

\* The master's request changes only when it takes one up.
LEMMA RequestHeld ==
    ASSUME MmioInd, AxiHalf
    PROVE  TakesUp \/ master'.req = master.req
<1> USE DEF MmioInd, TypeOK
<1>1. CASE Rests BY <1>1 DEF Rests
<1>2. CASE SendsWrite \/ SendsRead BY <1>2 DEF SendsWrite, SendsRead
<1>3. CASE Answers BY <1>3 DEF Answers
<1> QED BY <1>1, <1>2, <1>3 DEF AxiHalf, AxiMove, Waits, Receives

\* The request and the response are carried unchanged.
LEMMA CarryStep ==
    ASSUME MmioInd, AxiHalf, ApbHalf
    PROVE  CarryInv'
<1>1. ~master'.req.write => master'.req.data = 0
  <2>1. CASE TakesUp BY <2>1 DEF TakesUp, MmioInd, LsuInv
  <2> QED BY <2>1, RequestHeld DEF MmioInd, CarryInv
<1>2. apb'.state # "idle" => apb'.req = master'.req
  <2>1. CASE apb.state # "idle"
    <3>1. apb'.req = apb.req
      BY <2>1 DEF ApbHalf, ApbMove, Stays, Captures, SetsUp, Performs,
                  MmioInd, TypeOK
    <3>2. master.state # "idle" BY <2>1, UnderWay
    <3> QED BY <2>1, <3>1, <3>2, RequestHeld DEF TakesUp, MmioInd, CarryInv
  <2>2. CASE apb.state = "idle" /\ Captures
    <3>1. apb'.req = bridge.req BY <2>2 DEF Captures, MmioInd, TypeOK
    <3>2. req_sync[2] # apb.req_seen BY <2>2 DEF Captures
    <3>3. bridge.req = master.req /\ master.state # "idle"
      BY <3>2, UnderWay
    <3> QED BY <3>1, <3>3, RequestHeld DEF TakesUp
  <2>3. CASE apb.state = "idle" /\ ~Captures
    BY <2>3 DEF ApbHalf, ApbMove, Stays, SetsUp, Performs
  <2> QED BY <2>1, <2>2, <2>3
<1>3. apb'.rsp_toggle # bridge'.rsp_seen
        => device'.req = master'.req /\ apb'.rsp = device'.rsp
  <2>1. CASE \E d \in Responses : Performs(d)
    <3>1. PICK d \in Responses : Performs(d) BY <2>1
    <3>2. apb.state # "idle" BY <3>1 DEF Performs
    <3>3. master.state # "idle" /\ apb.req = master.req
      BY <3>2, UnderWay DEF MmioInd, CarryInv
    <3>4. master'.req = master.req BY <3>3, RequestHeld DEF TakesUp
    <3> QED BY <3>1, <3>3, <3>4 DEF Performs, MmioInd, TypeOK
  <2>2. CASE ~ \E d \in Responses : Performs(d)
    <3>1. /\ device' = device /\ apb'.rsp = apb.rsp
          /\ apb'.rsp_toggle = apb.rsp_toggle
      BY <2>2 DEF ApbHalf, ApbMove, Stays, Captures, SetsUp, MmioInd, TypeOK
    <3>2. SUFFICES ASSUME apb.rsp_toggle # bridge'.rsp_seen
                   PROVE  device.req = master'.req /\ apb.rsp = device.rsp
      BY <3>1
    <3>3. apb.rsp_toggle # bridge.rsp_seen
      <4>1. CASE bridge'.rsp_seen = bridge.rsp_seen BY <3>2, <4>1
      <4>2. CASE bridge'.rsp_seen = rsp_sync[2]
                  /\ rsp_sync[2] # bridge.rsp_seen
        BY <3>2, <4>2 DEF MmioInd, ChainInv
      <4> QED BY <4>1, <4>2, BridgeToggles
    <3>4. master.state # "idle" BY <3>3, UnderWay
    <3> QED BY <3>3, <3>4, RequestHeld DEF TakesUp, MmioInd, CarryInv
  <2> QED BY <2>1, <2>2
<1>4. bridge'.state \in {"write_response", "read_response"}
        => device'.req = master'.req /\ bridge'.rsp = device'.rsp
  <2>1. CASE Receives
    <3>1. /\ rsp_sync[2] # bridge.rsp_seen /\ bridge'.rsp = apb.rsp
          /\ master' = master
      BY <2>1 DEF Receives, MmioInd, TypeOK
    <3>2. apb.rsp_toggle # bridge.rsp_seen
      BY <3>1 DEF MmioInd, ChainInv
    <3>3. apb.state = "idle"
      BY <3>2 DEF MmioInd, ChainInv, TypeOK
    <3>4. device' = device
      BY <3>3 DEF ApbHalf, ApbMove, Stays, Captures, SetsUp, Performs
    <3> QED BY <3>1, <3>2, <3>4 DEF MmioInd, CarryInv
  <2>2. CASE /\ bridge' = bridge
             /\ bridge.state \in {"write_response", "read_response"}
    <3>1. apb.state = "idle" /\ master.state # "idle"
      BY <2>2, UnderWay DEF MmioInd, PairInv
    <3>2. device' = device
      BY <3>1 DEF ApbHalf, ApbMove, Stays, Captures, SetsUp, Performs
    <3>3. master'.req = master.req BY <3>1, RequestHeld DEF TakesUp
    <3> QED BY <2>2, <3>2, <3>3 DEF MmioInd, CarryInv
  <2>3. CASE ~Receives /\ bridge' # bridge
    BY <2>3 DEF AxiHalf, AxiMove, Rests, TakesUp, SendsWrite, SendsRead,
                Waits, Answers, MmioInd, TypeOK
  <2>4. CASE /\ bridge' = bridge
             /\ bridge.state \notin {"write_response", "read_response"}
    BY <2>4
  <2> QED BY <2>1, <2>2, <2>3, <2>4
<1> QED BY <1>1, <1>2, <1>3, <1>4 DEF CarryInv

(***************************************************************************)
(* The transaction registers of the LSU.                                   *)
(***************************************************************************)
\* What a CPU clock edge does to the request and to the buffered result: a
\* request is held, dropped, or launched where there was none; a result is
\* the answer to the read the LSU holds, or is kept, or leaves.
ReqHeld == mmio_req' = mmio_req \/ mmio_req' = None
Launched == /\ mmio_req = None /\ mmio_wb = None /\ master.state = "idle"
            /\ mmio_req' \in Requests
            /\ ~mmio_req'.write => mmio_req'.data = 0
WbHeld == mmio_wb' = mmio_wb \/ mmio_wb' = None
WbFilled == /\ mmio_req # None /\ ~mmio_req.write /\ rsp_valid
            /\ mmio_req' = None /\ mmio_wb' = Answer.data

\* A CPU clock edge moves them in one of those ways.
LEMMA LsuMoves ==
    ASSUME AxiStep
    PROVE  (ReqHeld \/ Launched) /\ (WbHeld \/ WbFilled)
<1>1. PICK fire \in Requests \cup {None}, dtcm \in BOOLEAN,
           kept \in Choices(recovery_pending),
           s1_kept \in Choices(recovery_pending /\ load_s1) :
             LsuStep(fire, dtcm, kept, s1_kept)
  BY DEF AxiStep
<1>2. /\ fire # None => mmio_fire(fire)
      /\ LsuRegisters(fire, dtcm, kept)
  BY <1>1 DEF LsuStep
<1>3. CASE recovery_pending
  BY <1>2, <1>3 DEF LsuRegisters, ReqHeld, WbHeld
<1>4. CASE ~recovery_pending /\ fire # None
  <2>1. /\ mmio_req = None /\ mmio_wb = None /\ master.state = "idle"
        /\ fire \in Requests /\ (~fire.write => fire.data = 0)
    BY <1>2, <1>4 DEF mmio_fire, mmio_busy
  <2>2. mmio_req' = fire /\ WbHeld
    BY <1>2, <1>4, <2>1 DEF LsuRegisters, WbHeld
  <2> QED BY <2>1, <2>2 DEF Launched
<1>5. CASE ~recovery_pending /\ fire = None
  <2>1. mmio_req' = IF rsp_valid THEN None ELSE mmio_req
    BY <1>2, <1>5 DEF LsuRegisters
  <2>2. mmio_wb' = IF mmio_req # None /\ rsp_valid /\ ~mmio_req.write
                   THEN Answer.data
                   ELSE IF load_s1 THEN mmio_wb ELSE None
    BY <1>2, <1>5 DEF LsuRegisters
  <2> QED BY <2>1, <2>2 DEF ReqHeld, WbHeld, WbFilled
<1> QED BY <1>3, <1>4, <1>5

\* The answer to a read is the response of the device to it.
LEMMA AnswerIs ==
    ASSUME MmioInd, rsp_valid
    PROVE  /\ Answer = Forward(master.req, device.rsp) /\ Answer \in Responses
           /\ device.req = master.req
<1> USE DEF MmioInd, TypeOK
<1>1. bridge.state \in {"write_response", "read_response"}
  BY AnswerOnlyThen
<1>2. device.req = master.req /\ bridge.rsp = device.rsp
  BY <1>1 DEF CarryInv
<1>3. CASE bridge.state = "write_response"
  <2>1. b_fire /\ master.req.write BY <1>3 DEF PairInv, b_fire
  <2>2. [NoRsp EXCEPT !.err = bridge.rsp.err] = [bridge.rsp EXCEPT !.data = 0]
    BY DEF NoRsp, Responses
  <2>3. [bridge.rsp EXCEPT !.data = 0] \in Responses
    BY MmioAssumption DEF Responses
  <2> QED BY <1>2, <2>1, <2>2, <2>3 DEF Answer, Forward
<1>4. CASE bridge.state = "read_response"
  <2>1. ~b_fire /\ ~master.req.write BY <1>4 DEF PairInv, b_fire
  <2> QED BY <1>2, <2>1 DEF Answer, Forward
<1> QED BY <1>1, <1>3, <1>4

\* The access performed last is no other while no request is under way.
LEMMA DeviceStill ==
    ASSUME MmioInd, ApbHalf, bridge.state # "wait_response"
    PROVE  device' = device
<1>1. apb.state = "idle" BY UnderWay
<1> QED BY <1>1 DEF ApbHalf, ApbMove, Stays, Captures, SetsUp, Performs

\* The registers of the LSU agree with the path.
LEMMA LsuStepInv ==
    ASSUME MmioInd, AxiHalf, ApbHalf,
           AxiStep \/ UNCHANGED axi_vars
    PROVE  LsuInv'
<1>1. (ReqHeld \/ Launched) /\ (WbHeld \/ WbFilled)
  BY LsuMoves DEF axi_vars, ReqHeld, WbHeld
<1>2. mmio_req' # None /\ ~mmio_req'.write => mmio_req'.data = 0
  BY <1>1 DEF ReqHeld, Launched, MmioInd, LsuInv
<1>3. master'.state # "idle" /\ ~TakesUp
        => master.state # "idle" /\ master'.req = master.req
  <2> USE DEF MmioInd, TypeOK
  <2>1. CASE Rests BY <2>1 DEF Rests
  <2>2. CASE SendsWrite \/ SendsRead
    BY <2>2 DEF SendsWrite, SendsRead
  <2>3. CASE Answers BY <2>3 DEF Answers
  <2> QED BY <2>1, <2>2, <2>3 DEF AxiHalf, AxiMove, Waits, Receives
<1>4. mmio_req' # None /\ master'.state # "idle" => mmio_req' = master'.req
  <2>1. CASE TakesUp
    BY <1>1, <2>1 DEF TakesUp, ReqHeld, Launched
  <2>2. CASE ~TakesUp /\ Launched
    BY <1>3, <2>2 DEF Launched
  <2>3. CASE ~TakesUp /\ ReqHeld
    BY <1>3, <2>3 DEF ReqHeld, MmioInd, LsuInv
  <2> QED BY <1>1, <2>1, <2>2, <2>3
<1>5. mmio_wb' # None => /\ mmio_req' = None
                         /\ master'.state = "idle" /\ ~master'.req.write
                         /\ device'.req = master'.req
                         /\ mmio_wb' = device'.rsp.data
  <2>1. CASE WbFilled
    <3>1. bridge.state \in {"write_response", "read_response"}
      BY <2>1, AnswerOnlyThen DEF WbFilled
    <3>2. device' = device BY <3>1, DeviceStill
    <3>3. master'.state = "idle" /\ master'.req = master.req
      <4>1. Answers
        <5>1. AxiStep \/ (UNCHANGED <<master, bridge, rsp_sync, mmio_req>>)
          BY DEF axi_vars
        <5>2. AxiStep BY <2>1, <5>1 DEF WbFilled
        <5>3. MasterStep /\ BridgeStep BY <5>2 DEF AxiStep
        <5>4. AxiMove BY <5>3, AxiMoves
        <5> QED BY <3>1, <5>4 DEF AxiMove, Rests, TakesUp, SendsWrite,
                   SendsRead, Waits, Receives, MmioInd, PairInv
      <4> QED BY <4>1 DEF Answers, MmioInd, TypeOK
    <3>4. master.state # "idle" BY <3>1 DEF MmioInd, PairInv
    <3>5. ~master.req.write
      BY <2>1, <3>4 DEF WbFilled, MmioInd, LsuInv
    <3>6. Answer = device.rsp /\ device.req = master.req
      BY <2>1, <3>5, AnswerIs DEF WbFilled, Forward
    <3> QED BY <2>1, <3>2, <3>3, <3>5, <3>6 DEF WbFilled
  <2>2. CASE WbHeld
    <3>1. SUFFICES ASSUME mmio_wb' # None
                   PROVE  /\ mmio_req' = None
                          /\ master'.state = "idle" /\ ~master'.req.write
                          /\ device'.req = master'.req
                          /\ mmio_wb' = device'.rsp.data
      OBVIOUS
    <3>2. mmio_wb # None /\ mmio_wb' = mmio_wb BY <2>2, <3>1 DEF WbHeld
    <3>3. /\ mmio_req = None /\ master.state = "idle" /\ ~master.req.write
          /\ device.req = master.req /\ mmio_wb = device.rsp.data
      BY <3>2 DEF MmioInd, LsuInv, ResultIsOwn
    <3>4. mmio_req' = None BY <1>1, <3>2, <3>3 DEF ReqHeld, Launched
    <3>5. bridge.state = "idle" BY <3>3 DEF MmioInd, PairInv
    <3>6. device' = device BY <3>5, DeviceStill
    <3>7. ~TakesUp BY <3>3 DEF TakesUp
    <3>8. master'.state = "idle" BY <1>3, <3>3, <3>7
    <3>9. master'.req = master.req BY <3>7, RequestHeld
    <3> QED BY <3>2, <3>3, <3>4, <3>6, <3>8, <3>9
  <2> QED BY <1>1, <2>1, <2>2
<1> QED BY <1>2, <1>4, <1>5 DEF LsuInv, ResultIsOwn

\* The registers of the LSU and the histories keep their types.
LEMMA LsuTypes ==
    ASSUME MmioInd, AxiStep \/ UNCHANGED axi_vars
    PROVE  /\ mmio_req' \in Requests \cup {None}
           /\ mmio_wb' \in Data \cup {None}
           /\ {load_s1', recovery_pending', waiting'} \subseteq BOOLEAN
           /\ asks' \in 0 .. 2 /\ got' \in Responses
<1>1. CASE UNCHANGED axi_vars BY <1>1 DEF axi_vars, MmioInd, TypeOK
<1>2. CASE AxiStep
  <2>1. (ReqHeld \/ Launched) /\ (WbHeld \/ WbFilled) BY <1>2, LsuMoves
  <2>2. mmio_req' \in Requests \cup {None}
    BY <2>1 DEF ReqHeld, Launched, MmioInd, TypeOK
  <2>3. mmio_wb' \in Data \cup {None}
    BY <2>1, AnswerIs DEF WbHeld, WbFilled, MmioInd, TypeOK, Responses
  <2>4. got' \in Responses
    BY <1>2, AnswerIs DEF AxiStep, MmioInd, TypeOK
  <2>5. PICK fire \in Requests \cup {None}, dtcm \in BOOLEAN,
           kept \in Choices(recovery_pending),
           s1_kept \in Choices(recovery_pending /\ load_s1) :
             LsuStep(fire, dtcm, kept, s1_kept)
    BY <1>2 DEF AxiStep
  <2>6. asks' \in 0 .. 2 BY <2>5 DEF LsuStep, MmioInd, TypeOK
  <2>7. recovery_pending' \in BOOLEAN BY <2>5 DEF LsuStep
  <2>8. load_s1' \in BOOLEAN BY <2>5, Zenon DEF LsuStep, LsuRegisters
  <2>9. waiting' \in BOOLEAN
    <3>1. CASE fire # None
      <4>1. fire \in Requests BY <2>5, <3>1
      <4>2. waiting' = ~fire.write BY <2>5, <3>1 DEF LsuStep
      <4> QED BY <4>1, <4>2
    <3>2. CASE fire = None
      <4>1. waiting' = (waiting /\ ~Completes(s1_kept))
        BY <2>5, <3>2 DEF LsuStep
      <4> QED BY <4>1
    <3> QED BY <3>1, <3>2
  <2> QED BY <2>2, <2>3, <2>4, <2>6, <2>7, <2>8, <2>9
<1> QED BY <1>1, <1>2

\* The path starts at rest.
LEMMA MmioInitInd ==
    Init => MmioInd
<1> SUFFICES ASSUME Init PROVE MmioInd
  OBVIOUS
<1>1. NoReq \in Requests /\ NoRsp \in Responses
  BY MmioAssumption DEF NoReq, NoRsp, Requests, Responses
<1>2. TypeOK
  <2>1. {load_s1, recovery_pending, waiting} \subseteq BOOLEAN
    BY Zenon DEF Init
  <2>2. /\ mmio_req \in Requests \cup {None}
        /\ mmio_wb \in Data \cup {None}
        /\ rsp_sync \in {0, 1} \X {0, 1} /\ req_sync \in {0, 1} \X {0, 1}
        /\ asks \in 0 .. 2 /\ got \in Responses
    BY <1>1 DEF Init
  <2>3. master \in [state : {"idle", "write_addr_data", "write_resp",
                            "read_addr", "read_data"},
                   req : Requests, aw_done : BOOLEAN, w_done : BOOLEAN]
    BY <1>1 DEF Init
  <2>4. bridge \in [state : {"idle", "write_collect", "wait_response",
                            "write_response", "read_response"},
                   req : Requests, aw_have : BOOLEAN, w_have : BOOLEAN,
                   pending_write : BOOLEAN, req_toggle : {0, 1},
                   rsp_seen : {0, 1}, rsp : Responses]
    BY <1>1 DEF Init
  <2>5. apb \in [state : {"idle", "setup", "access"}, req : Requests,
                rsp : Responses, req_seen : {0, 1}, rsp_toggle : {0, 1}]
    BY <1>1 DEF Init
  <2>6. device \in [req : Requests, rsp : Responses]
    BY <1>1 DEF Init
  <2> QED BY <2>1, <2>2, <2>3, <2>4, <2>5, <2>6 DEF TypeOK
<1>3. ChainInv BY DEF Init, ChainInv
<1>4. PairInv BY DEF Init, PairInv
<1>5. CarryInv BY DEF Init, CarryInv, NoReq
<1>6. LsuInv BY DEF Init, LsuInv, ResultIsOwn
<1> QED BY <1>2, <1>3, <1>4, <1>5, <1>6 DEF MmioInd

\* Every step preserves the invariant.
LEMMA MmioNextInd ==
    MmioInd /\ [Next]_vars => MmioInd'
<1> SUFFICES ASSUME MmioInd, [Next]_vars PROVE MmioInd'
  OBVIOUS
<1>1. AxiHalf /\ ApbHalf BY Halves
<1>2. AxiStep \/ UNCHANGED axi_vars
  BY DEF Next, AxiEdge, ApbEdge, BothEdges, vars
<1>3. TypeOK' BY <1>1, <1>2, FieldTypes, LsuTypes DEF TypeOK
<1> QED BY <1>1, <1>2, <1>3, ChainStep, PairStep, CarryStep, LsuStepInv
        DEF MmioInd

(***************************************************************************)
(* The theorems.                                                           *)
(***************************************************************************)
\* The inductive invariant holds in every reachable state.
THEOREM MmioInductive == Spec => []MmioInd
BY MmioInitInd, MmioNextInd, PTL DEF Spec

\* The registers are well formed, and a buffered result is that of the
\* load's own access, whatever the clocks and the recoveries do
\* (ydrasil_load_store_unit.sv:1010-1021).
THEOREM MmioSafe == Spec => []MmioInv
<1>1. MmioInd => MmioInv BY DEF MmioInd, MmioInv, LsuInv
<1> QED BY <1>1, MmioInductive, PTL

\* A step reads a bus between the clocks only while its writer holds it.
LEMMA CrossingStep ==
    ASSUME MmioInd, [Next]_vars
    PROVE  /\ apb.state = "idle" /\ apb'.state # "idle"
                => bridge.state = "wait_response" /\ bridge'.req = bridge.req
           /\ bridge.state = "wait_response" /\ bridge'.state # "wait_response"
                => apb.state = "idle" /\ apb'.rsp = apb.rsp
<1>1. AxiHalf /\ ApbHalf BY Halves
<1>2. ASSUME apb.state = "idle", apb'.state # "idle"
      PROVE  bridge.state = "wait_response" /\ bridge'.req = bridge.req
  <2>1. req_sync[2] # apb.req_seen BY <1>1, <1>2, ApbToggles
  <2>2. bridge.state = "wait_response" /\ master.state \notin
          {"idle", "write_addr_data", "read_addr"}
    BY <2>1, UnderWay
  <2>3. bridge'.req = bridge.req
    BY <1>1, <2>2 DEF AxiHalf, AxiMove, Rests, TakesUp, SendsWrite, SendsRead,
                      Waits, Receives, Answers, MmioInd, TypeOK
  <2> QED BY <2>2, <2>3
<1>3. ASSUME bridge.state = "wait_response", bridge'.state # "wait_response"
      PROVE  apb.state = "idle" /\ apb'.rsp = apb.rsp
  <2>1. rsp_sync[2] # bridge.rsp_seen BY <1>1, <1>3, BridgeToggles
  <2>2. apb.state = "idle" BY <2>1 DEF MmioInd, ChainInv, TypeOK
  <2>3. apb'.rsp = apb.rsp
    BY <1>1, <2>2 DEF ApbHalf, ApbMove, Stays, Captures, SetsUp, Performs,
                      MmioInd, TypeOK
  <2> QED BY <2>2, <2>3
<1> QED BY <1>2, <1>3

\* The buses that cross between the clocks are read only while they are
\* still (ydrasil_axi_to_apb.sv:145-152, 180-193).
THEOREM MmioCrossing == Spec => CrossingStable
<1>1. MmioInd /\ [Next]_vars
        => [/\ apb.state = "idle" /\ apb'.state # "idle"
                 => bridge.state = "wait_response" /\ bridge'.req = bridge.req
            /\ bridge.state = "wait_response"
                  /\ bridge'.state # "wait_response"
                 => apb.state = "idle" /\ apb'.rsp = apb.rsp]_vars
  BY CrossingStep
<1> QED BY <1>1, MmioInductive, PTL DEF Spec, CrossingStable

(***************************************************************************)
(* The refinement.                                                         *)
(***************************************************************************)
\* Whether the request under way has been performed.
LEMMA PhaseIs ==
    ASSUME MmioInd
    PROVE  /\ master.state = "idle" => Phase = "idle"
           /\ bridge.state \in {"write_response", "read_response"}
                 => Phase = "performed"
           /\ apb.state # "idle" => Phase = "asked"
           /\ apb.rsp_toggle # bridge.rsp_seen => Phase = "performed"
           /\ /\ apb.rsp_toggle = bridge.rsp_seen /\ master.state # "idle"
              /\ bridge.state \notin {"write_response", "read_response"}
              => Phase = "asked"
<1>1. apb.rsp_toggle # bridge.rsp_seen => master.state # "idle"
  BY UnderWay
<1>2. bridge.state \in {"write_response", "read_response"}
        => master.state # "idle"
  BY DEF MmioInd, PairInv
<1>3. apb.state # "idle" => /\ apb.rsp_toggle = bridge.rsp_seen
                            /\ bridge.state = "wait_response"
                            /\ master.state # "idle"
  <2>1. apb.state # "idle" => apb.rsp_toggle = bridge.rsp_seen
    BY DEF MmioInd, ChainInv, TypeOK
  <2> QED BY <2>1, UnderWay
<1> QED BY <1>1, <1>2, <1>3 DEF Phase

\* Each step of the path is a step of the port or leaves it alone.
LEMMA PortStep ==
    ASSUME MmioInd, MmioInd', [Next]_vars
    PROVE  [Port!Next]_<<Phase, master.req, device, got>>
<1>1. AxiHalf /\ ApbHalf BY Halves
<1>2. \/ AxiStep
      \/ UNCHANGED axi_vars
  BY DEF Next, AxiEdge, ApbEdge, BothEdges, vars
<1>3. ~rsp_valid => got' = got BY <1>2 DEF AxiStep, axi_vars
<1>4. CASE \E d \in Responses : Performs(d)
  <2>1. PICK d \in Responses : Performs(d) BY <1>4
  <2>2. /\ apb.state # "idle" /\ device' = [req |-> apb.req, rsp |-> d]
        /\ apb'.rsp_toggle # apb.rsp_toggle
    BY <2>1 DEF Performs, Flip, MmioInd, TypeOK
  <2>3. apb.rsp_toggle = bridge.rsp_seen
    BY <2>2 DEF MmioInd, ChainInv, TypeOK
  <2>4. bridge.state = "wait_response" BY <2>2, UnderWay
  <2>5. rsp_sync[2] = bridge.rsp_seen
    BY <2>3 DEF MmioInd, ChainInv
  <2>6. master' = master /\ bridge' = bridge
    BY <1>1, <2>4, <2>5 DEF AxiHalf, AxiMove, Rests, TakesUp, SendsWrite,
       SendsRead, Waits, Receives, Answers, MmioInd, PairInv
  <2>7. Phase = "asked" BY <2>2, PhaseIs
  <2>8. Phase' = "performed"
    <3>1. apb'.rsp_toggle # bridge'.rsp_seen BY <2>2, <2>3, <2>6
    <3>2. master'.state # "idle" BY <2>2, <2>6, UnderWay
    <3> QED BY <3>1, <3>2 DEF Phase
  <2>9. got' = got BY <1>3, <2>4, AnswerOnlyThen
  <2>10. apb.req = master.req BY <2>2 DEF MmioInd, CarryInv
  <2>11. Port!Perform(d)
    BY <2>2, <2>6, <2>7, <2>8, <2>9, <2>10 DEF Port!Perform
  <2> QED BY <2>11 DEF Port!Next
<1>5. CASE ~ \E d \in Responses : Performs(d)
  <2>1. device' = device /\ apb'.rsp_toggle = apb.rsp_toggle
    BY <1>1, <1>5 DEF ApbHalf, ApbMove, Stays, Captures, SetsUp,
                      MmioInd, TypeOK
  <2>2. CASE TakesUp
    <3>1. bridge.state = "idle" /\ bridge' = bridge
      BY <2>2 DEF TakesUp, MmioInd, PairInv
    <3>2. got' = got BY <1>3, <3>1, AnswerOnlyThen
    <3>3. /\ master.state = "idle" /\ master'.req = mmio_req
          /\ master'.state # "idle" /\ mmio_req \in Requests
      BY <2>2 DEF TakesUp, MmioInd, TypeOK
    <3>4. apb.rsp_toggle = bridge.rsp_seen BY <3>1, UnderWay
    <3>5. Phase = "idle" BY <3>3, PhaseIs
    <3>6. Phase' = "asked"
      BY <2>1, <3>1, <3>3, <3>4 DEF Phase
    <3>7. Port!Ask(mmio_req)
      BY <2>1, <3>2, <3>3, <3>5, <3>6 DEF Port!Ask
    <3> QED BY <3>3, <3>7 DEF Port!Next
  <2>3. CASE Answers
    <3>1. /\ bridge.state \in {"write_response", "read_response"}
          /\ master'.state = "idle" /\ master'.req = master.req
          /\ master'.state # master.state
      BY <2>3 DEF Answers, MmioInd, TypeOK, PairInv
    <3>2. rsp_valid BY <3>1, AnswerOnlyThen
    <3>3. AxiStep BY <1>2, <3>1 DEF axi_vars
    <3>4. got' = Forward(master.req, device.rsp)
      BY <3>2, <3>3, AnswerIs DEF AxiStep
    <3>5. Phase = "performed" BY <3>1, PhaseIs
    <3>6. Phase' = "idle" BY <3>1 DEF Phase
    <3>7. Port!Answer
      BY <2>1, <3>1, <3>4, <3>5, <3>6 DEF Port!Answer
    <3> QED BY <3>7 DEF Port!Next
  <2>4. CASE ~TakesUp /\ ~Answers
    <3>1. master'.req = master.req BY <1>1, <2>4, RequestHeld
    <3>2. got' = got
      <4>1. CASE UNCHANGED axi_vars BY <4>1 DEF axi_vars
      <4>2. CASE AxiStep
        <5>1. AxiMove BY <4>2, AxiMoves DEF AxiStep
        <5>2. bridge.state \notin {"write_response", "read_response"}
          BY <2>4, <5>1 DEF AxiMove, Rests, SendsWrite, SendsRead, Waits,
                            Receives, MmioInd, PairInv
        <5> QED BY <1>3, <5>2, AnswerOnlyThen
      <4> QED BY <1>2, <4>1, <4>2
    <3>3. Phase' = Phase
      <4>1. CASE Rests
        BY <4>1 DEF Rests, Phase, MmioInd, TypeOK
      <4>2. CASE SendsWrite \/ SendsRead
        <5>1. /\ bridge'.state = "wait_response" /\ master'.state # "idle"
              /\ master.state # "idle" /\ bridge.state = "idle"
              /\ bridge'.rsp_seen = bridge.rsp_seen
          <6>1. CASE SendsWrite
            BY <6>1 DEF SendsWrite, MmioInd, TypeOK, PairInv
          <6>2. CASE SendsRead
            BY <6>2 DEF SendsRead, MmioInd, TypeOK, PairInv
          <6> QED BY <4>2, <6>1, <6>2
        <5> QED BY <2>1, <5>1 DEF Phase
      <4>3. CASE Receives
        <5>1. /\ rsp_sync[2] # bridge.rsp_seen /\ master' = master
              /\ bridge'.state \in {"write_response", "read_response"}
          BY <4>3 DEF Receives, MmioInd, TypeOK
        <5>2. apb.rsp_toggle # bridge.rsp_seen
          BY <5>1 DEF MmioInd, ChainInv
        <5> QED BY <5>1, <5>2 DEF Phase
      <4>4. CASE master' = master /\ bridge' = bridge
        BY <2>1, <4>4 DEF Phase
      <4> QED BY <1>1, <2>4, <4>1, <4>2, <4>3, <4>4 DEF AxiHalf, AxiMove, Waits
    <3> QED BY <2>1, <3>1, <3>2, <3>3
  <2> QED BY <2>2, <2>3, <2>4
<1> QED BY <1>4, <1>5

\* The bus keeps the promise of YdrasilPort: whatever the two clocks do, each
\* request the master takes is performed once, as asked, and answered with
\* the response of that access (ydrasil_axi_to_apb.sv).
THEOREM MmioIsPort == Spec => ImplementsPort
<1>1. Init => Port!Init
  <2> SUFFICES ASSUME Init PROVE Port!Init
    OBVIOUS
  <2>1. NoReq \in Requests /\ NoRsp \in Responses
    BY MmioAssumption DEF NoReq, NoRsp, Requests, Responses
  <2> QED BY <2>1 DEF Init, Port!Init, Phase
<1>2. MmioInd /\ MmioInd' /\ [Next]_vars
        => [Port!Next]_<<Phase, master.req, device, got>>
  BY PortStep
<1> QED BY <1>1, <1>2, MmioInductive, PTL DEF Spec, ImplementsPort, Port!Spec
=============================================================================
