---------------------------- MODULE YdrasilMmio ----------------------------
(***************************************************************************)
(* An MMIO access from the load/store unit to a peripheral and back: the   *)
(* transaction registers of ydrasil_load_store_unit.sv, the state machine  *)
(* of ydrasil_axi_lite_master.sv, both halves of ydrasil_axi_to_apb.sv and *)
(* the synchronisers of ydrasil_cdc_sync.sv between them.                  *)
(*                                                                         *)
(* Two clocks run independently: a step is an edge of the CPU clock, of    *)
(* the APB clock, or of both at once.  The first flop of a synchroniser    *)
(* catches a change or misses it according to which edge comes first.      *)
(* Address, strobes and protection are one field, addr; the data of a      *)
(* response is data and its error bit err.                                 *)
(***************************************************************************)
EXTENDS Integers

CONSTANTS
    Addrs, Data,    \* addresses and data words; the word 0 is among the data
    None

ASSUME MmioAssumption ==
    0 \in Addrs /\ 0 \in Data /\ None \notin Data

Requests == [write : BOOLEAN, addr : Addrs, data : Data]
Responses == [data : Data, err : BOOLEAN]
NoReq == [write |-> FALSE, addr |-> 0, data |-> 0]
NoRsp == [data |-> 0, err |-> FALSE]

VARIABLES
    mmio_req,       \* LSU: the request it holds, or None
    mmio_wb,        \* LSU: the load result waiting for the completion bus
    load_s1,        \* LSU: a DTCM load is in S1
    recovery_pending,
    master,         \* AXI-lite master
    bridge,         \* AXI half of the bridge
    rsp_sync,       \* synchroniser into the CPU clock: first and second flop
    apb,            \* APB half of the bridge
    req_sync        \* synchroniser into the APB clock

VARIABLES           \* history
    asks,           \* how often the master took the LSU's present request
    waiting,        \* a load was launched and has not completed
    got,            \* the last answer of the master
    device          \* the last access on the APB: request and response

axi_vars == <<mmio_req, mmio_wb, load_s1, recovery_pending, master, bridge,
              rsp_sync, asks, waiting, got>>
apb_vars == <<apb, req_sync, device>>
vars == <<axi_vars, apb_vars>>

Flip(t) == 1 - t

(***************************************************************************)
(* AXI channels between master and bridge.                                 *)
(***************************************************************************)
awvalid == master.state = "write_addr_data" /\ ~master.aw_done
wvalid == master.state = "write_addr_data" /\ ~master.w_done
write_collect == bridge.state \in {"idle", "write_collect"}
aw_fire == awvalid /\ write_collect /\ ~bridge.aw_have
w_fire == wvalid /\ write_collect /\ ~bridge.w_have
ar_fire == /\ master.state = "read_addr"
           /\ bridge.state = "idle" /\ ~awvalid /\ ~wvalid
b_fire == bridge.state = "write_response" /\ master.state = "write_resp"
r_fire == bridge.state = "read_response" /\ master.state = "read_data"

rsp_valid == b_fire \/ r_fire
\* A write is answered with its error bit only.
Forward(req, rsp) == IF req.write THEN [rsp EXCEPT !.data = 0] ELSE rsp
Answer == IF b_fire THEN [NoRsp EXCEPT !.err = bridge.rsp.err] ELSE bridge.rsp

MasterStep ==
    master' =
      CASE master.state = "idle" /\ mmio_req = None ->
              [master EXCEPT !.aw_done = FALSE, !.w_done = FALSE]
        [] master.state = "idle" /\ mmio_req # None ->
              [state |-> IF mmio_req.write THEN "write_addr_data"
                         ELSE "read_addr",
               req |-> mmio_req, aw_done |-> FALSE, w_done |-> FALSE]
        [] master.state = "write_addr_data" ->
              [master EXCEPT
                 !.aw_done = @ \/ aw_fire, !.w_done = @ \/ w_fire,
                 !.state = IF /\ master.aw_done \/ aw_fire
                              /\ master.w_done \/ w_fire
                           THEN "write_resp" ELSE @]
        [] master.state = "read_addr" ->
              [master EXCEPT !.state = IF ar_fire THEN "read_data" ELSE @]
        [] master.state \in {"write_resp", "read_data"} ->
              [master EXCEPT !.state = IF rsp_valid THEN "idle" ELSE @]

(***************************************************************************)
(* The AXI half of the bridge.                                             *)
(***************************************************************************)
HaveAw == bridge.aw_have \/ aw_fire
HaveW == bridge.w_have \/ w_fire
Collect ==
    LET taken == [bridge.req EXCEPT
                    !.addr = IF aw_fire THEN master.req.addr ELSE @,
                    !.data = IF w_fire THEN master.req.data ELSE @]
    IN  IF HaveAw /\ HaveW THEN
           [bridge EXCEPT !.req = [taken EXCEPT !.write = TRUE],
              !.pending_write = TRUE, !.req_toggle = Flip(@),
              !.aw_have = FALSE, !.w_have = FALSE,
              !.state = "wait_response"]
        ELSE IF HaveAw \/ HaveW THEN
           [bridge EXCEPT !.req = taken, !.aw_have = HaveAw,
              !.w_have = HaveW, !.state = "write_collect"]
        ELSE IF ar_fire THEN
           [bridge EXCEPT
              !.req = [write |-> FALSE, addr |-> master.req.addr, data |-> 0],
              !.pending_write = FALSE, !.req_toggle = Flip(@),
              !.state = "wait_response"]
        ELSE bridge
\* Slip: the bridge forgets which response it has seen.
AwaitForgets ==
    IF rsp_sync[2] = bridge.rsp_seen THEN bridge
    ELSE [bridge EXCEPT
            !.rsp = apb.rsp,
            !.state = IF bridge.pending_write THEN "write_response"
                      ELSE "read_response"]
Await ==
    IF rsp_sync[2] = bridge.rsp_seen THEN bridge
    ELSE [bridge EXCEPT
            !.rsp_seen = rsp_sync[2], !.rsp = apb.rsp,
            !.state = IF bridge.pending_write THEN "write_response"
                      ELSE "read_response"]
BridgeStep ==
    /\ bridge' =
         CASE write_collect -> Collect
           [] bridge.state = "wait_response" -> Await
           [] bridge.state \in {"write_response", "read_response"} ->
                 IF rsp_valid
                 THEN [bridge EXCEPT !.rsp.err = FALSE, !.state = "idle"]
                 ELSE bridge
    /\ rsp_sync' = <<apb.rsp_toggle, rsp_sync[1]>>

(***************************************************************************)
(* The APB half.  A peripheral may insert wait states: pready is a choice. *)
(***************************************************************************)
\* Slip: the request is taken by its level, not by its change.
ReqArrivedByLevel == req_sync[2] = 1
ReqArrived == req_sync[2] # apb.req_seen
\* Slip: the response toggle leaves before the response.
ApbFsmEarly(pready, d) ==
    CASE apb.state = "idle" ->
            IF ReqArrived
            THEN [apb EXCEPT !.req_seen = req_sync[2], !.req = bridge.req,
                             !.state = "setup"]
            ELSE apb
      [] apb.state = "setup" -> [apb EXCEPT !.state = "access",
                                            !.rsp_toggle = Flip(@)]
      [] apb.state = "access" ->
            IF pready THEN [apb EXCEPT !.rsp = d, !.state = "idle"] ELSE apb
ApbFsm(pready, d) ==
    CASE apb.state = "idle" ->
            IF ReqArrived
            THEN [apb EXCEPT !.req_seen = req_sync[2], !.req = bridge.req,
                             !.state = "setup"]
            ELSE apb
      [] apb.state = "setup" -> [apb EXCEPT !.state = "access"]
      [] apb.state = "access" ->
            IF pready THEN [apb EXCEPT !.rsp = d, !.rsp_toggle = Flip(@),
                                       !.state = "idle"]
            ELSE apb
ApbStep(pready) ==
    \E d \in IF apb.state = "access" /\ pready THEN Responses ELSE {NoRsp} :
        /\ apb' = ApbFsm(pready, d)
        /\ req_sync' = <<bridge.req_toggle, req_sync[1]>>
        /\ device' = IF apb.state = "access" /\ pready
                     THEN [req |-> apb.req, rsp |-> d] ELSE device

(***************************************************************************)
(* The LSU's transaction registers.  fire is the access it launches, dtcm  *)
(* says a DTCM load is launched; in the cycle after a branch redirected,   *)
(* kept and s1_kept say whether the request and the load in S1 lie in the  *)
(* surviving window.                                                       *)
(***************************************************************************)
mmio_busy == mmio_req # None \/ mmio_wb # None
mmio_fire(fire) == /\ ~recovery_pending /\ ~mmio_busy
                   /\ master.state = "idle"
                   /\ ~waiting      \* it is at the ROB head, or retired
                   /\ fire \in Requests
                   /\ ~fire.write => fire.data = 0
dtcm_wb_valid(s1_kept) == load_s1 /\ (~recovery_pending \/ s1_kept)
Completes(s1_kept) == mmio_wb # None /\ ~dtcm_wb_valid(s1_kept)
\* Slip: the response to a store is buffered like that to a load.
LsuRegistersStoreResult(fire, dtcm, kept) ==
    IF recovery_pending THEN
        /\ mmio_req' = IF kept THEN mmio_req ELSE None
        /\ mmio_wb' = None /\ load_s1' = FALSE
    ELSE
        /\ mmio_req' = IF fire # None THEN fire
                       ELSE IF rsp_valid THEN None ELSE mmio_req
        /\ mmio_wb' = IF mmio_req # None /\ rsp_valid THEN Answer.data
                      ELSE IF load_s1 THEN mmio_wb ELSE None
        /\ load_s1' = dtcm
LsuRegisters(fire, dtcm, kept) ==
    IF recovery_pending THEN
        /\ mmio_req' = IF kept THEN mmio_req ELSE None
        /\ mmio_wb' = None /\ load_s1' = FALSE
    ELSE
        /\ mmio_req' = IF fire # None THEN fire
                       ELSE IF rsp_valid THEN None ELSE mmio_req
        /\ mmio_wb' = IF /\ mmio_req # None /\ rsp_valid
                         /\ ~mmio_req.write
                      THEN Answer.data
                      ELSE IF load_s1 THEN mmio_wb ELSE None
        /\ load_s1' = dtcm
Takes == master.state = "idle" /\ mmio_req # None
LsuStep(fire, dtcm, kept, s1_kept) ==
    /\ fire # None => mmio_fire(fire)
    /\ dtcm => mmio_wb = None           \* load_issue_hold
    /\ recovery_pending /\ waiting => kept  \* a load is at the ROB head
    /\ LsuRegisters(fire, dtcm, kept)
    /\ recovery_pending' \in BOOLEAN    \* branch_recovery_i
    /\ asks' = IF fire # None THEN 0
               ELSE IF Takes /\ asks < 2 THEN asks + 1 ELSE asks
    /\ waiting' = IF fire # None THEN ~fire.write
                  ELSE waiting /\ ~Completes(s1_kept)
Choices(b) == IF b THEN BOOLEAN ELSE {FALSE}
AxiStep ==
    /\ \E fire \in Requests \cup {None}, dtcm \in BOOLEAN,
          kept \in Choices(recovery_pending),
          s1_kept \in Choices(recovery_pending /\ load_s1) :
             LsuStep(fire, dtcm, kept, s1_kept)
    /\ MasterStep
    /\ BridgeStep
    /\ got' = IF rsp_valid THEN Answer ELSE got

Init ==
    /\ mmio_req = None /\ mmio_wb = None /\ load_s1 = FALSE
    /\ recovery_pending = FALSE
    /\ master = [state |-> "idle", req |-> NoReq,
                 aw_done |-> FALSE, w_done |-> FALSE]
    /\ bridge = [state |-> "idle", req |-> NoReq, aw_have |-> FALSE,
                 w_have |-> FALSE, pending_write |-> FALSE,
                 req_toggle |-> 0, rsp_seen |-> 0, rsp |-> NoRsp]
    /\ apb = [state |-> "idle", req |-> NoReq, rsp |-> NoRsp,
              req_seen |-> 0, rsp_toggle |-> 0]
    /\ rsp_sync = <<0, 0>> /\ req_sync = <<0, 0>>
    /\ asks = 0 /\ waiting = FALSE
    /\ got = NoRsp /\ device = [req |-> NoReq, rsp |-> NoRsp]

AxiEdge == AxiStep /\ UNCHANGED apb_vars
ApbEdge == (\E pready \in BOOLEAN : ApbStep(pready)) /\ UNCHANGED axi_vars
BothEdges == AxiStep /\ \E pready \in BOOLEAN : ApbStep(pready)

Next == AxiEdge \/ ApbEdge \/ BothEdges
Spec == Init /\ [][Next]_vars
-----------------------------------------------------------------------------
\* The registers keep their shape.
TypeOK ==
    /\ mmio_req \in Requests \cup {None} /\ mmio_wb \in Data \cup {None}
    /\ {load_s1, recovery_pending, waiting} \subseteq BOOLEAN
    /\ master \in [state : {"idle", "write_addr_data", "write_resp",
                            "read_addr", "read_data"},
                   req : Requests, aw_done : BOOLEAN, w_done : BOOLEAN]
    /\ bridge \in [state : {"idle", "write_collect", "wait_response",
                            "write_response", "read_response"},
                   req : Requests, aw_have : BOOLEAN, w_have : BOOLEAN,
                   pending_write : BOOLEAN, req_toggle : {0, 1},
                   rsp_seen : {0, 1}, rsp : Responses]
    /\ apb \in [state : {"idle", "setup", "access"}, req : Requests,
                rsp : Responses, req_seen : {0, 1}, rsp_toggle : {0, 1}]
    /\ rsp_sync \in {0, 1} \X {0, 1} /\ req_sync \in {0, 1} \X {0, 1}
    /\ asks \in 0 .. 2 /\ got \in Responses
    /\ device \in [req : Requests, rsp : Responses]

\* The buses that cross between the clocks are read only while their writer
\* holds them still: the request is captured while the bridge waits for the
\* response, and the response while the APB half is idle
\* (ydrasil_axi_to_apb.sv:145-152, 180-193).
CrossingStable ==
    [][/\ apb.state = "idle" /\ apb'.state # "idle"
             => bridge.state = "wait_response" /\ bridge'.req = bridge.req
       /\ bridge.state = "wait_response" /\ bridge'.state # "wait_response"
             => apb.state = "idle" /\ apb'.rsp = apb.rsp]_vars

\* The bus keeps the promise of YdrasilPort whatever the two clocks do: one
\* access on the APB for each request the master takes, with its address and
\* data, and the answer that access gave.
Phase == IF master.state = "idle" THEN "idle"
         ELSE IF \/ bridge.state \in {"write_response", "read_response"}
                 \/ apb.rsp_toggle # bridge.rsp_seen
         THEN "performed" ELSE "asked"
Port == INSTANCE YdrasilPort WITH phase <- Phase, asked <- master.req
ImplementsPort == Port!Spec

\* The result a load holds for the completion bus is that of its own access:
\* nothing else is asked of the device before it has left
\* (ydrasil_load_store_unit.sv:312, 412-414, 1010-1021).
ResultIsOwn ==
    mmio_wb # None => /\ master.state = "idle" /\ ~master.req.write
                      /\ device.req = master.req
                      /\ mmio_wb = device.rsp.data

\* MMIO responses are buffered and follow the DTCM's, as
\* ydrasil_load_store_unit.sv:328-330 says: a load that has not completed is
\* still asked for or has its result buffered, and is asked for once.
LoadAnsweredOnce ==
    waiting => /\ mmio_req # None \/ mmio_wb # None
               /\ asks <= 1

(***************************************************************************)
(* Liveness.  Both clocks run and a peripheral ends its wait states.       *)
(***************************************************************************)
FairSpec ==
    /\ Spec
    /\ WF_vars(AxiStep /\ (UNCHANGED apb_vars \/ \E p \in BOOLEAN : ApbStep(p)))
    /\ WF_vars(ApbStep(TRUE) /\ (UNCHANGED axi_vars \/ AxiStep))
\* Every request the master takes is answered: no toggle is missed
\* (ydrasil_axi_to_apb.sv:145-194).
Answered == master.state # "idle" ~> master.state = "idle"

\* The path as a whole: well-formed registers, and a buffered result that
\* belongs to the load that waits for it.
MmioInv == TypeOK /\ ResultIsOwn
=============================================================================
