------------------------------- MODULE MCCtrl -------------------------------
(* Instances of YdrasilCtrl for TLC. *)
EXTENDS YdrasilCtrl, TLC

CONSTANTS r1, r2

U(kind, rd) == [kind |-> kind, rd |-> rd]

\* Every kind of uop, writing a register or not.
AllUops == {U("alu", r1), U("brmis", NoReg), U("br", r2), U("div", r1),
            U("csr", NoReg), U("sys", NoReg), U("fence", NoReg)}
\* The divider's late results.
DivUops == {U("div", r1), U("brmis", NoReg), U("alu", r1)}
\* Everything that can hold dispatch.
LiveUops == {U("div", r1), U("brmis", NoReg), U("csr", NoReg),
             U("sys", NoReg), U("fence", NoReg)}
=============================================================================
