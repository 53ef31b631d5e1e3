------------------------------- MODULE Status -------------------------------
(***************************************************************************)
(* include/status.h: the vocabulary shared by the kernel module, the RTU   *)
(* program and the historian.                                              *)
(***************************************************************************)
EXTENDS Naturals, Sequences

CONSTANT NUM_BUTTONS       \* push buttons on port B, bits 0 .. NUM_BUTTONS-1

ASSUME NumButtonsAssumption == NUM_BUTTONS \in Nat \ {0}

Button == 0 .. NUM_BUTTONS - 1

\* A pin level, and also the direction of the edge that leads to it.
Level   == {0, 1}
FALLING == 0
RISING  == 1

\* enum rtu_event interleaves the edges of the buttons:
\* BTN0_FALLING = 0, BTN0_RISING = 1, BTN1_FALLING = 2, ...
BtnEvent(b, dir) == 2 * b + dir
Event == {BtnEvent(b, dir) : b \in Button, dir \in Level}

\* What the kernel module fills in of a status_t.  line_voltage is the
\* constant 555 there and the time stamp is the instant of the put; rtu_id and
\* led_status are left as they are on the stack and nobody reads them.
Record == [button_status : [Button -> Level], event_type : Event]

\* The events of a sequence of records.
Types(s) == [i \in 1..Len(s) |-> s[i].event_type]
=============================================================================
