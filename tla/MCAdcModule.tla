---------------------------- MODULE MCAdcModule ----------------------------
(* AdcModule for TLC: values for the constants of its configurations. *)
EXTENDS AdcModule

AllFailures == {"ioremap", "adc", "rt_request_irq", "rtf_create"}
NoFailures  == {}
=============================================================================
