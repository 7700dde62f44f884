---------------------------- MODULE MCInterrupts ----------------------------
(* Three threads whose code has an instruction of every kind.              *)
EXTENDS Interrupts

MCThread == {"a", "b"}
MCCode == [main |-> <<"svc_yield", "plain", "undefined_instruction", "plain">>,
           a    |-> <<"plain", "data_abort", "svc_yield", "svc_terminate">>,
           b    |-> <<"svc_other", "prefetch_abort", "svc_terminate">>]
=============================================================================
