---------------------------- MODULE MCOperations ----------------------------
(* Operations on small instances: two clients of one instrument.  On an       *)
(* SDS1202X two operations meet, some of many asks; on the other models three *)
(* that read, write, or look before they act.                                 *)
EXTENDS Operations

Op(name, ch, to) == [name |-> name, ch |-> ch, to |-> to]
Ops(names, ch, to) == {Op(n, ch, to) : n \in names}

MCRequests == [
    SDS |-> Ops({"wait", "arm_single", "01_uart_decode", "02_oscillator_compare",
                 "oscillator_resonance"}, 0, "none")
            \cup {Op("transfer_waveform", 1, "none"),
                  Op("get_trace_display_enabled", 3, "none"),
                  Op("set_voltage_div", 1, "new"), Op("set_trigger_mode", 0, "AUTO")},
    SDG |-> Ops({"get_full_state", "opc"}, 0, "none")
            \cup {Op("set_output", 1, "ON"), Op("set_output", 1, "OFF"),
                  Op("set_output", 2, "ON"), Op("set_basic_wavetype", 2, "new")},
    SPD |-> Ops({"get_channel_state", "enable_output", "disable_output"}, 1, "none")
            \cup {Op("set_operating_channel", 2, "none"), Op("set_voltage", 1, "new")} ]

MCMaxOps == [SDS |-> 2, SDG |-> 3, SPD |-> 3]

=============================================================================
