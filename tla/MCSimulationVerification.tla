---------------------- MODULE MCSimulationVerification ----------------------
(* Two circuits.  The two-stage OTA has the analyses and contracts of         *)
(* templates/testbench/ota2 for its canonical fidelities and three            *)
(* constraints, one of which a quick plan cannot measure.  Of a comparator    *)
(* only the power is bounded: nothing in its task asks for the ac analysis,   *)
(* but the sweeps of the full robustness plan require the bandwidth and the   *)
(* phase margin, which are read from it, so that the contract holds metrics   *)
(* that no planned analysis yields.                                           *)
EXTENDS SimulationVerification

MCPlan(k, f) ==
    IF k = "two_stage_ota"
    THEN CASE f = "quick_truth"   -> <<"op", "ac">>
           [] f = "focused_truth" -> <<"op", "ac", "tran">>
           [] f = "targeted_failure_analysis" -> <<"op", "ac", "tran", "noise">>
           [] OTHER -> <<"op", "ac", "tran", "pvt_sweep">>
    ELSE CASE f = "quick_truth"   -> <<"op">>
           [] f = "focused_truth" -> <<"op", "tran">>
           [] f = "targeted_failure_analysis" -> <<"op", "noise">>
           [] OTHER -> <<"op", "pvt_sweep", "temperature_sweep", "load_sweep", "monte_carlo">>

MCContract(k, f) ==
    IF k = "two_stage_ota"
    THEN CASE f = "quick_truth" -> {"gbw_hz", "power_w"}
           [] f = "targeted_failure_analysis" ->
                {"gbw_hz", "power_w", "slew_rate_v_per_us", "noise_nv_per_sqrt_hz"}
           [] OTHER -> {"gbw_hz", "power_w", "slew_rate_v_per_us"}
    ELSE CASE f = "quick_truth" -> {"power_w"}
           [] f = "focused_truth" -> {"power_w", "slew_rate_v_per_us"}
           [] f = "targeted_failure_analysis" -> {"power_w", "noise_nv_per_sqrt_hz"}
           [] OTHER -> {"power_w", "gbw_hz", "phase_margin_deg", "offset_mv",
                        "temperature_coefficient_ppm_per_c", "load_regulation_mv_per_ma"}

MCSource(m) ==
    CASE m \in {"gbw_hz", "phase_margin_deg"} -> "ac"
      [] m \in {"power_w", "temperature_coefficient_ppm_per_c"} -> "op"
      [] m = "slew_rate_v_per_us" -> "tran"
      [] OTHER -> "none"

MCConstraints(k) ==
    IF k = "two_stage_ota" THEN {"gbw_min", "power_max", "slew_min"} ELSE {"power_max"}

MCMetricOf(c) ==
    CASE c = "gbw_min" -> "gbw_hz"
      [] c = "power_max" -> "power_w"
      [] OTHER -> "slew_rate_v_per_us"
=============================================================================
