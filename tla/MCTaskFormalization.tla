------------------------ MODULE MCTaskFormalization ------------------------
(* Requests that reach every branch of the parser and of the compilers. *)
EXTENDS TaskFormalization

Plain == [families |-> {"two_stage_ota"}, words |-> {"ota"}, node |-> TRUE, supply |-> TRUE,
          load |-> TRUE, across |-> FALSE, temps |-> 1, corners |-> 1, hints |-> {},
          statements |-> <<>>]

Min2(m) == <<m, "min", 2>>
MCTexts == {
    \* bounds that are repeated, contradict each other, are negative, or come with a target
    [Plain EXCEPT !.statements = <<Min2("gbw_hz"), <<"gbw_hz", "min", 1>>, <<"power_w", "max", 3>>>>],
    [Plain EXCEPT !.statements = <<Min2("gbw_hz"), <<"gbw_hz", "max", 1>>>>],
    [Plain EXCEPT !.statements = <<<<"power_w", "max", -1>>, Min2("gbw_hz")>>],
    [Plain EXCEPT !.statements = <<<<"gbw_hz", "target", 2>>, <<"gbw_hz", "max", 3>>>>],
    [Plain EXCEPT !.statements = <<<<"gbw_hz", "target", 2>>, <<"power_w", "max", 3>>,
                                   <<"gbw_hz", "target", 1>>>>],
    [Plain EXCEPT !.statements = <<<<"output_swing_v", "min", -1>>, <<"slew_rate_v_per_us", "min", 1>>,
                                   Min2("phase_margin_deg"), Min2("dc_gain_db")>>, !.corners = 2],
    \* wishes, also against a bound
    [Plain EXCEPT !.hints = {"power_w"}, !.statements = <<<<"power_w", "min", 1>>>>],
    [Plain EXCEPT !.hints = {"gbw_hz", "noise_nv_per_sqrt_hz"}, !.supply = FALSE],
    \* several conditions
    [Plain EXCEPT !.families = {"bandgap"}, !.load = FALSE, !.temps = 3, !.corners = 3,
                  !.statements = <<<<"power_w", "max", 2>>>>],
    [Plain EXCEPT !.families = {"two_stage_ota", "ldo"}, !.across = TRUE, !.temps = 0,
                  !.statements = <<Min2("input_referred_noise_nv_per_sqrt_hz"), Min2("dc_gain_db")>>],
    \* no family, or only a generic one
    [Plain EXCEPT !.families = {}, !.statements = <<Min2("gbw_hz")>>],
    [Plain EXCEPT !.families = {}, !.words = {"amplifier"}, !.hints = {"power_w"}, !.node = FALSE],
    [Plain EXCEPT !.families = {}, !.words = {}, !.load = FALSE, !.statements = <<<<"power_w", "target", 1>>>>],
    [Plain EXCEPT !.families = {}, !.words = {}]}
=============================================================================
