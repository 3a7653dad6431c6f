------------------------- MODULE ParameterCatalogue -------------------------
(***************************************************************************)
(* The settable parameters (src/pysolarcloud/parameters.py), the codes     *)
(* that a read without a list asks for and the encoding of a value         *)
(* (src/pysolarcloud/control.py).                                          *)
(*                                                                         *)
(* Numbers are integers, in halves of the smallest step of a parameter,    *)
(* which is a thousandth of the display unit: every step has a half.       *)
(* Infinities, NaN and texts are values of their own.  The rounding of     *)
(* binary floats is not modelled.                                          *)
(***************************************************************************)
EXTENDS Integers, Replies

Unit == 2000

\* Numbers, as float() gives them: finite ones, "inf", "-inf" and "nan".
Num(n) == [kind |-> "number", n |-> n]
Special(k) == [kind |-> k]

\* The numeric kinds differ in their documentation only.
Number(code, scale, minimum, maximum) ==
    [code |-> code, kind |-> "number", scale |-> scale, minimum |-> minimum, maximum |-> maximum]
Enum(code, options) == [code |-> code, kind |-> "enum", options |-> options]

Switch == [enable |-> "170", disable |-> "85"]

PARAMETERS == [
    soc_upper_limit |-> Number("10001", 10, 70 * Unit, 100 * Unit),
    soc_lower_limit |-> Number("10002", 10, 0, 50 * Unit),
    energy_management_mode |->
        Enum("10003", [self_consumption |-> "0", compulsory |-> "2", external_dispatch |-> "3", vpp |-> "4"]),
    charge_discharge_command |-> Enum("10004", [charge |-> "170", discharge |-> "187", stop |-> "204"]),
    charge_discharge_power |-> Number("10005", 1, 0, 5000 * Unit),
    limited_power_switch |-> Enum("10007", Switch),
    active_power_limit_ratio |-> Number("10008", 10, 0, 100 * Unit),
    feed_in_limitation |-> Enum("10012", Switch),
    feed_in_limitation_value |-> Number("10013", 1, 0, None),
    feed_in_limitation_ratio |-> Number("10014", 10, 0, 100 * Unit),
    external_ems_heartbeat |-> Number("10017", 1, Unit, 1000 * Unit),
    battery_first |-> Enum("10024", Switch),
    reactive_power_regulation_mode |->
        Enum("10009", [off |-> "85", pf |-> "161", q_t |-> "162", q_p |-> "163", q_u |-> "164"]),
    q_t |-> Number("10010", 10, -60 * Unit, 60 * Unit),
    reactive_response |-> Enum("10034", Switch),
    reactive_power_regulation_time |-> Number("10035", 10, Unit \div 10, 600 * Unit),
    pf |-> Number("10036", 1000, -Unit, Unit),
    forced_charging |-> Enum("10065", Switch),
    forced_charging_target_soc_1 |-> Number("10071", 1, 0, 100 * Unit),
    forced_charging_target_soc_2 |-> Number("10076", 1, 0, 100 * Unit)]

ASSUME NoneIsNoNumber ==
    /\ None \notin {"ValueError", "OverflowError"}
    /\ \A p \in DOMAIN PARAMETERS : PARAMETERS[p].kind = "number" =>
         None \notin {Num(PARAMETERS[p].minimum), Num(PARAMETERS[p].maximum)}

\* Control.config_parameters, from names to codes: what _param_code_map makes of
\* it.  Its last step, codes of PARAMETERS for names not listed here, adds none.
ParamCodeMap == [
    soc_upper_limit |-> "10001", soc_lower_limit |-> "10002", charge_discharge_command |-> "10004",
    charge_discharge_power |-> "10005", limited_power_switch |-> "10007",
    active_power_limit_ratio |-> "10008", reactive_power_regulation_mode |-> "10009", q_t |-> "10010",
    power_on |-> "10011", feed_in_limitation |-> "10012", feed_in_limitation_value |-> "10013",
    feed_in_limitation_ratio |-> "10014", external_ems_heartbeat |-> "10017", battery_first |-> "10024",
    active_power_soft_start_after_fault |-> "10025",
    active_power_soft_start_time_after_fault |-> "10026", active_power_soft_start |-> "10027",
    active_power_soft_start_gradient |-> "10028", active_power_gradient_control |-> "10029",
    active_power_decline_gradient |-> "10030", active_power_rising_gradient |-> "10031",
    active_power_setting_persistence |-> "10032", shutdown_when_active_power_limit_to_0 |-> "10033",
    reactive_response |-> "10034", reactive_power_regulation_time |-> "10035", pf |-> "10036",
    forced_charging |-> "10065", forced_charging_valid_time |-> "10066",
    forced_charging_start_time_1_hour |-> "10067", forced_charging_start_time_1_minute |-> "10068",
    forced_charging_end_time_1_hour |-> "10069", forced_charging_end_time_1_minute |-> "10070",
    forced_charging_target_soc_1 |-> "10071", forced_charging_start_time_2_hour |-> "10072",
    forced_charging_start_time_2_minute |-> "10073", forced_charging_end_time_2_hour |-> "10074",
    forced_charging_end_time_2_minute |-> "10075", forced_charging_target_soc_2 |-> "10076",
    energy_management_mode |-> "10003"]

\* A name, or a code as it is.
CodeOf(p) == IF p \in DOMAIN ParamCodeMap THEN ParamCodeMap[p] ELSE p

-----------------------------------------------------------------------------
(* Values. *)

\* A value keeps its str(), also in lower case, and what float() makes of it, None
\* where that raises.  The str() of a float ("170.0") is the code of no option.
Value(number, text, lower) == [number |-> number, text |-> text, lower |-> lower]
Float(number) == Value(number, "float", "float")
Whole(n, text) == Value(Num(n * Unit), text, text)  \* an int, or a text of its digits
Text(text, lower) == Value(None, text, lower)

\* float comparison: whatever involves NaN is false.
Less(a, b) ==
    \/ a.kind = "number" /\ b.kind = "number" /\ a.n < b.n
    \/ a.kind = "-inf" /\ b.kind \in {"number", "inf"}
    \/ a.kind = "number" /\ b.kind = "inf"

\* Mutant: the fraction is cut off.
Truncate(n, scale) == (n * scale) \div Unit

\* round() of n * scale / Unit: to the nearest integer, halves to the even one.
Round(n, scale) ==
    LET q == (n * scale) \div Unit
        r == (n * scale) % Unit
    IN  IF 2 * r > Unit \/ (2 * r = Unit /\ q % 2 = 1) THEN q + 1 ELSE q

\* The bound of a call, else the one of the catalogue, else none.
Bound(given, declared) ==
    IF given # None THEN given ELSE IF declared # None THEN Num(declared) ELSE None

OutOfRange(number, low, high) ==
    \/ low # None /\ Less(number, low)
    \/ high # None /\ Less(high, number)

\* What goes on the wire: a whole number, the code of an option, or a value as it is.
Code(c) == [kind |-> "code", code |-> c]

Encoded(raw) == [error |-> None, raw |-> raw]
NotEncoded(error) == [error |-> error, raw |-> None]

\* The range is checked before scaling; NaN passes every check and fails to round.
EncodeNumber(spec, number, minimum, maximum) ==
    IF \/ number = None
       \/ OutOfRange(number, Bound(minimum, spec.minimum), Bound(maximum, spec.maximum))
       \/ number.kind = "nan"
    THEN NotEncoded("ValueError")
    ELSE IF number.kind = "number" THEN Encoded(Num(Round(number.n, spec.scale))) ELSE NotEncoded("OverflowError")

\* The name of an option in any case, or a code that is one of theirs.
EncodeOption(spec, value) ==
    IF value.lower \in DOMAIN spec.options THEN Encoded(Code(spec.options[value.lower]))
    ELSE IF \E o \in DOMAIN spec.options : value.text = spec.options[o] THEN Encoded(Code(value.text))
    ELSE NotEncoded("ValueError")

\* Without a specification the value goes out as str(value).
EncodeParameter(name, value, minimum, maximum) ==
    IF name \notin DOMAIN PARAMETERS THEN Encoded(value)
    ELSE IF PARAMETERS[name].kind = "enum" THEN EncodeOption(PARAMETERS[name], value)
    ELSE EncodeNumber(PARAMETERS[name], value.number, minimum, maximum)
=============================================================================
