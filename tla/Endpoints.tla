----------------------------- MODULE Endpoints ------------------------------
(***************************************************************************)
(* The single-request calls of UserAuth (src/pysolarcloud/user_auth.py)    *)
(* and Plants (src/pysolarcloud/plants.py): what each does on the server   *)
(* and how it makes its result of the reply's result_data.                 *)
(*                                                                         *)
(* The request bodies are the arguments under the server's field names and *)
(* are not kept; an argument that is converted to int may fail.            *)
(***************************************************************************)
EXTENDS TLC, Replies

Fetch(shape) == [shape |-> shape, writes |-> FALSE, converts |-> FALSE]
FetchById(shape) == [Fetch(shape) EXCEPT !.converts = TRUE]
Command == [Fetch("dict") EXCEPT !.writes = TRUE]

PlantCalls == [plants |-> Fetch("page"), plant_detail |-> Fetch("dict"), plant_detail_daily |-> Fetch("dict")]
DeviceCalls == [devices |-> Fetch("device_page")]
RealtimeCalls == [device_realtime |-> Fetch("points")]
HistoricalCalls == [historical_data |-> Fetch("series")]
PileCalls == [
    charging_piles |-> Fetch("list_or_page"),
    charging_pile_realtime |-> FetchById("dict"),
    charging_pile_last_data |-> FetchById("dict"),
    charge_pile_overview |-> Fetch("dict"),
    charging_pile_property |-> Fetch("raw")]
BatteryCalls == [
    battery_capacity |-> Fetch("dict"),
    battery_info |-> Fetch("dict"),
    soc_by_ps_id |-> Fetch("dict"),
    soc_by_sn |-> Fetch("dict")]
FaultCalls == [
    fault_count |-> Fetch("dict"),
    fault_detail |-> Fetch("dict"),
    query_faults |-> FetchById("list_or_page"),
    open_fault_num |-> Fetch("dict"),
    unread_fault_count |-> Fetch("dict")]
ReportCalls == [household_storage_report |-> Fetch("dict"), energy_summary |-> Fetch("dict")]
DeviceHistoryCalls == [day_month_year_history |-> Fetch("raw"), minute_history |-> Fetch("raw")]
ScheduleCalls == [
    home_setting |-> Fetch("dict"),
    set_operation_mode |-> Command,
    discharge_template_info |-> Fetch("dict"),
    add_or_update_discharge_plan |-> Command,
    delete_discharge_plan |-> Command,
    select_discharge_plan |-> Command,
    set_system_power_backup_param |-> Command]
ParamSetCalls == [
    check_can_set_parameters |-> Fetch("dict"),
    param_set_template_point_info |-> Fetch("dict"),
    issue_parameter_instruction |-> Command,
    back_read_value |-> Fetch("dict"),
    cancel_fast_setting_task |-> Command]

UserCalls ==
    PlantCalls @@ DeviceCalls @@ RealtimeCalls @@ HistoricalCalls @@ PileCalls @@ BatteryCalls @@ FaultCalls
    @@ ReportCalls @@ DeviceHistoryCalls @@ ScheduleCalls @@ ParamSetCalls

\* Plants; the device calls convert the device type.
PlatformCalls == [
    queryPowerStationList |-> Fetch("required_page"),
    getPowerStationDetail |-> Fetch("required_page"),
    getDeviceListByPsId |-> Fetch("required_page"),
    getDevPropertyPointValue |-> FetchById("raw"),
    getOpenPointInfo |-> FetchById("raw")]

\* What result_data may be: absent, a dict without and with the list (pageList,
\* data_list) or a series under the plant's id, a list of rows (of more than two
\* fields), a text.
ResultData == {None, "dict", "page", "series", "list", "text"}
Dicts == {"dict", "page", "series"}

\* The result: the dict, the rows, an empty one, the bare data, or None when the
\* code calls a dict method or dict() on something else and a built-in exception
\* comes out.  Where the bare data is absent UserAuth returns Python's None and Plants
\* an empty dict.
ExtractDict(d) == IF d = None THEN "empty" ELSE IF d \in Dicts THEN "dict" ELSE None
ExtractPage(d) ==
    IF d \in {"list", "text"} THEN None ELSE IF d = "page" THEN "rows" ELSE "empty"
ExtractPoints(d) == IF d \in {"list", "text"} THEN None ELSE IF d = None THEN "empty" ELSE "points"
ExtractListOrPage(d) == IF d \in {"list", "page"} THEN "rows" ELSE "empty"
ExtractSeries(d) == IF d \in {"list", "series"} THEN "rows" ELSE "empty"

\* Plants subscripts: whatever has no list raises a KeyError or a TypeError.
ExtractRequiredPage(d) == IF d = "page" THEN "rows" ELSE None

\* async_get_devices looks for a pageList first, then whether the data is a list.
ExtractDevicePage(d) == ExtractPage(d)

Extract(shape, d) ==
    CASE shape = "dict" -> ExtractDict(d)
      [] shape = "page" -> ExtractPage(d)
      [] shape = "device_page" -> ExtractDevicePage(d)
      [] shape = "required_page" -> ExtractRequiredPage(d)
      [] shape = "points" -> ExtractPoints(d)
      [] shape = "list_or_page" -> ExtractListOrPage(d)
      [] shape = "series" -> ExtractSeries(d)
      [] shape = "raw" -> IF d = None THEN "empty" ELSE d
=============================================================================
