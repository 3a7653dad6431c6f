------------------------------ MODULE Replies -------------------------------
(***************************************************************************)
(* How the library reads a server's reply: which exception an envelope is  *)
(* turned into (src/pysolarcloud/__init__.py) and what the replies of the  *)
(* parameter endpoints mean (src/pysolarcloud/control.py).                 *)
(*                                                                         *)
(* A reply is an envelope and a payload.  The envelope keeps the legacy    *)
(* "error" key, result_code (a text, or the number 1) and whether          *)
(* result_msg is "success".  Of the payload only what the code tells       *)
(* apart, or its comments do, is kept.                                     *)
(***************************************************************************)

CONSTANT None   \* Python's None: an absent field, no exception

AUTH_ERROR_CODES == {"E00003", "E900", "E919", "E912", "E914"}
RATE_LIMIT_CODES == {"E998", "E999"}
LOGIN_INVALID_CODES == {"E00003"}

\* The exceptions of the library, and those that say that going on is useless.
LibraryErrors ==
    {"PySolarCloudException", "AuthError", "RateLimitError", "TokenRefreshError", "DeviceNotWritableError"}
FatalErrors == {"AuthError", "TokenRefreshError", "RateLimitError"}

ASSUME NoneIsNoText ==
    None \notin AUTH_ERROR_CODES \cup RATE_LIMIT_CODES \cup LibraryErrors
        \cup {"1", "number 1", "legacy_error", "other", "do_not_repeat"}

Envelope(error, code, success) == [error |-> error, code |-> code, success |-> success]

\* A success, failures of each class, and the envelopes without a result_code.
Envelopes ==
    {Envelope(None, "1", TRUE), Envelope(None, "number 1", TRUE),
     Envelope(None, None, TRUE), Envelope(None, None, FALSE),
     Envelope("legacy_error", None, FALSE)}
    \cup {Envelope(None, c, FALSE) : c \in {"E00003", "E900", "E998", "E994"}}

\* Mutant: the quota codes are not known.
FromResponseNoQuota(e) ==
    IF e.code \in AUTH_ERROR_CODES THEN "AuthError" ELSE "PySolarCloudException"

FromResponse(e) ==
    LET code == IF e.error # None THEN e.error ELSE e.code
    IN  CASE code \in AUTH_ERROR_CODES -> "AuthError"
          [] code \in RATE_LIMIT_CODES -> "RateLimitError"
          [] OTHER -> "PySolarCloudException"

\* str() of the result_code is "1".
SaysOne(e) == e.code \in {"1", "number 1"}

\* UserAuth's view of the envelope: result_msg or result_code says success.
Succeeded(e) == e.success \/ SaysOne(e)

\* The exception for an envelope, or None.  A missing result_code is an error of
\* the OAuth transport only.
CheckEnvelope(e, required) ==
    CASE e.code # None /\ ~SaysOne(e) -> FromResponse(e)
      [] e.code = None /\ required -> "PySolarCloudException"
      [] OTHER -> None

\* Plants: whatever has not the text "1" as its result_code is an error.
PlatformError(e) == IF e.code = "1" THEN None ELSE FromResponse(e)

\* A paramSetting reply: check_result is "9", which is said to mean "do not repeat
\* (rate limit)", or anything else that is not "1"; no device list, a device code that
\* is not "1", no task_id, or a task.
SubmitPayloads == {"do_not_repeat", "rejected", "no_device", "device_rejects", "no_task", "task"}

CheckParamReply(e, payload, required) ==
    IF CheckEnvelope(e, required) # None THEN CheckEnvelope(e, required)
    ELSE CASE payload \in {"do_not_repeat", "rejected", "no_device"} -> "PySolarCloudException"
           [] payload \in {"device_rejects", "no_task"} -> "DeviceNotWritableError"
           [] OTHER -> None

\* A paramSettingCheck reply whose envelope is fine: check_result is not "1", there
\* is no device list, or the first device's own check_result counts.
SupportPayloads == {"rejected", "top_level", "device_no", "device_yes"}

CheckSupportReply(payload) == payload \in {"top_level", "device_yes"}

\* A getParamSettingTask reply: running, success with rows, or any other status
\* (absent and unparseable ones included).
TaskStatuses == {"running", "success", "other"}

InterpretTaskReply(e, status, required) ==
    LET ok == SaysOne(e) \/ (e.code = None /\ ~required)
    IN  CASE ok /\ status \in {"running", "success"} -> status
          [] ~ok -> FromResponse(e)
          [] OTHER -> "PySolarCloudException"

\* One row of a task, by what its formatting trips over: a missing name, a missing
\* or null return_value, a list of value names shorter than the list of values.
RowFaults == {None, "no_name", "no_value", "null_value", "short_names"}

\* UserControl replaces a missing value by set_value or "", Control does not.
FormatRaises(fault, transport) ==
    \/ fault \in {"no_name", "short_names"}
    \/ fault \in {"no_value", "null_value"} /\ transport = "oauth"
=============================================================================
