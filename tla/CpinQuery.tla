------------------------------ MODULE CpinQuery ------------------------------
(***************************************************************************)
(* The SIM state query of the AT modem utilities (drivers/atmodem/atutil.c:*)
(* at_util_sim_state_query_new, cpin_check, cpin_check_cb and              *)
(* at_util_sim_state_query_free).  The query sends AT+CPIN? on a GAtChat,  *)
(* and while the answer says the port or the SIM is not ready it polls     *)
(* again from a GLib timer, at most num_times more times, before it        *)
(* reports to its callback whether a SIM is inserted.                      *)
(*                                                                         *)
(* One query is modelled from allocation to free.  The chat is the         *)
(* environment: it answers a queued AT+CPIN? with some final response, or *)
(* is closed by its owner, which drops the queued commands without their  *)
(* callbacks.  The user may free the query at any time while it is live.  *)
(***************************************************************************)
EXTENDS Naturals, Sequences

CONSTANTS
    NumTimes,   \* the num_times values a caller passes to _new
    CmeCodes    \* +CME ERROR codes the modem may answer with

\* The final response line of AT+CPIN?, by its prefix and number.
Finals ==
    {[prefix |-> "OK", code |-> 0], [prefix |-> "ERROR", code |-> 0],
     [prefix |-> "+CMS ERROR:", code |-> 0]}
    \cup {[prefix |-> "+CME ERROR:", code |-> c] : c \in CmeCodes}

VARIABLES
    query,        \* "none", "live" or "freed": the struct's heap state
    num_times,
    poll_source,  \* cpin_poll_source > 0: the retry timer is armed
    poll_count,   \* cpin_poll_count
    pending,      \* AT+CPIN? commands queued on the chat with req as data
    chat_open,    \* the chat still delivers answers
    sends,        \* AT+CPIN? commands sent so far
    reports,      \* the values passed to the user callback, in order
    freed_access  \* a callback ran on the query after g_free

vars == <<query, num_times, poll_source, poll_count, pending, chat_open,
          sends, reports, freed_access>>

Init ==
    /\ query = "none" /\ num_times = 0
    /\ poll_source = FALSE /\ poll_count = 0
    /\ pending = 0 /\ chat_open = TRUE
    /\ sends = 0 /\ reports = <<>> /\ freed_access = FALSE

(***************************************************************************)
(* decode_at_error: the final response's prefix gives the error type.     *)
(***************************************************************************)
DecodeAtError(f) ==
    CASE f.prefix = "OK"          -> [type |-> "NO_ERROR", error |-> 0]
      [] f.prefix = "+CMS ERROR:" -> [type |-> "CMS", error |-> f.code]
      [] f.prefix = "+CME ERROR:" -> [type |-> "CME", error |-> f.code]
      [] OTHER                    -> [type |-> "FAILURE", error |-> 0]

(***************************************************************************)
(* cpin_check_cb's decision: "tryagain" for a generic failure (the port   *)
(* may not be ready) and for CME 14 (SIM busy); otherwise "done", where   *)
(* CME 10 and 13 (no SIM, SIM failure) keep ok FALSE and any other CME    *)
(* code is taken as a SIM being present.                                  *)
(***************************************************************************)
Verdict(f) ==
    LET e == DecodeAtError(f) IN
    CASE e.type = "NO_ERROR"                -> "done"
      [] e.type = "FAILURE"                 -> "tryagain"
      [] e.type # "CME"                     -> "done"
      [] e.error \in {10, 13}               -> "done"
      [] e.error = 14                       -> "tryagain"
      [] OTHER                              -> "done"

ReportedOk(f) ==
    LET e == DecodeAtError(f) IN
    \/ e.type = "NO_ERROR"
    \/ e.type = "CME" /\ e.error \notin {10, 13, 14}

(***************************************************************************)
(* cpin_check: clears the source id and queues AT+CPIN? with req as the  *)
(* callback data and no destroy function.                                 *)
(***************************************************************************)
CpinCheck ==
    /\ poll_source' = FALSE
    /\ pending' = pending + 1
    /\ sends' = sends + 1

\* at_util_sim_state_query_new: g_new0, store the arguments, cpin_check.
New ==
    /\ query = "none"
    /\ \E n \in NumTimes : num_times' = n
    /\ query' = "live"
    /\ CpinCheck
    /\ UNCHANGED <<poll_count, chat_open, reports, freed_access>>

\* The retry timer fires: cpin_check returns FALSE, so it fires once.
Timer ==
    /\ poll_source
    /\ CpinCheck
    /\ UNCHANGED <<query, num_times, poll_count, chat_open, reports,
                   freed_access>>

\* The test cpin_poll_count++ < num_times reads the count before the increment.
Retry(count, n) == count < n

(***************************************************************************)
(* The tryagain label: cpin_poll_count is incremented whether or not the *)
(* timer is armed, and when the retries are spent the query reports ok,  *)
(* as the chat passed it.                                                  *)
(***************************************************************************)
TryAgain(ok) ==
    /\ poll_count' = poll_count + 1
    /\ IF Retry(poll_count, num_times)
       THEN /\ poll_source' = TRUE
            /\ UNCHANGED reports
       ELSE /\ reports' = Append(reports, ok)
            /\ UNCHANGED poll_source

(***************************************************************************)
(* The chat answers one queued AT+CPIN?: cpin_check_cb with ok TRUE only *)
(* for a final "OK".  On a freed query the callback reads and writes     *)
(* freed memory; what it then does is undefined, so the model records the *)
(* access and leaves the state alone.                                     *)
(***************************************************************************)
CpinCheckCb(f) ==
    /\ chat_open /\ pending > 0
    /\ pending' = pending - 1
    /\ IF query = "freed"
       THEN /\ freed_access' = TRUE
            /\ UNCHANGED <<poll_source, poll_count, reports>>
       ELSE /\ IF Verdict(f) = "tryagain"
               THEN TryAgain(f.prefix = "OK")
               ELSE /\ reports' = Append(reports, ReportedOk(f))
                    /\ UNCHANGED <<poll_source, poll_count>>
            /\ UNCHANGED freed_access
    /\ UNCHANGED <<query, num_times, chat_open, sends>>

(***************************************************************************)
(* at_util_sim_state_query_free: removes the retry timer, calls destroy  *)
(* and frees the struct.  An AT+CPIN? already queued stays queued.        *)
(***************************************************************************)
Free ==
    /\ query = "live"
    /\ query' = "freed"
    /\ poll_source' = FALSE
    /\ UNCHANGED <<num_times, poll_count, pending, chat_open, sends, reports,
                   freed_access>>

\* The chat's owner closes it: queued commands go without their callbacks.
ChatClose ==
    /\ chat_open
    /\ chat_open' = FALSE
    /\ pending' = 0
    /\ UNCHANGED <<query, num_times, poll_source, poll_count, sends, reports,
                   freed_access>>

Next ==
    \/ New \/ Timer \/ Free \/ ChatClose
    \/ \E f \in Finals : CpinCheckCb(f)

Spec == Init /\ [][Next]_vars

-----------------------------------------------------------------------------

TypeOK ==
    /\ query \in {"none", "live", "freed"}
    /\ num_times \in NumTimes \cup {0}
    /\ poll_source \in BOOLEAN /\ chat_open \in BOOLEAN
    /\ poll_count \in Nat /\ pending \in Nat /\ sends \in Nat
    /\ reports \in Seq(BOOLEAN) /\ freed_access \in BOOLEAN

(***************************************************************************)
(* No answer to AT+CPIN? reaches the query after                          *)
(* at_util_sim_state_query_free released it.                              *)
(***************************************************************************)
NoFreedAccess == ~freed_access

=============================================================================
