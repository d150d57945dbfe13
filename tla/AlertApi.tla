------------------------------- MODULE AlertApi -------------------------------
(***************************************************************************)
(* What the API accepts as an alert subscription: AdminAuth (crates/api/   *)
(* src/auth.rs), webhook_url_is_safe and ip_is_safe (crates/db/src/        *)
(* validators.rs), and the checks of create_alert_subscription (crates/api *)
(* /src/routes/alerts.rs), beside the CHECK constraint of the table.       *)
(*                                                                         *)
(* Texts are abstracted to what the checks ask of them: an address is its  *)
(* range, a URL its scheme and kind of host, a category "known" or not.    *)
(***************************************************************************)
EXTENDS Integers

\* A definition named BugX is X with a plausible mistake, and used nowhere.

CONSTANT NoValue  \* a field the request leaves out

-----------------------------------------------------------------------------

\* One header, "Bearer ", and the key, compared as a whole: else 401.
AdminAuth(auth) == auth.scheme = "bearer" /\ auth.key = "admin"

\* An IPv4-mapped IPv6 address is judged as the IPv4 address it carries.
ip_is_safe(ip) ==
  IF ip.family = "v4" \/ ip.mapped
    THEN ip.range \notin {"loopback", "unspecified", "multicast", "private", "link_local", "broadcast"}
    ELSE ip.range \notin {"loopback", "unspecified", "multicast", "unique_local", "link_local"}

\* host: "none", "ip", "mdns" (localhost, *.localhost, *.local) or "name"
webhook_url_is_safe(url) ==
  /\ url.parses
  /\ url.https
  /\ url.host # "none"
  /\ url.host = "ip" => ip_is_safe(url.ip)
  /\ url.host # "mdns"

\* MAX_WEBHOOK_URL_LEN, the URL, the category, the address
TargetValid(body) ==
  /\ ~body.too_long
  /\ webhook_url_is_safe(body.url)
  /\ body.category \in {NoValue, "", "known"}
  /\ body.to_addr \in {NoValue, "", "0x40hex"}

sub_type(body) ==
  IF body.sub_type \in {NoValue, "", "per_event"} THEN "per_event" ELSE body.sub_type

RateFields(body) == <<body.threshold_count, body.threshold_window_secs, body.debounce_secs>>

\* per_event carries no rate field, rate_threshold all three, in range.
BugRateFieldsValid(body) ==
  \/ sub_type(body) = "per_event" /\ \A i \in 1 .. 3 : RateFields(body)[i] = NoValue
  \/ /\ sub_type(body) = "rate_threshold"
     /\ \A i \in 1 .. 3 : RateFields(body)[i] # NoValue
     /\ body.threshold_count >= 0
     /\ body.threshold_window_secs > 0
     /\ body.debounce_secs >= 0
RateFieldsValid(body) ==
  \/ sub_type(body) = "per_event" /\ \A i \in 1 .. 3 : RateFields(body)[i] = NoValue
  \/ /\ sub_type(body) = "rate_threshold"
     /\ \A i \in 1 .. 3 : RateFields(body)[i] # NoValue
     /\ body.threshold_count > 0
     /\ body.threshold_window_secs > 0
     /\ body.debounce_secs >= 0

\* The status of create_alert_subscription.
CreateStatus(auth, body) ==
  IF ~AdminAuth(auth) THEN 401
  ELSE IF ~TargetValid(body) \/ ~RateFieldsValid(body) THEN 400
  ELSE 201

\* insert_alert_subscription, insert_alert_subscription_rate: the new row
RowOf(body) ==
  [status |-> "active", kind |-> sub_type(body), count |-> body.threshold_count,
   window |-> body.threshold_window_secs, debounce |-> body.debounce_secs]

\* alert_subscription_rate_fields_chk
SchemaCheck(row) ==
  \/ row.kind = "per_event" /\ {row.count, row.window, row.debounce} = {NoValue}
  \/ /\ row.kind = "rate_threshold"
     /\ NoValue \notin {row.count, row.window, row.debounce}
     /\ row.count > 0 /\ row.window > 0 /\ row.debounce >= 0
=============================================================================
