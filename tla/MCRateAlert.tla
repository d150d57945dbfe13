----------------------------- MODULE MCRateAlert -----------------------------
(***************************************************************************)
(* Instances of the rate alerts: one request per rule of the API, the ones *)
(* it accepts among them.                                                  *)
(***************************************************************************)
EXTENDS RateAlert, TLC

CONSTANTS w1, w2, t1

Admin == [scheme |-> "bearer", key |-> "admin"]
MCAuths == {Admin, [scheme |-> "basic", key |-> "admin"], [scheme |-> "bearer", key |-> "other"]}

Ip(f, m, r) == [family |-> f, mapped |-> m, range |-> r]
Url(https, host, ip) == [parses |-> TRUE, https |-> https, host |-> host, ip |-> ip]
Public == Url(TRUE, "name", Ip("v4", FALSE, "public"))

Rate(n, win, deb) ==
  [url |-> Public, too_long |-> FALSE, category |-> NoValue, to_addr |-> NoValue,
   sub_type |-> "rate_threshold", threshold_count |-> n, threshold_window_secs |-> win, debounce_secs |-> deb]

MCBodies ==
  LET good == Rate(1, 3, 4)
  IN  {good,
       Rate(0, 3, 4), Rate(1, 0, 4), Rate(1, 3, -1), Rate(1, NoValue, 4),
       [good EXCEPT !.sub_type = "per_event"], [good EXCEPT !.sub_type = "hourly"],
       [Rate(NoValue, NoValue, NoValue) EXCEPT !.sub_type = NoValue],
       [good EXCEPT !.too_long = TRUE], [good EXCEPT !.category = "other"], [good EXCEPT !.to_addr = "0x"],
       [good EXCEPT !.url = Url(FALSE, "name", Ip("v4", FALSE, "public"))],
       [good EXCEPT !.url = Url(TRUE, "mdns", Ip("v4", FALSE, "public"))],
       [good EXCEPT !.url = Url(TRUE, "ip", Ip("v6", TRUE, "private"))],
       [good EXCEPT !.url = Url(TRUE, "ip", Ip("v6", FALSE, "unique_local"))]}

MCSymmetry == Permutations({w1, w2})
=============================================================================
