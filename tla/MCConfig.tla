------------------------------- MODULE MCConfig -------------------------------
(* Integers of 8 bits, an hour of 4 seconds and a day of 12.                *)
EXTENDS Config

MCKinds == {"overwatch", "firewall"}

(* No number, a negative one, 0 and 1, one whose product with Hour does not *)
(* fit, and one that does not fit itself.                                   *)
MCValues == { <<>>, <<-1>>, <<0>>, <<1>>, <<33>>, <<300>> }

MCIsPrefix(value) == value = <<>>

MCDefaults ==
    [ key \in Keys |->
        CASE key \in Flags -> key = "enabled"
          [] key = "lan_prefix" -> << <<>> >>
          [] key \in Texts -> <<>>
          [] key = "retention_hours_min" -> 48
          [] key \in {"retention_days_hour", "retention_days_day"} -> 120
          [] OTHER -> 2 ]
===============================================================================
