-------------------------------- MODULE Config --------------------------------
(***************************************************************************)
(* parse_uci of config.rs: the daemon reads /etc/config/overwatch once, at *)
(* start.  The file is given line by line; a value is <<n>> for the digits *)
(* of an integer n and <<>> for any other text.  Integers have Width bits, *)
(* and a product that does not fit wraps, as in a release build.           *)
(***************************************************************************)
EXTENDS Integers, Sequences

CONSTANTS Width,          \* the 64 of i64 and u64
          Hour, Day,      \* 3600 and 86400
          Kinds,          \* section types; one is "overwatch"
          Values,         \* values an option may have in the file
          IsPrefix(_),    \* whether parse_prefix accepts a value
          Defaults,       \* default_config()
          MaxLines        \* bound on the file

VARIABLES sections,   \* the sections so far, each with its options in order
          lines,      \* lines read
          config      \* the Config, Defaults until the whole file is read

vars == <<sections, lines, config>>

Retentions == {"retention_hours_min", "retention_days_hour", "retention_days_day"}
Naturals64 == {"sample_interval", "dns_flush_secs", "dns_top_n"}
Flags == {"enabled", "dns_stats_enabled"}
Texts == {"db_path", "dns_iface"}
Keys == Retentions \cup Naturals64 \cup Flags \cup Texts \cup {"lan_prefix"}

Init == sections = <<>> /\ lines = 0 /\ config = Defaults

-------------------------------------------------------------------------------
(* split_sections.                                                         *)

ReadLine == lines < MaxLines /\ lines' = lines + 1 /\ UNCHANGED config

SectionLine(kind) ==
    /\ ReadLine
    /\ sections' = Append(sections, [kind |-> kind, options |-> <<>>])

(* An option or list line belongs to the section above it, if there is one. *)
OptionLine(key, value) ==
    /\ ReadLine
    /\ sections' = IF sections = <<>> THEN <<>>
                   ELSE [sections EXCEPT ![Len(sections)].options =
                            Append(@, [key |-> key, value |-> value])]

-------------------------------------------------------------------------------
(* parse_uci.                                                              *)

Get(section, key) == SelectSeq(section.options, LAMBDA o : o.key = key)[1].value

GetAll(section, key) ==
    LET given == SelectSeq(section.options, LAMBDA o : o.key = key)
    IN  [i \in DOMAIN given |-> given[i].value]

Given(section, key) == GetAll(section, key) # <<>>

Half == 2 ^ (Width - 1)

Wrapped(n) == ((n + Half) % (2 * Half)) - Half

ParsesAs(value, range) == value # <<>> /\ value[1] \in range

Signed == -Half .. Half - 1
Unsigned == 0 .. 2 * Half - 1

Unit(key) == IF key = "retention_hours_min" THEN Hour ELSE Day

(* The value option key of the section gives its field, or the default.    *)
Field(section, key) ==
    LET value == Get(section, key)
    IN  CASE ~Given(section, key) -> Defaults[key]
          [] key \in Flags -> value = <<1>>
          [] key \in Texts -> value
          [] key \in Naturals64 ->
                IF ParsesAs(value, Unsigned) THEN value[1] ELSE Defaults[key]
          [] key \in Retentions ->
                IF ParsesAs(value, Signed) /\ value[1] >= 0
                THEN Wrapped(value[1] * Unit(key)) ELSE Defaults[key]
          [] key = "lan_prefix" ->
                LET prefixes == SelectSeq(GetAll(section, key), IsPrefix)
                IN  IF prefixes = <<>> THEN Defaults[key] ELSE prefixes

(* The first section of type overwatch counts, the others do not.          *)
ParseUci ==
    LET named == SelectSeq(sections, LAMBDA s : s.kind = "overwatch")
    IN  IF named = <<>> THEN Defaults ELSE [key \in Keys |-> Field(named[1], key)]

EndOfFile == config' = ParseUci /\ lines' = MaxLines /\ UNCHANGED sections

Next ==
    \/ \E kind \in Kinds : SectionLine(kind)
    \/ \E key \in Keys, value \in Values : OptionLine(key, value)
    \/ EndOfFile

Spec == Init /\ [][Next]_vars

-------------------------------------------------------------------------------
(* config.rs:86 sets out to "Reject negative retention (would make prune   *)
(* delete nothing/everything)": whatever the file says, no retention the   *)
(* daemon runs with is negative.                                           *)
RetentionNotNegative == \A key \in Retentions : config[key] >= 0
===============================================================================
