----------------------------- MODULE MCSlstatus -----------------------------
(* Small configurations for the main loop, as the loader leaves them.        *)
EXTENDS Slstatus, TLC

CONSTANT CRASH

MCStrings == {"datetime", "run_exec", "unknown", "%s", "long %s", "1", "2"}

Conf == INSTANCE Config WITH Strings <- MCStrings, Functions <- {"datetime", "run_exec"}

String(s) == [type |-> "string", val |-> s]
Number(n) == [type |-> "int", val |-> n]

MCDigits == "1" :> <<1>> @@ "2" :> <<2>>

\* What the loop can tell of a loaded module.
Seen(m) ==
    [func     |-> CASE m.func = NULL       -> "null"
                    [] m.func = "run_exec" -> "run_exec"
                    [] OTHER               -> "builtin",
     every    |-> m.update_interval,
     no       |-> IF m.status_no = NULL THEN NULL ELSE MCDigits[m.status_no],
     overlong |-> m.fmt = "long %s"]

\* Three sound modules of every kind, two of them with the same status, and
\* what the loader accepts and the loop stumbles over: no status_no and a text
\* that may be overlong, no function, an update_interval that is no number.  A
\* negative one and a function that is not known are put right.  The overlong
\* text keeps the loop from the last two.
MCFile ==
    [read |-> TRUE, settings |-> [interval |-> Number(1000)], modules |-> <<
        [function |-> String("unknown"), status_no |-> String("1"), update_interval |-> Number(-1)],
        [function |-> String("run_exec"), status_no |-> String("2"), update_interval |-> Number(2)],
        [function |-> String("datetime"), status_no |-> String("1"), update_interval |-> Number(3)],
        [function |-> String("datetime"), format |-> String("long %s")],
        [status_no |-> String("1"), update_interval |-> Number(2)],
        [function |-> String("datetime"), status_no |-> String("2"), update_interval |-> String("2")] >>]

\* In the home directory, since XDG_CONFIG_HOME is empty.  The first entry has a
\* function, so that loading it cannot crash.
MCEnv  == [XDG_CONFIG_HOME |-> "", HOME |-> "home"]
MCDisk == <<"home", ".config", "slstatus", "slstatus.cfg">> :> MCFile

Loaded ==
    LET loaded == (CHOOSE conf \in Conf!load_config(MCEnv, MCDisk) : TRUE).modules
    IN  <<>> \o [k \in 1 .. Len(loaded) |-> Seen(loaded[k])]

MCModules == Loaded     \* which TLC evaluates once

ASSUME LoadingAssumption == CRASH \notin Conf!load_config(MCEnv, MCDisk)
=============================================================================
