------------------------------- MODULE Config -------------------------------
(* How the configuration comes about (src/conf.c): what libconfig has parsed *)
(* is looked up setting by setting, and where nothing is found, or nothing   *)
(* that fits, config.def.h decides.  A file is a tree of settings; strings   *)
(* are values that are only compared.                                        *)
EXTENDS Integers, Sequences

CONSTANTS
    Strings,    \* what strings a file may contain
    Functions,  \* the names that parse_function knows, in whatever case
    NULL,
    CRASH       \* the end of a program that uses what was never set

\* A setting: an int or a string, or something else (a float, a group ...).
Setting == [type : {"int"}, val : Int] \cup [type : {"string"}, val : Strings]
           \cup [type : {"other"}, val : {NULL}]

Entry   == UNION {[names -> Setting] :
                  names \in SUBSET {"function", "format", "argument", "status_no", "update_interval"}}
Names   == {"interval", "maximum_length", "unknown_string",
            "mpd.title_length", "mpd.loop_text", "mpd.on_text_fits"}

\* What config_read_file leaves: an error, or top-level settings and the list of
\* modules, NULL if "modules" is missing or no list.
File == [read : {FALSE}]
        \cup [read : {TRUE}, settings : UNION {[names -> Setting] : names \in SUBSET Names},
              modules : Seq(Entry) \cup {NULL}]

-----------------------------------------------------------------------------
(* The lookups leave what is there (old) if they do not succeed.             *)

Has(group, name, type) == name \in DOMAIN group /\ group[name].type = type

\* config_lookup_int refuses another type than int.
lookup_int(group, name, old) == IF Has(group, name, "int") THEN group[name].val ELSE old

\* config_lookup_strdup, config_setting_lookup_strdup
lookup_strdup(group, name, old) == IF Has(group, name, "string") THEN group[name].val ELSE old

\* config_setting_get_int is 0 for another type.
get_int(setting) == IF setting.type = "int" THEN setting.val ELSE 0

lookup_unsigned_int(group, name, old) ==
    IF name \in DOMAIN group /\ get_int(group[name]) >= 0 THEN get_int(group[name]) ELSE old

\* strcasecmp with every known name; datetime for an unknown one.
parse_function(string) == IF string \in Functions THEN string ELSE "datetime"

parse_mpd_on_text_fits(string) ==
    IF string \in {"NO_SCROLL", "FULL_SPACE_SEPARATOR", "FORCE_SCROLL"} THEN string ELSE "NO_SCROLL"

-----------------------------------------------------------------------------
arg == [func : Functions \cup {"datetime", NULL}, fmt : Strings \cup {"%s"},
        args : Strings \cup {NULL, "%F %T"}, status_no : Strings \cup {NULL, "1"},
        update_interval : Nat]

\* One group of the list "modules": calloc has left modules[i].func NULL.
load_module(entry) ==
    [func            |-> IF Has(entry, "function", "string")
                         THEN parse_function(entry["function"].val) ELSE NULL,
     fmt             |-> lookup_strdup(entry, "format", "%s"),
     args            |-> lookup_strdup(entry, "argument", NULL),
     status_no       |-> lookup_strdup(entry, "status_no", NULL),
     update_interval |-> lookup_unsigned_int(entry, "update_interval", 1)]

\* The table args of config.def.h.
Fallback == <<[func |-> "datetime", fmt |-> "%s", args |-> "%F %T", status_no |-> "1",
               update_interval |-> 1]>>

\* The warning of an entry without status_no prints the local func: the last
\* name that was looked up with success, of this entry or of one before it, and
\* if there is none whatever the uninitialised pointer points to.
prints_unset(modules) ==
    \E k \in 1 .. Len(modules) :
        /\ ~Has(modules[k], "status_no", "string")
        /\ \A j \in 1 .. k : ~Has(modules[j], "function", "string")

\* load_modules, and load_fallback_config where it has left no modules.
load_modules(modules) ==
    IF modules = NULL \/ modules = <<>> THEN Fallback
    ELSE [k \in 1 .. Len(modules) |-> load_module(modules[k])]

load_mpdonair(settings) ==
    [title_length |-> lookup_int(settings, "mpd.title_length", 20),
     loop_text    |-> lookup_strdup(settings, "mpd.loop_text", " ~ "),
     on_text_fits |-> IF Has(settings, "mpd.on_text_fits", "string")
                      THEN parse_mpd_on_text_fits(settings["mpd.on_text_fits"].val) ELSE "NO_SCROLL"]

\* The environment names the directory; an empty variable is like none.
get_config_path(env) ==
    CASE env.XDG_CONFIG_HOME \notin {NULL, ""}                            ->
            <<env.XDG_CONFIG_HOME, "slstatus", "slstatus.cfg">>
      [] env.XDG_CONFIG_HOME \in {NULL, ""} /\ env.HOME \notin {NULL, ""} ->
            <<env.HOME, ".config", "slstatus", "slstatus.cfg">>
      [] OTHER                                                           -> NULL

\* A file that is not there, or cannot be read, is one without settings; without
\* a path there is none to read.
read_file(env, disk) ==
    LET path == get_config_path(env)
        file == IF path \in DOMAIN disk THEN disk[path] ELSE [read |-> FALSE]
    IN  IF file.read THEN file ELSE [read |-> FALSE, settings |-> <<>>, modules |-> NULL]

\* What may come of it.
load_config(env, disk) ==
    LET file     == read_file(env, disk)
        settings == file.settings
        loaded   == [interval       |-> lookup_unsigned_int(settings, "interval", 1000),
                     maximum_length |-> lookup_int(settings, "maximum_length", 2048),
                     unknown_string |-> lookup_strdup(settings, "unknown_string", NULL),
                     modules        |-> load_modules(file.modules),
                     mpd            |-> load_mpdonair(settings)]
    IN  {loaded} \cup (IF file.modules # NULL /\ prints_unset(file.modules) THEN {CRASH} ELSE {})
=============================================================================
