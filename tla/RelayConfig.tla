---------------------------- MODULE RelayConfig ----------------------------
(***************************************************************************)
(* Where the settings of the relay come from: load_config and its merges,  *)
(* src/relay_server/config.py, and the command line options that main      *)
(* applies afterwards, src/relay_server/__main__.py.                       *)
(*                                                                         *)
(* A configuration gives every setting a value; a layer (the YAML file, the*)
(* environment, the command line) gives some of them one.  Values have been*)
(* converted to the type of their setting.                                 *)
(***************************************************************************)
EXTENDS Naturals, Sequences

CONSTANTS
    Setting,    \* the fields of the sections of Config
    Section,    \* the section of each setting
    Value,
    Unset,      \* a setting that a layer does not give
    Default,    \* the value in the dataclass
    Options     \* the settings with an option, in the order of the ifs of main

ASSUME UnsetIsNoValue == Unset \notin Value

ASSUME DefaultsAreValues == Default \in [Setting -> Value]

ASSUME OptionsAreSettings == Options \in Seq(Setting)

Config == [Setting -> Value]
Layer == [Setting -> Value \cup {Unset}]

VARIABLES
    file,       \* the YAML file that _find_config_file found, or a layer without any setting
    env,        \* the RELAY_* variables
    args,       \* the options of the command line
    config,
    overrides,  \* the dictionary that main collects
    step        \* 0: file, 1: environment, then an option each, then the merge

vars == <<file, env, args, config, overrides, step>>

NoSetting == [k \in Setting |-> Unset]

Init ==
    /\ file \in Layer
    /\ env \in Layer
    /\ args \in {a \in Layer : \A k \in Setting :
                   a[k] # Unset => \E i \in DOMAIN Options : Options[i] = k}
    /\ config = Default
    /\ overrides = NoSetting
    /\ step = 0

\* A plausible fault of DeepMerge: a section of the layer replaces that of the base.
ShallowMerge(base, layer) ==
    [k \in Setting |->
       IF layer[k] # Unset THEN layer[k]
       ELSE IF \E j \in Setting : Section[j] = Section[k] /\ layer[j] # Unset
       THEN Default[k]
       ELSE base[k]]

\* _deep_merge: the settings of the layer win, section by section.
DeepMerge(base, layer) ==
    [k \in Setting |-> IF layer[k] # Unset THEN layer[k] ELSE base[k]]

\* The file fills the defaults (_dict_to_config).
LoadFile ==
    /\ step = 0
    /\ config' = DeepMerge(Default, file)
    /\ step' = 1
    /\ UNCHANGED <<file, env, args, overrides>>

LoadEnv ==
    /\ step = 1
    /\ config' = DeepMerge(config, env)
    /\ step' = 2
    /\ UNCHANGED <<file, env, args, overrides>>

\* The section of option k in the overrides becomes that of config, with k changed.
OverrideSection(k) ==
    [j \in Setting |-> IF j = k THEN args[k]
                       ELSE IF Section[j] = Section[k] THEN config[j]
                       ELSE overrides[j]]

\* main looks at the next option.
ApplyOption ==
    /\ step - 1 \in DOMAIN Options
    /\ overrides' = IF args[Options[step - 1]] # Unset
                    THEN OverrideSection(Options[step - 1]) ELSE overrides
    /\ step' = step + 1
    /\ UNCHANGED <<file, env, args, config>>

MergeOptions ==
    /\ step = Len(Options) + 2
    /\ config' = DeepMerge(config, overrides)
    /\ step' = step + 1
    /\ UNCHANGED <<file, env, args, overrides>>

Loaded == step = Len(Options) + 3

Next == LoadFile \/ LoadEnv \/ ApplyOption \/ MergeOptions \/ (Loaded /\ UNCHANGED vars)

Spec == Init /\ [][Next]_vars

-----------------------------------------------------------------------------
\* What the layers below the command line give.
Lower(k) == IF env[k] # Unset THEN env[k]
            ELSE IF file[k] # Unset THEN file[k] ELSE Default[k]

\* No later option is given in the section of option k.
LastOption(k) ==
    \E i \in DOMAIN Options :
      /\ Options[i] = k
      /\ \A j \in DOMAIN Options :
           j > i /\ args[Options[j]] # Unset => Section[Options[j]] # Section[k]

\* The cascade, as far as it holds: a setting that no option gives comes from the
\* environment, else from the file, else from the defaults, whatever options are
\* given for other settings of its section; the last option of a section is obeyed.
CascadeKept ==
    Loaded => \A k \in Setting :
      /\ args[k] = Unset => config[k] = Lower(k)
      /\ args[k] # Unset /\ LastOption(k) => config[k] = args[k]

\* Each level overrides the previous (README.md:115): every option that is given is
\* obeyed.  main builds the overrides of a section anew for each option.
OptionsObeyed ==
    Loaded => \A k \in Setting : args[k] # Unset => config[k] = args[k]
=============================================================================
