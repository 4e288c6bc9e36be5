------------------------- MODULE RelayConfig_proofs -------------------------
(***************************************************************************)
(* The theorem about RelayConfig: the part of the cascade that holds.      *)
(***************************************************************************)
EXTENDS RelayConfig, TLAPS

\* What config is before step i.
Expected(i) ==
    CASE i = 0 -> config = Default
      [] i = 1 -> config = DeepMerge(Default, file)
      [] i \in 2..(Len(Options) + 2) -> config = [k \in Setting |-> Lower(k)]
      [] OTHER -> config = [k \in Setting |-> IF overrides[k] # Unset THEN overrides[k]
                                              ELSE Lower(k)]

\* The options of the command line that main has looked at before step i.
Seen(i) == {n \in DOMAIN Options : n < i - 1}

\* No option seen after the n-th is given in its section.
LastSeen(n, i) ==
    \A m \in Seen(i) :
      m > n /\ args[Options[m]] # Unset => Section[Options[m]] # Section[Options[n]]

\* The overrides hold nothing for a setting that no option gives but what it has
\* anyway, and for an option its argument, if it is the last one of its section.
Collected(i) ==
    /\ \A k \in Setting :
         args[k] = Unset /\ overrides[k] # Unset => overrides[k] = Lower(k)
    /\ \A n \in Seen(i) :
         args[Options[n]] # Unset /\ LastSeen(n, i) =>
           overrides[Options[n]] = args[Options[n]]

\* The inductive invariant.
CascadeInv ==
    /\ step \in 0..(Len(Options) + 3)
    /\ file \in Layer /\ env \in Layer /\ args \in Layer
    /\ overrides \in Layer
    /\ Expected(step)
    /\ step <= 2 => overrides = NoSetting
    /\ Collected(IF step = Len(Options) + 3 THEN step - 1 ELSE step)

\* Merging the environment over the file over the defaults gives the lower layers.
LEMMA LowerLayers ==
  DeepMerge(DeepMerge(Default, file), env) = [k \in Setting |-> Lower(k)]
BY DEF DeepMerge, Lower

\* What an option does to the overrides: they stay right, and it is the last seen.
LEMMA OverrideCollects ==
  ASSUME CascadeInv, ApplyOption
  PROVE  CascadeInv'
<1> DEFINE n == step - 1
           k == Options[n]
<1>1. /\ step \in Nat /\ n \in Nat
      /\ Len(Options) \in Nat
      /\ n \in 1..Len(Options)
      /\ \A m \in 1..Len(Options) : Options[m] \in Setting
      /\ DOMAIN Options = 1..Len(Options)
  BY OptionsAreSettings DEF CascadeInv, ApplyOption
<1>2. /\ config' = config /\ file' = file /\ env' = env /\ args' = args
      /\ step' = step + 1
      /\ k \in Setting
      /\ overrides' = IF args[k] # Unset THEN OverrideSection(k) ELSE overrides
  BY <1>1 DEF ApplyOption
<1>3. step \in 2..(Len(Options) + 1) /\ step' \in 2..(Len(Options) + 2)
  BY <1>1, <1>2
<1>4. config = [j \in Setting |-> Lower(j)]
  BY <1>1, <1>3 DEF CascadeInv, Expected
<1>5. Expected(step)'
  <2>1. \A j : Lower(j)' = Lower(j)
    BY <1>2 DEF Lower
  <2> QED BY <1>1, <1>2, <1>3, <1>4, <2>1 DEF Expected
<1>6. \A j \in Setting : Lower(j) \in Value
  BY DefaultsAreValues DEF CascadeInv, Layer, Lower
<1>7. overrides' \in Layer
  BY <1>2, <1>4, <1>6 DEF CascadeInv, Layer, OverrideSection
<1>8. Seen(step') = Seen(step) \cup {n}
  BY <1>1, <1>2 DEF Seen
<1>9. Collected(step)
  BY <1>1, <1>3 DEF CascadeInv
<1>10. Collected(step)'
  <2>1. ASSUME NEW j \in Setting, args[j] = Unset, overrides'[j] # Unset
        PROVE  overrides'[j] = Lower(j)
    BY <1>2, <1>4, <1>9, <2>1 DEF Collected, OverrideSection
  <2>2. ASSUME NEW m \in Seen(step'), args[Options[m]] # Unset, LastSeen(m, step')
        PROVE  overrides'[Options[m]] = args[Options[m]]
    <3>1. m \in 1..Len(Options) /\ Options[m] \in Setting
      BY <1>1 DEF Seen
    <3>2. CASE m = n
      BY <1>2, <2>2, <3>2 DEF OverrideSection
    <3>3. CASE m # n
      <4>1. m \in Seen(step) /\ m < n
        BY <1>1, <1>8, <3>1, <3>3 DEF Seen
      <4>2. LastSeen(m, step)
        BY <1>8, <2>2 DEF LastSeen
      <4>3. args[k] # Unset => Section[k] # Section[Options[m]]
        BY <1>1, <1>8, <2>2, <4>1 DEF LastSeen
      <4>4. overrides[Options[m]] = args[Options[m]]
        BY <1>9, <2>2, <4>1, <4>2 DEF Collected
      <4> QED BY <1>2, <3>1, <4>3, <4>4 DEF OverrideSection
    <3> QED BY <3>2, <3>3
  <2>3. \A j : Lower(j)' = Lower(j)
    BY <1>2 DEF Lower
  <2>4. \A m : LastSeen(m, step)' <=> LastSeen(m, step')
    BY <1>2 DEF LastSeen, Seen
  <2> QED BY <1>2, <2>1, <2>2, <2>3, <2>4 DEF Collected, Seen
<1> QED BY <1>1, <1>2, <1>3, <1>5, <1>7, <1>10 DEF CascadeInv

\* The invariant holds in every reachable state.
LEMMA CascadeInvariant == Spec => []CascadeInv
<1> USE OptionsAreSettings
<1>1. Init => CascadeInv
  BY DEF Init, CascadeInv, Expected, Collected, Seen, NoSetting, Layer
<1>2. CascadeInv /\ [Next]_vars => CascadeInv'
  <2> SUFFICES ASSUME CascadeInv, [Next]_vars PROVE CascadeInv'
    OBVIOUS
  <2>1. CASE LoadFile
    BY <2>1 DEF LoadFile, CascadeInv, Expected, Collected, Seen, NoSetting, Layer
  <2>2. CASE LoadEnv
    <3>1. config' = [k \in Setting |-> Lower(k)]
      BY <2>2, LowerLayers DEF LoadEnv, CascadeInv, Expected
    <3> QED BY <2>2, <3>1
            DEF LoadEnv, CascadeInv, Expected, Collected, Seen, NoSetting, Layer, Lower
  <2>3. CASE ApplyOption
    BY <2>3, OverrideCollects
  <2>4. CASE MergeOptions
    BY <2>4 DEF MergeOptions, CascadeInv, Expected, Collected, Seen, LastSeen, DeepMerge, Lower
  <2>5. CASE UNCHANGED vars
    BY <2>5 DEF vars, CascadeInv, Expected, Collected, Seen, LastSeen, Lower, DeepMerge
  <2> QED BY <2>1, <2>2, <2>3, <2>4, <2>5 DEF Next
<1> QED BY <1>1, <1>2, PTL DEF Spec

\* Once the configuration is loaded, a setting that no option gives has the value of
\* the cascade, and the last option of each section is obeyed: for any settings,
\* sections and options.
THEOREM Cascade == Spec => []CascadeKept
<1>1. CascadeInv => CascadeKept
  <2> SUFFICES ASSUME CascadeInv, Loaded, NEW k \in Setting
               PROVE  /\ args[k] = Unset => config[k] = Lower(k)
                      /\ args[k] # Unset /\ LastOption(k) => config[k] = args[k]
    BY DEF CascadeKept
  <2>1. /\ Len(Options) \in Nat
        /\ DOMAIN Options = 1..Len(Options)
        /\ step = Len(Options) + 3
    BY OptionsAreSettings DEF CascadeInv, Loaded
  <2>6. Seen(step - 1) = DOMAIN Options
    BY <2>1 DEF Seen
  <2>2. config[k] = IF overrides[k] # Unset THEN overrides[k] ELSE Lower(k)
    BY <2>1 DEF CascadeInv, Expected
  <2>3. Collected(step - 1)
    BY <2>1 DEF CascadeInv
  <2>4. ASSUME args[k] = Unset PROVE config[k] = Lower(k)
    BY <2>2, <2>3, <2>4 DEF Collected
  <2>5. ASSUME args[k] # Unset, LastOption(k) PROVE config[k] = args[k]
    <3>1. PICK n \in DOMAIN Options :
            /\ Options[n] = k
            /\ \A m \in DOMAIN Options :
                 m > n /\ args[Options[m]] # Unset => Section[Options[m]] # Section[k]
      BY <2>5 DEF LastOption
    <3>2. LastSeen(n, step - 1)
      BY <2>6, <3>1 DEF LastSeen
    <3>3. overrides[k] = args[k]
      BY <2>3, <2>5, <2>6, <3>1, <3>2 DEF Collected
    <3> QED BY <2>2, <2>5, <3>3
  <2> QED BY <2>4, <2>5
<1> QED BY <1>1, CascadeInvariant, PTL DEF Spec
=============================================================================
