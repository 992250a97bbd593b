-------------------------- MODULE GovernanceProofs --------------------------
(***************************************************************************)
(* Proofs about what operators decide, and what agents do about it: the    *)
(* fleet's configuration, the policy profiles and the assessment under     *)
(* them, the agility exercises, the analysis by the LLM, the remediation   *)
(* it proposes, and the migration engine.  The components share no state,  *)
(* so each part has an inductive invariant of its own, over its own        *)
(* specification; the sum of them has their conjunction.                   *)
(***************************************************************************)
EXTENDS MCGovernance, Induction

-----------------------------------------------------------------------------
(* FleetConfig: the key an operator typed                                  *)

\* What the key field of a form or of a stored configuration may hold
Keys == LlmKeys \cup {Empty, Mask}
FleetContents == FleetSettings \cup {"absent", "default"}
Configs == [key : Keys, settings : FleetContents]
Forms == [at : {"none", "editing", "looking", "writing"}, form : Configs, typed : {"yes", "no"}]

\* The shape of the stored configurations, of the forms and of the mapping
FleetTypes ==
    /\ fleet \in Configs /\ typedKey \in LlmKeys \cup {Empty}
    /\ operator \in [Operators -> Forms]
    /\ configProfile \in [ConfigProfiles -> Configs]
    /\ mapping \in [ConfigHosts -> ConfigProfiles \cup {Empty}]
    /\ unsettled \in BOOLEAN

\* The mask is never stored as a profile's key, nor taken for a key the operator typed;
\* only a save that carries the stored key over has to look it up; an open form shows no key.
KeysFit ==
    /\ \A p \in ConfigProfiles : configProfile[p].key \in LlmKeys \cup {Empty}
    /\ \A o \in Operators : operator[o].at = "writing" /\ operator[o].typed = "yes" =>
         operator[o].form.key \in LlmKeys \cup {Empty}
    /\ \A o \in Operators : operator[o].at = "looking" => operator[o].typed = "no"
    /\ \A o \in Operators : operator[o].at = "editing" => operator[o].form.key \in {Empty, Mask}

\* A host is mapped to a profile that exists.
MappedExist ==
    \A h \in ConfigHosts : mapping[h] # Empty => configProfile[mapping[h]] # NoConfig

\* Operator o has submitted a form that is not stored yet.
Saving(o) == operator[o].at \in {"looking", "writing"}

\* No two saves are under way.
OneSave == \A o, q \in Operators : Saving(o) /\ Saving(q) => o = q

\* The key that a save carries over is still the stored one.
Carried ==
    \A o \in Operators : operator[o].at = "writing" /\ operator[o].typed = "no" =>
        operator[o].form.key = fleet.key

\* FleetKeyIsKept alone is not inductive: the key survives a save because the save
\* carries the stored key and no other save comes between its look and its write.
FleetInv ==
    /\ FleetTypes /\ KeysFit /\ MappedExist
    /\ ~ unsettled => fleet.key = typedKey /\ OneSave /\ Carried

\* The field left empty, the mask and a key are three things.
LEMMA FleetDistinct == Empty # Mask /\ Empty \notin ConfigProfiles /\ Mask \notin LlmKeys
                       /\ NoConfig \in Configs /\ DefaultConfig \in Configs
<1>1. Empty # Mask
  BY DEF Empty, Mask
<1>2. NoConfig \in Configs /\ DefaultConfig \in Configs
  BY DEF NoConfig, DefaultConfig, Configs, Keys, FleetContents
<1>. QED  BY <1>1, <1>2, FleetAssumption

\* What the fleet's page shows is a configuration, and its key is the stored one.
LEMMA FleetRead ==
    ASSUME FleetTypes
    PROVE  /\ Fleet \in Configs /\ Fleet.key = fleet.key
           /\ \A h \in ConfigHosts : ConfigFor(h) \in Configs /\ Masked(ConfigFor(h)) \in Configs
                                     /\ Masked(ConfigFor(h)).key \in {Empty, Mask}
<1>1. Fleet \in Configs
  BY FleetDistinct DEF Fleet, FleetTypes
<1>2. Fleet.key = fleet.key
  BY DEF Fleet, NoConfig, DefaultConfig
<1>3. ASSUME NEW h \in ConfigHosts
      PROVE  /\ ConfigFor(h) \in Configs /\ Masked(ConfigFor(h)) \in Configs
             /\ Masked(ConfigFor(h)).key \in {Empty, Mask}
  <2>1. ConfigFor(h) \in Configs
    <3>1. CASE mapping[h] # Empty
      <4>1. mapping[h] \in ConfigProfiles
        BY <3>1 DEF FleetTypes
      <4>. QED  BY <3>1, <4>1 DEF ConfigFor, FleetTypes
    <3>2. CASE mapping[h] = Empty
      BY <1>1, <3>2 DEF ConfigFor
    <3>. QED  BY <3>1, <3>2
  <2>2. Masked(ConfigFor(h)) \in Configs
    BY <2>1 DEF Masked, Configs, Keys
  <2>3. Masked(ConfigFor(h)).key \in {Empty, Mask}
    BY DEF Masked
  <2>. QED  BY <2>1, <2>2, <2>3
<1>. QED  BY <1>1, <1>2, <1>3

\* The fleet starts without a stored configuration.
LEMMA FleetInitInv == FleetInit => FleetInv
<1>. SUFFICES ASSUME FleetInit PROVE FleetInv
  OBVIOUS
<1>1. NoForm \in Forms
  BY FleetDistinct DEF NoForm, Forms
<1>2. FleetTypes
  BY <1>1, FleetDistinct DEF FleetInit, FleetTypes
<1>3. \A o \in Operators : operator[o].at = "none"
  BY DEF FleetInit, NoForm
<1>4. KeysFit /\ MappedExist
  BY <1>3 DEF FleetInit, KeysFit, MappedExist, NoConfig
<1>5. fleet.key = typedKey /\ OneSave /\ Carried
  BY <1>3 DEF FleetInit, OneSave, Saving, Carried, NoConfig
<1>. QED  BY <1>2, <1>4, <1>5 DEF FleetInv

\* Opening a form stores at most the default configuration.
LEMMA OpenFormInv ==
    ASSUME FleetInv, NEW o \in Operators, NEW h \in ConfigHosts, OpenForm(o, h)
    PROVE  FleetInv'
<1>. DEFINE n == [at |-> "editing", form |-> Masked(ConfigFor(h)), typed |-> "no"]
<1>0. FleetTypes
  BY DEF FleetInv
<1>1. n \in Forms /\ n.at = "editing" /\ n.form.key \in {Empty, Mask}
  BY <1>0, FleetRead DEF Forms
<1>2. /\ operator' = [operator EXCEPT ![o] = n] /\ fleet' = Fleet
      /\ UNCHANGED <<configProfile, mapping, typedKey, unsettled>>
  BY DEF OpenForm
<1>. HIDE DEF n
<1>3. FleetTypes'
  BY <1>0, <1>1, <1>2, FleetRead DEF FleetTypes
<1>4. fleet'.key = fleet.key
  BY <1>0, <1>2, FleetRead
<1>5. \A q \in Operators : operator'[q] = operator[q] \/ operator'[q] = n
  BY <1>0, <1>1, <1>2 DEF FleetTypes
<1>6. KeysFit' /\ MappedExist'
  BY <1>1, <1>2, <1>5 DEF FleetInv, KeysFit, MappedExist
<1>7. ~ unsettled' => fleet'.key = typedKey' /\ OneSave' /\ Carried'
  BY <1>1, <1>2, <1>4, <1>5 DEF FleetInv, OneSave, Saving, Carried
<1>. QED  BY <1>3, <1>6, <1>7 DEF FleetInv

\* A submitted form is a save: with the mask it has to look the key up.
LEMMA SubmitFormInv ==
    ASSUME FleetInv, NEW o \in Operators, NEW key \in LlmKeys \cup {Empty, Mask},
           NEW s \in FleetSettings, SubmitForm(o, key, s)
    PROVE  FleetInv'
<1>. DEFINE form == [key |-> key, settings |-> s]
            touched == key # operator[o].form.key
            n == [at |-> IF key = Mask THEN "looking" ELSE "writing", form |-> form,
                  typed |-> IF touched THEN "yes" ELSE "no"]
<1>0. FleetTypes
  BY DEF FleetInv
<1>a. key \in {operator[o].form.key, Empty} \cup LlmKeys
  BY DEF SubmitForm
<1>b. form \in Configs /\ form.key = key
  BY DEF Configs, Keys, FleetContents
<1>c. key = Mask => ~ touched
  BY <1>a, FleetDistinct
<1>1. n \in Forms /\ n.at \in {"looking", "writing"} /\ n.form.key = key
      /\ (n.at = "writing" => n.form.key \in LlmKeys \cup {Empty})
      /\ (n.at = "looking" => n.typed = "no")
  <2>. HIDE DEF form, touched
  <2>. QED  BY <1>b, <1>c DEF Forms
<1>2. /\ operator' = [operator EXCEPT ![o] = n]
      /\ ~ unsettled' => /\ ~ unsettled /\ \A q \in Operators : ~ Saving(q)
                         /\ (n.typed = "no" /\ n.at = "writing" /\ key = Empty => fleet.key = Empty)
      /\ UNCHANGED <<fleet, configProfile, mapping, typedKey>> /\ unsettled' \in BOOLEAN
  BY <1>0 DEF SubmitForm, Saving, FleetTypes
<1>d. ASSUME ~ unsettled', n.typed = "no", n.at = "writing" PROVE n.form.key = fleet.key
  <2>1. key = operator[o].form.key /\ key # Mask
    BY <1>d
  <2>2. CASE key = Empty
    BY <1>d, <1>2, <2>2
  <2>3. CASE key # Empty
    BY <2>1, <2>3 DEF SubmitForm, FleetInv, KeysFit
  <2>. QED  BY <2>2, <2>3
<1>. HIDE DEF n
<1>3. FleetTypes'
  BY <1>0, <1>1, <1>2 DEF FleetTypes
<1>4. operator'[o] = n /\ \A q \in Operators \ {o} : operator'[q] = operator[q]
  BY <1>0, <1>2 DEF FleetTypes
<1>5. KeysFit' /\ MappedExist'
  BY <1>1, <1>2, <1>4 DEF FleetInv, KeysFit, MappedExist
<1>6. ASSUME ~ unsettled'
      PROVE  fleet'.key = typedKey' /\ OneSave' /\ Carried'
  <2>1. ~ unsettled /\ \A q \in Operators : ~ Saving(q)
    BY <1>2, <1>6
  <2>2. fleet.key = typedKey /\ Carried
    BY <2>1 DEF FleetInv
  <2>3. OneSave'
    BY <2>1, <1>4 DEF OneSave, Saving
  <2>4. Carried'
    BY <2>2, <1>d, <1>6, <1>2, <1>4 DEF Carried
  <2>. QED  BY <2>2, <2>3, <2>4, <1>2
<1>. QED  BY <1>3, <1>5, <1>6 DEF FleetInv

\* The look for the stored key, which may fail.
LEMMA KeepKeyInv ==
    ASSUME FleetInv, NEW o \in Operators, NEW ok \in BOOLEAN, KeepKey(o, ok)
    PROVE  FleetInv'
<1>0. FleetTypes
  BY DEF FleetInv
<1>a. operator[o] \in Forms /\ operator[o].at = "looking"
  BY <1>0 DEF FleetTypes, KeepKey
<1>b. UNCHANGED <<configProfile, mapping, typedKey>>
  BY DEF KeepKey
<1>1. CASE ok
  <2>. DEFINE n == [at |-> "writing", typed |-> "no",
                    form |-> [key |-> Fleet.key, settings |-> operator[o].form.settings]]
  <2>1. operator[o].form.settings \in FleetContents
    BY <1>a DEF Forms, Configs
  <2>2. Fleet.key \in Keys /\ Fleet.key = fleet.key
    BY <1>0, FleetRead DEF Configs
  <2>3. n \in Forms /\ n.at = "writing" /\ n.typed = "no" /\ n.form.key = fleet.key
    BY <2>1, <2>2 DEF Forms, Configs
  <2>4. operator' = [operator EXCEPT ![o] = n] /\ fleet' = Fleet /\ unsettled' = unsettled
    BY <1>1 DEF KeepKey
  <2>. HIDE DEF n
  <2>5. FleetTypes'
    BY <1>0, <1>b, <2>3, <2>4, FleetRead DEF FleetTypes
  <2>6. operator'[o] = n /\ \A q \in Operators \ {o} : operator'[q] = operator[q]
    BY <1>0, <2>4 DEF FleetTypes
  <2>7. KeysFit' /\ MappedExist'
    BY <1>b, <2>3, <2>6 DEF FleetInv, KeysFit, MappedExist
  <2>8. fleet'.key = fleet.key
    BY <2>2, <2>4
  <2>9. ASSUME ~ unsettled' PROVE fleet'.key = typedKey' /\ OneSave' /\ Carried'
    BY <1>a, <1>b, <2>3, <2>4, <2>6, <2>8, <2>9 DEF FleetInv, OneSave, Saving, Carried
  <2>. QED  BY <2>5, <2>7, <2>9 DEF FleetInv
<1>2. CASE ~ ok
  <2>1. operator' = [operator EXCEPT ![o].at = "writing"] /\ fleet' = fleet /\ unsettled' = TRUE
    BY <1>2 DEF KeepKey
  <2>2. operator'[o] = [operator[o] EXCEPT !.at = "writing"]
        /\ \A q \in Operators \ {o} : operator'[q] = operator[q]
    BY <1>0, <2>1 DEF FleetTypes
  <2>. DEFINE n == [operator[o] EXCEPT !.at = "writing"]
  <2>3. n \in Forms /\ n.at = "writing" /\ n.typed = operator[o].typed
    BY <1>a DEF Forms
  <2>4. operator[o].typed = "no"
    BY <1>a DEF FleetInv, KeysFit
  <2>5. operator' = [operator EXCEPT ![o] = n]
    BY <1>0, <2>1 DEF FleetTypes
  <2>6. operator'[o] = n
    BY <2>2
  <2>. HIDE DEF n
  <2>7. FleetTypes'
    BY <1>0, <1>b, <2>1, <2>3, <2>5 DEF FleetTypes
  <2>8. KeysFit' /\ MappedExist'
    BY <1>b, <2>2, <2>3, <2>4, <2>6 DEF FleetInv, KeysFit, MappedExist
  <2>. QED  BY <2>1, <2>7, <2>8 DEF FleetInv
<1>. QED  BY <1>1, <1>2

\* The write of the fleet's configuration.
LEMMA UpdateFleetConfigInv ==
    ASSUME FleetInv, NEW o \in Operators, NEW ok \in BOOLEAN, UpdateFleetConfig(o, ok)
    PROVE  FleetInv'
<1>0. FleetTypes
  BY DEF FleetInv
<1>a. operator[o] \in Forms /\ operator[o].at = "writing" /\ operator[o].form \in Configs
  BY <1>0 DEF FleetTypes, UpdateFleetConfig, Forms
<1>b. UNCHANGED <<configProfile, mapping, unsettled>> /\ operator' = [operator EXCEPT ![o] = NoForm]
  BY DEF UpdateFleetConfig
<1>c. NoForm \in Forms /\ NoForm.at = "none"
  BY FleetDistinct DEF NoForm, Forms
<1>1. operator'[o] = NoForm /\ \A q \in Operators \ {o} : operator'[q] = operator[q]
  BY <1>0, <1>b DEF FleetTypes
<1>2. KeysFit' /\ MappedExist'
  BY <1>b, <1>c, <1>1 DEF FleetInv, KeysFit, MappedExist
<1>3. operator' \in [Operators -> Forms]
  BY <1>0, <1>b, <1>c DEF FleetTypes
<1>4. CASE ok
  <2>1. fleet' = operator[o].form
        /\ typedKey' = IF operator[o].typed = "yes" THEN operator[o].form.key ELSE typedKey
    BY <1>4 DEF UpdateFleetConfig
  <2>2. operator[o].typed = "yes" => operator[o].form.key \in LlmKeys \cup {Empty}
    BY <1>a DEF FleetInv, KeysFit
  <2>3. FleetTypes'
    BY <1>0, <1>a, <1>b, <1>3, <2>1, <2>2 DEF FleetTypes
  <2>4. ASSUME ~ unsettled' PROVE fleet'.key = typedKey' /\ OneSave' /\ Carried'
    <3>1. ~ unsettled /\ fleet.key = typedKey /\ OneSave /\ Carried
      BY <1>b, <2>4 DEF FleetInv
    <3>2. fleet'.key = typedKey'
      <4>1. CASE operator[o].typed = "yes"
        BY <2>1, <4>1
      <4>2. CASE operator[o].typed # "yes"
        <5>1. operator[o].typed = "no"
          BY <1>a, <4>2 DEF Forms
        <5>. QED  BY <2>1, <3>1, <1>a, <4>2, <5>1 DEF Carried
      <4>. QED  BY <4>1, <4>2
    <3>3. \A q \in Operators : operator'[q].at \notin {"looking", "writing"}
      <4>1. \A q \in Operators \ {o} : operator[q].at \notin {"looking", "writing"}
        BY <1>a, <3>1 DEF OneSave, Saving
      <4>. QED  BY <4>1, <1>1, <1>c
    <3>. QED  BY <3>2, <3>3 DEF OneSave, Saving, Carried
  <2>. QED  BY <1>2, <2>3, <2>4 DEF FleetInv
<1>5. CASE ~ ok
  <2>1. fleet' = fleet /\ typedKey' = typedKey
    BY <1>5 DEF UpdateFleetConfig
  <2>2. FleetTypes'
    BY <1>0, <1>b, <1>3, <2>1 DEF FleetTypes
  <2>3. ASSUME ~ unsettled' PROVE fleet'.key = typedKey' /\ OneSave' /\ Carried'
    BY <1>b, <1>c, <1>1, <2>1, <2>3 DEF FleetInv, OneSave, Saving, Carried
  <2>. QED  BY <1>2, <2>2, <2>3 DEF FleetInv
<1>. QED  BY <1>4, <1>5

\* A profile is stored without the mask.
LEMMA SaveConfigProfileInv ==
    ASSUME FleetInv, NEW p \in ConfigProfiles, NEW key \in LlmKeys \cup {Empty, Mask},
           NEW s \in FleetSettings, SaveConfigProfile(p, key, s)
    PROVE  FleetInv'
<1>. DEFINE n == [key |-> IF key = Mask THEN Empty ELSE key, settings |-> s]
<1>0. FleetTypes
  BY DEF FleetInv
<1>1. n \in Configs /\ n.key \in LlmKeys \cup {Empty} /\ n # NoConfig
  BY FleetAssumption DEF Configs, Keys, FleetContents, NoConfig
<1>2. configProfile' = [configProfile EXCEPT ![p] = n]
      /\ UNCHANGED <<fleet, mapping, operator, typedKey, unsettled>>
  BY DEF SaveConfigProfile
<1>. HIDE DEF n
<1>3. FleetTypes'
  BY <1>0, <1>1, <1>2 DEF FleetTypes
<1>4. \A r \in ConfigProfiles : configProfile'[r] = IF r = p THEN n ELSE configProfile[r]
  BY <1>0, <1>2 DEF FleetTypes
<1>5. KeysFit'
  BY <1>1, <1>2, <1>4 DEF FleetInv, KeysFit
<1>6. MappedExist'
  <2>. SUFFICES ASSUME NEW h \in ConfigHosts, mapping'[h] # Empty
                PROVE  configProfile'[mapping'[h]] # NoConfig
    BY DEF MappedExist
  <2>1. mapping[h] \in ConfigProfiles /\ configProfile[mapping[h]] # NoConfig
    BY <1>0, <1>2 DEF FleetTypes, FleetInv, MappedExist
  <2>. QED  BY <2>1, <1>1, <1>2, <1>4
<1>7. ~ unsettled' => fleet'.key = typedKey' /\ OneSave' /\ Carried'
  BY <1>2 DEF FleetInv, OneSave, Saving, Carried
<1>. QED  BY <1>3, <1>5, <1>6, <1>7 DEF FleetInv

\* A profile goes together with the hosts' mappings to it.
LEMMA DeleteConfigProfileInv ==
    ASSUME FleetInv, NEW p \in ConfigProfiles, DeleteConfigProfile(p)
    PROVE  FleetInv'
<1>0. FleetTypes
  BY DEF FleetInv
<1>1. configProfile' = [configProfile EXCEPT ![p] = NoConfig] /\ mapping' = Unmapped(p)
      /\ UNCHANGED <<fleet, operator, typedKey, unsettled>>
  BY DEF DeleteConfigProfile
<1>2. \A h \in ConfigHosts : mapping'[h] = IF mapping[h] = p THEN Empty ELSE mapping[h]
  BY <1>1 DEF Unmapped
<1>3. FleetTypes'
  <2>1. mapping' \in [ConfigHosts -> ConfigProfiles \cup {Empty}]
    BY <1>0, <1>1 DEF FleetTypes, Unmapped
  <2>. QED  BY <1>0, <1>1, <2>1, FleetDistinct DEF FleetTypes
<1>4. \A r \in ConfigProfiles : configProfile'[r] = IF r = p THEN NoConfig ELSE configProfile[r]
  BY <1>0, <1>1 DEF FleetTypes
<1>5. KeysFit'
  BY <1>1, <1>4 DEF FleetInv, KeysFit, NoConfig
<1>6. MappedExist'
  <2>. SUFFICES ASSUME NEW h \in ConfigHosts, mapping'[h] # Empty
                PROVE  configProfile'[mapping'[h]] # NoConfig
    BY DEF MappedExist
  <2>1. mapping'[h] = mapping[h] /\ mapping[h] # p
    BY <1>2
  <2>2. mapping[h] \in ConfigProfiles /\ configProfile[mapping[h]] # NoConfig
    BY <1>0, <2>1 DEF FleetTypes, FleetInv, MappedExist
  <2>. QED  BY <2>1, <2>2, <1>4
<1>7. ~ unsettled' => fleet'.key = typedKey' /\ OneSave' /\ Carried'
  BY <1>1 DEF FleetInv, OneSave, Saving, Carried
<1>. QED  BY <1>3, <1>5, <1>6, <1>7 DEF FleetInv

\* A host is mapped to a profile that exists, or to none.
LEMMA MapAgentInv ==
    ASSUME FleetInv, NEW h \in ConfigHosts, NEW p \in ConfigProfiles \cup {Empty},
           MapAgentToProfile(h, p)
    PROVE  FleetInv'
<1>0. FleetTypes
  BY DEF FleetInv
<1>1. mapping' = [mapping EXCEPT ![h] = p] /\ (p # Empty => configProfile[p] # NoConfig)
      /\ UNCHANGED <<fleet, configProfile, operator, typedKey, unsettled>>
  BY DEF MapAgentToProfile
<1>2. FleetTypes'
  BY <1>0, <1>1 DEF FleetTypes
<1>3. KeysFit'
  BY <1>1 DEF FleetInv, KeysFit
<1>4. MappedExist'
  BY <1>0, <1>1 DEF FleetInv, FleetTypes, MappedExist
<1>5. ~ unsettled' => fleet'.key = typedKey' /\ OneSave' /\ Carried'
  BY <1>1 DEF FleetInv, OneSave, Saving, Carried
<1>. QED  BY <1>2, <1>3, <1>4, <1>5 DEF FleetInv

\* Every step of the fleet's configuration preserves the invariant.
LEMMA FleetStep == FleetInv /\ [FleetNext]_fleetVars => FleetInv'
<1>. SUFFICES ASSUME FleetInv, [FleetNext]_fleetVars PROVE FleetInv'
  OBVIOUS
<1>1. ASSUME NEW o \in Operators, NEW h \in ConfigHosts, OpenForm(o, h) PROVE FleetInv'
  BY <1>1, OpenFormInv
<1>2. ASSUME NEW o \in Operators, NEW key \in LlmKeys \cup {Empty, Mask}, NEW s \in FleetSettings,
             SubmitForm(o, key, s)
      PROVE  FleetInv'
  BY <1>2, SubmitFormInv
<1>3. ASSUME NEW o \in Operators, NEW ok \in BOOLEAN, KeepKey(o, ok) PROVE FleetInv'
  BY <1>3, KeepKeyInv
<1>4. ASSUME NEW o \in Operators, NEW ok \in BOOLEAN, UpdateFleetConfig(o, ok) PROVE FleetInv'
  BY <1>4, UpdateFleetConfigInv
<1>5. ASSUME NEW p \in ConfigProfiles, NEW key \in LlmKeys \cup {Empty, Mask},
             NEW s \in FleetSettings, SaveConfigProfile(p, key, s)
      PROVE  FleetInv'
  BY <1>5, SaveConfigProfileInv
<1>6. ASSUME NEW p \in ConfigProfiles, DeleteConfigProfile(p) PROVE FleetInv'
  BY <1>6, DeleteConfigProfileInv
<1>7. ASSUME NEW h \in ConfigHosts, NEW p \in ConfigProfiles \cup {Empty}, MapAgentToProfile(h, p)
      PROVE  FleetInv'
  BY <1>7, MapAgentInv
<1>8. CASE UNCHANGED fleetVars
  BY <1>8 DEF fleetVars, FleetInv, FleetTypes, KeysFit, MappedExist, OneSave, Saving, Carried
<1>. QED  BY <1>1, <1>2, <1>3, <1>4, <1>5, <1>6, <1>7, <1>8 DEF FleetNext

\* The configurations, forms and mappings stay well formed: the mask of GetFleetConfig
\* is never stored as the key of a profile, and deleting a profile leaves no host mapped
\* to it.
THEOREM FleetTypeCorrect == FleetSpec => []FleetTypeOK
<1>1. FleetInv => FleetTypeOK
  BY DEF FleetInv, FleetTypes, KeysFit, MappedExist, FleetTypeOK, Configs, Keys, Forms
<1>. QED  BY FleetInitInv, FleetStep, <1>1, PTL DEF FleetSpec

\* As long as no two saves overlap and no look failed, the fleet's LLM key is the one an
\* operator last typed: saving a masked form never stores the mask and never loses the key.
THEOREM FleetKeyStays == FleetSpec => []FleetKeyIsKept
<1>1. FleetInv => FleetKeyIsKept
  BY DEF FleetInv, FleetKeyIsKept
<1>. QED  BY FleetInitInv, FleetStep, <1>1, PTL DEF FleetSpec

-----------------------------------------------------------------------------
(* PolicyProfiles: what a restart brings back                              *)

\* What a file and a request may hold
Names == Versions \cup {NoVersion}
PolicyFile == [version : Names, profile : Contents]
Request == [at : {"idle", "printing", "writing", "removing"}, version : Names, profile : Contents]

\* The shape of the engine's map, of the directory and of the requests
PolicyTypes ==
    /\ profiles \in [Versions -> Contents] /\ active \in Versions
    /\ policyFiles \in [Files -> PolicyFile] /\ saver \in [Savers -> Request]
    /\ unsure \subseteq Versions

\* A file that can be read holds a profile.
FilesFit(files) ==
    \A f \in Files : files[f].version # NoVersion => files[f].profile # NoProfile

\* A request knows the version it is about until it is over.
SaversFit ==
    \A r \in Savers :
        /\ saver[r].at # "idle" => saver[r].version \in Versions
        /\ saver[r].at \in {"printing", "writing"} => saver[r].profile \in Settings
        /\ saver[r].at = "removing" => saver[r].profile = NoProfile

\* Request r is between its change of the map and its change of v's file.
Pending(r, v) == saver[r].at # "idle" /\ saver[r].version = v

\* A version that nothing happened to and that no request is changing is in the map what
\* the next start would make of it.
SettledAgree ==
    \A v \in Versions \ unsure :
        (\A r \in Savers : ~ Pending(r, v)) => profiles[v] = LoadedProfiles(policyFiles)[v]

\* One that a request is changing is in the map what the request makes of it; no other
\* request is about it, no other file holds it, and its own will read the same.
PendingAgree ==
    \A v \in Versions \ unsure : \A r \in Savers : Pending(r, v) =>
        /\ profiles[v] = saver[r].profile /\ ~ Elsewhere(v)
        /\ saver[r].at = "printing" => Survives(saver[r].profile)
        /\ saver[r].at = "removing" => v # BuiltIn
        /\ \A q \in Savers : Pending(q, v) => q = r

\* ProfilesArePersistent speaks of versions that no request is changing, and is not
\* inductive: the second half of a request makes the directory agree with the map only
\* because the first half has left the map as PendingAgree says.
PolicyInv ==
    /\ PolicyTypes /\ FilesFit(policyFiles) /\ SaversFit /\ ActiveIsDefined
    /\ SettledAgree /\ PendingAgree

\* A printed confidence is a number again.
LEMMA RoundedType ==
    ASSUME NEW p \in ProfileRecords
    PROVE  Rounded(p) \in ProfileRecords
<1>1. p.confidence \in Int
  BY DEF ProfileRecords
<1>2. ((p.confidence + 5) \div 10) * 10 \in Int
  BY <1>1
<1>. HIDE DEF ProfileRecords
<1>3. ASSUME NEW c \in Int PROVE [p EXCEPT !.confidence = c] \in ProfileRecords
  BY Zenon DEF ProfileRecords
<1>. QED  BY <1>2, <1>3 DEF Rounded

\* The absence of a profile is neither a profile nor a version.
LEMMA PolicyConstants ==
    /\ NistProfile # NoProfile /\ NistProfile \in Contents /\ NoProfile \in Contents
    /\ Settings \subseteq Contents /\ \A p \in Settings : Rounded(p) \in Contents
    /\ \A p \in Settings : p # NoProfile /\ Rounded(p) # NoProfile
    /\ \A p \in Contents : p = NoProfile \/ p \in ProfileRecords
    /\ NoFile \in PolicyFile /\ NoSave \in Request /\ NoSave.at = "idle"
    /\ NoFile.version = NoVersion /\ NoVersion \notin Versions /\ BuiltIn \in Versions
    /\ FileOf \in [Versions -> Files] /\ NistFiles \subseteq Files
    /\ Shipped \in [Files -> PolicyFile] /\ FilesFit(Shipped)
<1>1. NistProfile # NoProfile
  BY DEF NistProfile, NoProfile
<1>2. NistProfile \in Contents /\ NoProfile \in Contents /\ Settings \subseteq Contents
      /\ \A p \in Settings : Rounded(p) \in Contents
  BY DEF Contents
<1>3. NoFile \in PolicyFile /\ NoSave \in Request /\ NoSave.at = "idle" /\ NoFile.version = NoVersion
  BY <1>2 DEF NoFile, NoSave, PolicyFile, Request, Names
<1>4. \A p \in ProfileRecords : p.bits \in Nat
  BY DEF ProfileRecords
<1>5. NoProfile.bits \notin Nat
  BY DEF NoProfile
<1>6. \A p \in ProfileRecords : p # NoProfile
  BY <1>4, <1>5
<1>7. \A p \in Settings : p # NoProfile /\ Rounded(p) # NoProfile
  BY <1>6, RoundedType, AssessmentAssumption
<1>8. NistProfile \in ProfileRecords
  BY DEF NistProfile, ProfileRecords
<1>9. \A f \in Files : Shipped[f] \in [version : Versions \cup {NoVersion}, profile : ProfileRecords \cup {NoProfile}]
  BY PolicyAssumption
<1>10. \A f \in Files : Shipped[f].profile \in ProfileRecords \cup {NoProfile}
                        /\ Shipped[f].version \in Names
                        /\ Shipped[f] = [version |-> Shipped[f].version, profile |-> Shipped[f].profile]
  BY <1>9, Zenon DEF Names
<1>11. \A p \in Contents : p = NoProfile \/ p \in ProfileRecords
  BY <1>8, <1>10, RoundedType, AssessmentAssumption DEF Contents
<1>12. \A f \in Files : Shipped[f] \in PolicyFile
  <2>1. \A f \in Files : Shipped[f].profile \in Contents
    BY DEF Contents
  <2>2. \A a \in Names, b \in Contents : [version |-> a, profile |-> b] \in PolicyFile
    BY DEF PolicyFile
  <2>. QED  BY <2>1, <2>2, <1>10, Zenon
<1>13. Shipped \in [Files -> PolicyFile]
  BY <1>12, PolicyAssumption
<1>14. FilesFit(Shipped)
  BY PolicyAssumption DEF FilesFit
<1>. QED  BY <1>1, <1>2, <1>3, <1>7, <1>11, <1>13, <1>14, PolicyAssumption

\* Among some of the files there is a last one.
LEMMA LastFile ==
    ASSUME NEW named \in SUBSET Files, named # {}
    PROVE  Max(named) \in named
<1>1. IsFiniteSet(1 .. NFiles) /\ 1 .. NFiles \subseteq Int
  BY PolicyAssumption, FS_Interval
<1>2. IsFiniteSet(named) /\ named \subseteq Int
  BY <1>1, FS_Subset DEF Files
<1>. QED  BY <1>2, MinMax

\* NewEngine makes of every version what some file of the version holds; without such a
\* file it knows the built-in version only.
LEMMA LoadedFrom ==
    ASSUME NEW files \in [Files -> PolicyFile], NEW v \in Versions
    PROVE  LET named == {f \in Files : files[f].version = v}
           IN  /\ named # {} => LoadedProfiles(files)[v] = files[Max(named)].profile /\ Max(named) \in named
               /\ named = {} => LoadedProfiles(files)[v] = IF v = BuiltIn THEN NistProfile ELSE NoProfile
<1>. DEFINE named == {f \in Files : files[f].version = v}
<1>1. LoadedProfiles(files)[v] =
        IF named # {} THEN files[Max(named)].profile
        ELSE IF v = BuiltIn THEN NistProfile ELSE NoProfile
  BY DEF LoadedProfiles
<1>2. named # {} => Max(named) \in named
  BY LastFile
<1>. QED  BY <1>1, <1>2, Zenon

\* A start knows the built-in version, and the one it makes active.
LEMMA LoadedFits ==
    ASSUME NEW files \in [Files -> PolicyFile], FilesFit(files)
    PROVE  /\ LoadedProfiles(files) \in [Versions -> Contents]
           /\ ActiveAtStart(files) \in Versions
           /\ LoadedProfiles(files)[ActiveAtStart(files)] # NoProfile
<1>1. \A f \in Files : files[f].version \in Names /\ files[f].profile \in Contents
  BY DEF PolicyFile
<1>2. ASSUME NEW v \in Versions
      PROVE  /\ LoadedProfiles(files)[v] \in Contents
             /\ LoadedProfiles(files)[v] = NoProfile
                  => v # BuiltIn /\ \A f \in Files : files[f].version # v
  <2>. DEFINE named == {f \in Files : files[f].version = v}
  <2>1. CASE named # {}
    <3>1. LoadedProfiles(files)[v] = files[Max(named)].profile /\ Max(named) \in named
      BY <2>1, LoadedFrom, Zenon
    <3>. QED  BY <3>1, <1>1, PolicyConstants DEF FilesFit
  <2>2. CASE named = {}
    <3>1. LoadedProfiles(files)[v] = IF v = BuiltIn THEN NistProfile ELSE NoProfile
      BY <2>2, LoadedFrom, Zenon
    <3>. QED  BY <3>1, <2>2, PolicyConstants
  <2>. QED  BY <2>1, <2>2
<1>3. LoadedProfiles(files) \in [Versions -> Contents]
  <2>1. LoadedProfiles(files) = [v \in Versions |-> LoadedProfiles(files)[v]]
    BY DEF LoadedProfiles
  <2>. QED  BY <2>1, <1>2
<1>. DEFINE nist == {f \in NistFiles : files[f].version # NoVersion}
<1>4. CASE nist # {}
  <2>1. Max(nist) \in nist
    BY <1>4, LastFile, PolicyConstants
  <2>2. ActiveAtStart(files) = files[Max(nist)].version
    BY <1>4 DEF ActiveAtStart
  <2>3. Max(nist) \in Files /\ files[Max(nist)].version # NoVersion
    BY <2>1, PolicyConstants
  <2>4. ActiveAtStart(files) \in Versions
    BY <2>2, <2>3, <1>1 DEF Names
  <2>. QED  BY <2>2, <2>3, <2>4, <1>2, <1>3
<1>5. CASE nist = {}
  <2>1. ActiveAtStart(files) = BuiltIn
    BY <1>5 DEF ActiveAtStart
  <2>. QED  BY <2>1, <1>2, <1>3, PolicyConstants
<1>. QED  BY <1>4, <1>5

\* A change of one file is seen only by the versions it held and holds.
LEMMA LoadedElsewhere ==
    ASSUME NEW files \in [Files -> PolicyFile], NEW after \in [Files -> PolicyFile], NEW v \in Versions,
           \A f \in Files : after[f] = files[f] \/ (files[f].version # v /\ after[f].version # v)
    PROVE  LoadedProfiles(after)[v] = LoadedProfiles(files)[v]
<1>. DEFINE before == {f \in Files : files[f].version = v}
            now == {f \in Files : after[f].version = v}
<1>2. now = before /\ \A f \in before : after[f] = files[f]
  OBVIOUS
<1>3. CASE before = {}
  <2>1. /\ LoadedProfiles(files)[v] = IF v = BuiltIn THEN NistProfile ELSE NoProfile
        /\ LoadedProfiles(after)[v] = IF v = BuiltIn THEN NistProfile ELSE NoProfile
    BY <1>2, <1>3, LoadedFrom, Zenon
  <2>. QED  BY <2>1
<1>4. CASE before # {}
  <2>1. LoadedProfiles(files)[v] = files[Max(before)].profile /\ Max(before) \in before
    BY <1>4, LoadedFrom, Zenon
  <2>2. LoadedProfiles(after)[v] = after[Max(now)].profile
    BY <1>2, <1>4, LoadedFrom, Zenon
  <2>. QED  BY <2>1, <2>2, <1>2
<1>. QED  BY <1>3, <1>4

\* The engine starts from the files of the repository.
LEMMA PolicyInitInv == PolicyInit => PolicyInv
<1>. SUFFICES ASSUME PolicyInit PROVE PolicyInv
  OBVIOUS
<1>1. /\ policyFiles = Shipped /\ profiles = LoadedProfiles(policyFiles)
      /\ active = ActiveAtStart(policyFiles) /\ saver = [r \in Savers |-> NoSave] /\ unsure = {}
      /\ assessed = NotAssessed
  BY DEF PolicyInit
<1>2. policyFiles \in [Files -> PolicyFile] /\ FilesFit(policyFiles)
  BY <1>1, PolicyConstants
<1>3. /\ LoadedProfiles(policyFiles) \in [Versions -> Contents] /\ ActiveAtStart(policyFiles) \in Versions
      /\ LoadedProfiles(policyFiles)[ActiveAtStart(policyFiles)] # NoProfile
  BY <1>2, LoadedFits
<1>4. saver \in [Savers -> Request] /\ \A r \in Savers : saver[r].at = "idle"
  BY <1>1, PolicyConstants
<1>5. PolicyTypes
  BY <1>1, <1>2, <1>3, <1>4 DEF PolicyTypes
<1>6. ActiveIsDefined
  BY <1>1, <1>3 DEF ActiveIsDefined, Defined
<1>7. SaversFit /\ PendingAgree
  BY <1>4 DEF SaversFit, PendingAgree, Pending
<1>8. SettledAgree
  BY <1>1 DEF SettledAgree
<1>. QED  BY <1>2, <1>5, <1>6, <1>7, <1>8 DEF PolicyInv

\* The first half of a request changes the map, and leaves the file for later.
LEMMA MemoryFirst ==
    ASSUME PolicyInv, NEW r \in Savers, NEW v \in Versions, NEW p \in Contents,
           NEW kind \in {"printing", "writing", "removing"},
           kind \in {"printing", "writing"} => p \in Settings,
           kind = "removing" => p = NoProfile /\ v # active,
           saver[r] = NoSave, profiles' = [profiles EXCEPT ![v] = p],
           saver' = [saver EXCEPT ![r] = [at |-> kind, version |-> v, profile |-> p]],
           unsure' = unsure \/ unsure' = unsure \cup {v},
           v \notin unsure' => /\ ~ Busy(v) /\ ~ Elsewhere(v)
                               /\ kind = "printing" => Survives(p)
                               /\ kind = "removing" => v # BuiltIn,
           assessed' = NotAssessed, active' = active, policyFiles' = policyFiles
    PROVE  PolicyInv'
<1>. DEFINE n == [at |-> kind, version |-> v, profile |-> p]
<1>0. PolicyTypes
  BY DEF PolicyInv
<1>1. /\ saver[r] = NoSave /\ profiles' = [profiles EXCEPT ![v] = p]
      /\ saver' = [saver EXCEPT ![r] = n] /\ assessed' = NotAssessed
      /\ active' = active /\ policyFiles' = policyFiles
  OBVIOUS
<1>2. n \in Request /\ n.at = kind /\ n.version = v /\ n.profile = p /\ n.at # "idle"
  BY DEF Request, Names
<1>. HIDE DEF n
<1>3. unsure \subseteq unsure' /\ unsure' \subseteq Versions /\ (unsure' \subseteq unsure \cup {v})
  BY <1>0 DEF PolicyTypes
<1>4. PolicyTypes'
  BY <1>0, <1>1, <1>2, <1>3 DEF PolicyTypes
<1>5. saver'[r] = n /\ \A q \in Savers \ {r} : saver'[q] = saver[q]
  BY <1>0, <1>1 DEF PolicyTypes
<1>6. SaversFit'
  BY <1>2, <1>5 DEF PolicyInv, SaversFit
<1>7. \A w \in Versions : profiles'[w] = IF w = v THEN p ELSE profiles[w]
  BY <1>0, <1>1 DEF PolicyTypes
<1>8. ActiveIsDefined'
  BY <1>0, <1>1, <1>2, <1>7, PolicyConstants DEF PolicyInv, ActiveIsDefined, Defined, PolicyTypes
<1>9. \A w \in Versions : /\ Pending(r, w)' <=> w = v
                          /\ ~ Pending(r, w)
                          /\ \A q \in Savers \ {r} : Pending(q, w)' <=> Pending(q, w)
                          /\ Elsewhere(w)' <=> Elsewhere(w)
  BY <1>1, <1>2, <1>5, PolicyConstants DEF Pending, Elsewhere
<1>10. SettledAgree'
  <2>. SUFFICES ASSUME NEW w \in Versions \ unsure', \A q \in Savers : ~ Pending(q, w)'
                PROVE  profiles'[w] = LoadedProfiles(policyFiles')[w]
    BY DEF SettledAgree
  <2>1. w # v /\ w \notin unsure /\ \A q \in Savers : ~ Pending(q, w)
    BY <1>3, <1>9
  <2>. QED  BY <2>1, <1>1, <1>7 DEF PolicyInv, SettledAgree
<1>11. PendingAgree'
  <2>. SUFFICES ASSUME NEW w \in Versions \ unsure', NEW q \in Savers, Pending(q, w)'
                PROVE  /\ profiles'[w] = saver'[q].profile /\ ~ Elsewhere(w)'
                       /\ saver'[q].at = "printing" => Survives(saver'[q].profile)
                       /\ saver'[q].at = "removing" => w # BuiltIn
                       /\ \A x \in Savers : Pending(x, w)' => x = q
    BY DEF PendingAgree
  <2>1. CASE w = v
    <3>1. ~ Busy(v) /\ ~ Elsewhere(v) /\ (kind = "printing" => Survives(p)) /\ (kind = "removing" => v # BuiltIn)
      BY <2>1
    <3>2. \A x \in Savers \ {r} : ~ Pending(x, v)'
      BY <3>1, <1>9 DEF Busy, Pending
    <3>3. q = r
      BY <2>1, <3>2
    <3>. QED  BY <2>1, <3>1, <3>2, <3>3, <1>2, <1>5, <1>7, <1>9
  <2>2. CASE w # v
    <3>1. q # r /\ Pending(q, w) /\ w \notin unsure
      BY <2>2, <1>3, <1>9
    <3>2. /\ profiles[w] = saver[q].profile /\ ~ Elsewhere(w)
          /\ saver[q].at = "printing" => Survives(saver[q].profile)
          /\ saver[q].at = "removing" => w # BuiltIn
          /\ \A x \in Savers : Pending(x, w) => x = q
      BY <3>1 DEF PolicyInv, PendingAgree
    <3>. QED  BY <2>2, <3>1, <3>2, <1>5, <1>7, <1>9
  <2>. QED  BY <2>1, <2>2
<1>. QED  BY <1>1, <1>4, <1>6, <1>8, <1>10, <1>11 DEF PolicyInv, FilesFit

\* A save stores the profile in the map first.
LEMMA SaveProfileInv ==
    ASSUME PolicyInv, NEW r \in Savers, NEW v \in Versions, NEW p \in Settings,
           NEW how \in {"printing", "writing"}, SaveProfile(r, v, p, how)
    PROVE  PolicyInv'
<1>1. p \in Contents
  BY DEF Contents
<1>2. /\ unsure' = unsure \/ unsure' = unsure \cup {v}
      /\ v \notin unsure' => ~ Busy(v) /\ ~ Elsewhere(v) /\ (how = "printing" => Survives(p))
  BY DEF SaveProfile
<1>3. /\ saver[r] = NoSave /\ profiles' = [profiles EXCEPT ![v] = p]
      /\ saver' = [saver EXCEPT ![r] = [at |-> how, version |-> v, profile |-> p]]
      /\ assessed' = NotAssessed /\ active' = active /\ policyFiles' = policyFiles
  BY DEF SaveProfile
<1>. QED  BY <1>1, <1>2, <1>3, MemoryFirst

\* A removal takes the profile out of the map first.
LEMMA RemoveProfileInv ==
    ASSUME PolicyInv, NEW r \in Savers, NEW v \in Versions, RemoveProfile(r, v)
    PROVE  PolicyInv'
<1>1. /\ unsure' = unsure \/ unsure' = unsure \cup {v}
      /\ v \notin unsure' => ~ Busy(v) /\ ~ Elsewhere(v) /\ v # BuiltIn
  BY DEF RemoveProfile
<1>2. /\ saver[r] = NoSave /\ profiles' = [profiles EXCEPT ![v] = NoProfile] /\ v # active
      /\ saver' = [saver EXCEPT ![r] = [at |-> "removing", version |-> v, profile |-> NoProfile]]
      /\ assessed' = NotAssessed /\ active' = active /\ policyFiles' = policyFiles
  BY DEF RemoveProfile, Removable
<1>. QED  BY <1>1, <1>2, PolicyConstants, MemoryFirst

\* The second half makes the file what the map already says, or tells that it does not,
\* and the request is over.
LEMMA FileSecond ==
    ASSUME PolicyInv, NEW r \in Savers, saver[r].at # "idle", NEW n \in PolicyFile,
           EndSave(r, n), n.version # NoVersion => n.profile # NoProfile,
           n.version \in {saver[r].version, NoVersion} \/ n = policyFiles[FileOf[saver[r].version]],
           unsure \subseteq unsure', unsure' \subseteq Versions,
           n = policyFiles[FileOf[saver[r].version]] \/ Displaced(saver[r].version) \subseteq unsure',
           saver[r].version \notin unsure' =>
             IF saver[r].at = "removing" THEN n = NoFile
             ELSE n.version = saver[r].version
                  /\ (saver[r].at = "writing" \/ Survives(saver[r].profile)
                        => n.profile = saver[r].profile)
    PROVE  PolicyInv'
<1>. DEFINE v == saver[r].version
            g == FileOf[v]
<1>0. PolicyTypes
  BY DEF PolicyInv
<1>1. /\ saver' = [saver EXCEPT ![r] = NoSave] /\ policyFiles' = [policyFiles EXCEPT ![g] = n]
      /\ assessed' = NotAssessed /\ profiles' = profiles /\ active' = active
  BY DEF EndSave
<1>2. v \in Versions /\ g \in Files
      /\ saver[r].at \in {"printing", "writing", "removing"}
      /\ (saver[r].at = "removing" => saver[r].profile = NoProfile)
  <2>1. v \in Versions /\ (saver[r].at = "removing" => saver[r].profile = NoProfile)
    BY DEF PolicyInv, SaversFit
  <2>2. saver[r] \in Request
    BY <1>0 DEF PolicyTypes
  <2>3. saver[r].at \in {"printing", "writing", "removing"}
    BY <2>2 DEF Request
  <2>. QED  BY <2>1, <2>3, PolicyConstants
<1>3. policyFiles'[g] = n /\ \A f \in Files \ {g} : policyFiles'[f] = policyFiles[f]
  BY <1>0, <1>1, <1>2 DEF PolicyTypes
<1>4. policyFiles \in [Files -> PolicyFile] /\ policyFiles' \in [Files -> PolicyFile]
  BY <1>0, <1>1 DEF PolicyTypes
<1>5. PolicyTypes'
  BY <1>0, <1>1, <1>4, PolicyConstants DEF PolicyTypes
<1>6. saver'[r] = NoSave /\ \A q \in Savers \ {r} : saver'[q] = saver[q]
  BY <1>0, <1>1 DEF PolicyTypes
<1>7. SaversFit'
  BY <1>6, PolicyConstants DEF PolicyInv, SaversFit
<1>8. FilesFit(policyFiles)'
  BY <1>3 DEF PolicyInv, FilesFit
<1>9. ActiveIsDefined'
  BY <1>1 DEF PolicyInv, ActiveIsDefined, Defined
<1>10. \A w \in Versions : ~ Pending(r, w)' /\ \A q \in Savers \ {r} : Pending(q, w)' <=> Pending(q, w)
  BY <1>6, PolicyConstants DEF Pending
<1>11. /\ n.version \in {v, NoVersion} \/ n = policyFiles[g]
       /\ n = policyFiles[g] \/ Displaced(v) \subseteq unsure'
       /\ v \notin unsure' =>
             IF saver[r].at = "removing" THEN n = NoFile
             ELSE n.version = v
                  /\ (saver[r].at = "writing" \/ Survives(saver[r].profile)
                        => n.profile = saver[r].profile)
  OBVIOUS
<1>12. Pending(r, v)
  BY DEF Pending
<1>13. Displaced(v) = {policyFiles[g].version} \ {v, NoVersion}
  BY DEF Displaced
<1>14. \A w \in Versions : Elsewhere(w) <=> \E f \in Files \ {FileOf[w]} : policyFiles[f].version = w
  BY DEF Elsewhere
<1>15. \A w \in Versions : Elsewhere(w)' <=> \E f \in Files \ {FileOf[w]} : policyFiles'[f].version = w
  BY DEF Elsewhere
<1>. HIDE DEF g
<1>16. g = FileOf[v]
  BY DEF g
<1>. HIDE DEF v
<1>17. ASSUME NEW w \in Versions, ~ Elsewhere(w) PROVE ~ Elsewhere(w)'
  BY <1>3, <1>11, <1>14, <1>15, <1>16, <1>17, PolicyConstants
<1>18. PendingAgree'
  <2>. SUFFICES ASSUME NEW w \in Versions \ unsure', NEW q \in Savers, Pending(q, w)'
                PROVE  /\ profiles'[w] = saver'[q].profile /\ ~ Elsewhere(w)'
                       /\ saver'[q].at = "printing" => Survives(saver'[q].profile)
                       /\ saver'[q].at = "removing" => w # BuiltIn
                       /\ \A x \in Savers : Pending(x, w)' => x = q
    BY DEF PendingAgree
  <2>1. q # r /\ Pending(q, w) /\ w \notin unsure
    BY <1>10
  <2>2. /\ profiles[w] = saver[q].profile /\ ~ Elsewhere(w)
        /\ saver[q].at = "printing" => Survives(saver[q].profile)
        /\ saver[q].at = "removing" => w # BuiltIn
        /\ \A x \in Savers : Pending(x, w) => x = q
    BY <2>1 DEF PolicyInv, PendingAgree
  <2>. QED  BY <2>1, <2>2, <1>1, <1>6, <1>10, <1>17
<1>19. SettledAgree'
  <2>. SUFFICES ASSUME NEW w \in Versions \ unsure', \A q \in Savers : ~ Pending(q, w)'
                PROVE  profiles'[w] = LoadedProfiles(policyFiles')[w]
    BY DEF SettledAgree
  <2>1. w \notin unsure
    OBVIOUS
  <2>2. CASE w = v
    <3>1. /\ profiles[v] = saver[r].profile /\ ~ Elsewhere(v)
          /\ saver[r].at = "printing" => Survives(saver[r].profile)
          /\ saver[r].at = "removing" => v # BuiltIn
      BY <2>1, <2>2, <1>12 DEF PolicyInv, PendingAgree
    <3>. DEFINE named == {f \in Files : policyFiles'[f].version = v}
    <3>2. \A f \in Files \ {g} : f \notin named
      BY <3>1, <1>3, <1>14, <1>16, <2>2
    <3>3. CASE saver[r].at = "removing"
      <4>1. n.version = NoVersion
        BY <3>3, <1>11, <2>2, PolicyConstants
      <4>2. named = {}
        BY <4>1, <3>2, <1>2, <1>3, PolicyConstants
      <4>3. LoadedProfiles(policyFiles')[v] = IF v = BuiltIn THEN NistProfile ELSE NoProfile
        BY <4>2, <1>2, <1>4, LoadedFrom, Zenon
      <4>. QED  BY <4>3, <3>1, <3>3, <2>2, <1>1, <1>2
    <3>4. CASE saver[r].at # "removing"
      <4>1. n.version = v /\ n.profile = saver[r].profile
        BY <3>1, <3>4, <1>2, <1>11, <2>2
      <4>2. g \in named /\ named = {g}
        BY <4>1, <3>2, <1>2, <1>3
      <4>3. LoadedProfiles(policyFiles')[v] = policyFiles'[Max(named)].profile /\ Max(named) \in named
        BY <4>2, <1>2, <1>4, LoadedFrom, Zenon
      <4>4. Max(named) = g
        BY <4>2, <4>3
      <4>. QED  BY <4>1, <4>3, <4>4, <3>1, <2>2, <1>1, <1>3
    <3>. QED  BY <3>3, <3>4
  <2>3. CASE w # v
    <3>1. \A q \in Savers : ~ Pending(q, w)
      <4>1. ~ Pending(r, w)
        BY <2>3 DEF Pending, v
      <4>. QED  BY <4>1, <1>10
    <3>2. profiles[w] = LoadedProfiles(policyFiles)[w]
      BY <2>1, <3>1 DEF PolicyInv, SettledAgree
    <3>3. CASE n = policyFiles[g]
      <4>1. policyFiles' = policyFiles
        BY <3>3, <1>1, <1>2, <1>4
      <4>. QED  BY <4>1, <3>2, <1>1
    <3>4. CASE n # policyFiles[g]
      <4>1. policyFiles[g].version # w /\ n.version # w
        BY <2>3, <3>4, <1>11, <1>13, PolicyConstants
      <4>2. LoadedProfiles(policyFiles')[w] = LoadedProfiles(policyFiles)[w]
        <5>1. \A f \in Files : policyFiles'[f] = policyFiles[f]
                               \/ (policyFiles[f].version # w /\ policyFiles'[f].version # w)
          BY <4>1, <1>3
        <5>. QED  BY <5>1, <1>4, LoadedElsewhere
      <4>. QED  BY <4>2, <3>2, <1>1
    <3>. QED  BY <3>3, <3>4
  <2>. QED  BY <2>2, <2>3
<1>. QED  BY <1>5, <1>7, <1>8, <1>9, <1>18, <1>19 DEF PolicyInv

\* What a request in progress is about
LEMMA InProgress ==
    ASSUME PolicyInv, NEW r \in Savers, saver[r].at # "idle"
    PROVE  /\ saver[r].version \in Versions /\ policyFiles[FileOf[saver[r].version]] \in PolicyFile
           /\ saver[r].at \in {"printing", "writing"} => saver[r].profile \in Settings
           /\ unsure \subseteq Versions /\ Displaced(saver[r].version) \subseteq Versions
           /\ LET f == policyFiles[FileOf[saver[r].version]]
              IN  f.version # NoVersion => f.profile # NoProfile
<1>1. saver[r].version \in Versions /\ (saver[r].at \in {"printing", "writing"} => saver[r].profile \in Settings)
  BY DEF PolicyInv, SaversFit
<1>2. FileOf[saver[r].version] \in Files
  BY <1>1, PolicyConstants
<1>3. policyFiles[FileOf[saver[r].version]] \in PolicyFile /\ unsure \subseteq Versions
  BY <1>2 DEF PolicyInv, PolicyTypes
<1>4. policyFiles[FileOf[saver[r].version]].version \in Names
  BY <1>3 DEF PolicyFile
<1>5. Displaced(saver[r].version) \subseteq Versions
  BY <1>4 DEF Displaced, Names
<1>6. LET f == policyFiles[FileOf[saver[r].version]] IN f.version # NoVersion => f.profile # NoProfile
  BY <1>2 DEF PolicyInv, FilesFit
<1>. QED  BY <1>1, <1>3, <1>5, <1>6

\* The file is written as the request says, or printed.
LEMMA WriteFileInv ==
    ASSUME PolicyInv, NEW r \in Savers, WriteFile(r)
    PROVE  PolicyInv'
<1>1. saver[r].at \in {"printing", "writing"} /\ unsure' = unsure \cup Displaced(saver[r].version)
  BY DEF WriteFile
<1>2. /\ saver[r].version \in Versions /\ saver[r].profile \in Settings
      /\ unsure \subseteq Versions /\ Displaced(saver[r].version) \subseteq Versions
  BY <1>1, InProgress
<1>3. CASE saver[r].at = "writing"
  <2>. DEFINE n == [version |-> saver[r].version, profile |-> saver[r].profile]
  <2>1. EndSave(r, n)
    BY <1>3 DEF WriteFile
  <2>2. n \in PolicyFile /\ n.version = saver[r].version /\ n.profile = saver[r].profile /\ n.profile # NoProfile
    BY <1>2, PolicyConstants DEF PolicyFile, Names
  <2>. HIDE DEF n
  <2>. QED  BY <1>1, <1>2, <1>3, <2>1, <2>2, FileSecond
<1>4. CASE saver[r].at = "printing"
  <2>. DEFINE n == Printed(saver[r].version, saver[r].profile)
  <2>1. EndSave(r, n)
    BY <1>4 DEF WriteFile
  <2>2. CASE saver[r].profile \in Quoted
    <3>1. n = NoFile /\ ~ Survives(saver[r].profile)
      BY <2>2 DEF Printed, Survives
    <3>2. n \in PolicyFile /\ n.version = NoVersion
      BY <3>1, PolicyConstants
    <3>3. saver[r].version \in unsure
      BY <3>1, <1>1, <1>2, <1>4 DEF PolicyInv, PendingAgree, Pending
    <3>. HIDE DEF n
    <3>. QED  BY <1>1, <1>2, <1>4, <2>1, <3>2, <3>3, FileSecond
  <2>3. CASE saver[r].profile \notin Quoted
    <3>1. n = [version |-> saver[r].version, profile |-> Rounded(saver[r].profile)]
      BY <2>3 DEF Printed
    <3>2. /\ n \in PolicyFile /\ n.version = saver[r].version /\ n.profile = Rounded(saver[r].profile)
          /\ n.profile # NoProfile
      BY <3>1, <1>2, PolicyConstants DEF PolicyFile, Names
    <3>3. Survives(saver[r].profile) => n.profile = saver[r].profile
      BY <3>2 DEF Survives
    <3>. HIDE DEF n
    <3>. QED  BY <1>1, <1>2, <1>4, <2>1, <3>2, <3>3, FileSecond
  <2>. QED  BY <2>2, <2>3
<1>. QED  BY <1>1, <1>3, <1>4

\* A write that fails leaves the file or cuts it short; its version is not trusted then.
LEMMA WriteFailsInv ==
    ASSUME PolicyInv, NEW r \in Savers, NEW cut \in BOOLEAN, WriteFails(r, cut)
    PROVE  PolicyInv'
<1>. DEFINE own == policyFiles[FileOf[saver[r].version]]
<1>1. /\ saver[r].at \in {"printing", "writing"}
      /\ unsure' = unsure \cup {saver[r].version} \cup (IF cut THEN Displaced(saver[r].version) ELSE {})
      /\ EndSave(r, IF cut THEN NoFile ELSE own)
  BY DEF WriteFails
<1>2. /\ saver[r].version \in Versions /\ own \in PolicyFile /\ (own.version # NoVersion => own.profile # NoProfile)
      /\ unsure \subseteq Versions /\ Displaced(saver[r].version) \subseteq Versions
  BY <1>1, InProgress
<1>3. unsure' \subseteq Versions /\ unsure \subseteq unsure' /\ saver[r].version \in unsure'
  BY <1>1, <1>2
<1>4. CASE cut
  <2>1. EndSave(r, NoFile) /\ Displaced(saver[r].version) \subseteq unsure'
    BY <1>1, <1>4
  <2>. QED  BY <2>1, <1>1, <1>3, PolicyConstants, FileSecond
<1>5. CASE ~ cut
  <2>1. EndSave(r, own)
    BY <1>1, <1>5
  <2>. QED  BY <2>1, <1>1, <1>2, <1>3, FileSecond
<1>. QED  BY <1>4, <1>5

\* The file is removed.
LEMMA RemoveFileInv ==
    ASSUME PolicyInv, NEW r \in Savers, RemoveFile(r)
    PROVE  PolicyInv'
<1>1. /\ saver[r].at = "removing" /\ EndSave(r, NoFile)
      /\ unsure' = unsure \cup Displaced(saver[r].version)
  BY DEF RemoveFile
<1>2. unsure \subseteq Versions /\ Displaced(saver[r].version) \subseteq Versions
  BY <1>1, InProgress
<1>. QED  BY <1>1, <1>2, PolicyConstants, FileSecond

\* Or it cannot be removed.
LEMMA RemoveFailsInv ==
    ASSUME PolicyInv, NEW r \in Savers, RemoveFails(r)
    PROVE  PolicyInv'
<1>. DEFINE own == policyFiles[FileOf[saver[r].version]]
<1>1. saver[r].at = "removing" /\ EndSave(r, own) /\ unsure' = unsure \cup {saver[r].version}
  BY DEF RemoveFails
<1>2. /\ saver[r].version \in Versions /\ own \in PolicyFile /\ unsure \subseteq Versions
      /\ (own.version # NoVersion => own.profile # NoProfile)
  BY <1>1, InProgress
<1>. QED  BY <1>1, <1>2, FileSecond

\* The profiles, the files and the requests in progress stay.
LEMMA PolicyElsewhere ==
    ASSUME PolicyInv, UNCHANGED <<profiles, policyFiles, saver, unsure>>,
           active' \in Versions, Defined(active'), assessed' # NotAssessed => assessed'.profile # NoProfile
    PROVE  PolicyInv'
<1>1. PolicyTypes' /\ FilesFit(policyFiles)' /\ SaversFit'
  BY DEF PolicyInv, PolicyTypes, FilesFit, SaversFit
<1>2. ActiveIsDefined'
  BY DEF ActiveIsDefined, Defined
<1>3. SettledAgree' /\ PendingAgree'
  BY DEF PolicyInv, SettledAgree, PendingAgree, Pending, Elsewhere
<1>. QED  BY <1>1, <1>2, <1>3 DEF PolicyInv

\* A restart reads the directory, and forgets the requests.
LEMMA RestartEngineInv ==
    ASSUME PolicyInv, RestartEngine
    PROVE  PolicyInv'
<1>0. policyFiles \in [Files -> PolicyFile] /\ FilesFit(policyFiles)
  BY DEF PolicyInv, PolicyTypes
<1>1. /\ profiles' = LoadedProfiles(policyFiles) /\ active' = ActiveAtStart(policyFiles)
      /\ saver' = [r \in Savers |-> NoSave] /\ assessed' = NotAssessed /\ policyFiles' = policyFiles
      /\ unsure' = {}
  BY DEF RestartEngine
<1>2. /\ LoadedProfiles(policyFiles) \in [Versions -> Contents] /\ ActiveAtStart(policyFiles) \in Versions
      /\ LoadedProfiles(policyFiles)[ActiveAtStart(policyFiles)] # NoProfile
  BY <1>0, LoadedFits
<1>3. \A r \in Savers : saver'[r] = NoSave /\ saver'[r].at = "idle"
  BY <1>1, PolicyConstants
<1>4. PolicyTypes'
  BY <1>0, <1>1, <1>2, PolicyConstants DEF PolicyTypes
<1>5. ActiveIsDefined'
  BY <1>1, <1>2 DEF ActiveIsDefined, Defined
<1>6. FilesFit(policyFiles)' /\ SaversFit' /\ PendingAgree'
  BY <1>0, <1>1, <1>3 DEF FilesFit, SaversFit, PendingAgree, Pending
<1>7. SettledAgree'
  BY <1>1 DEF SettledAgree
<1>. QED  BY <1>4, <1>5, <1>6, <1>7 DEF PolicyInv

\* Every step of the policy engine preserves the invariant.
LEMMA PolicyStep == PolicyInv /\ [PolicyNext]_policyVars => PolicyInv'
<1>. SUFFICES ASSUME PolicyInv, [PolicyNext]_policyVars PROVE PolicyInv'
  OBVIOUS
<1>0. active \in Versions /\ Defined(active)
      /\ (assessed # NotAssessed => assessed.profile # NoProfile)
  BY DEF PolicyInv, PolicyTypes, ActiveIsDefined
<1>1. ASSUME NEW r \in Savers, NEW v \in Versions, NEW p \in Settings,
             NEW how \in {"printing", "writing"}, SaveProfile(r, v, p, how)
      PROVE  PolicyInv'
  BY <1>1, SaveProfileInv
<1>2. ASSUME NEW r \in Savers, NEW v \in Versions, RemoveProfile(r, v) PROVE PolicyInv'
  BY <1>2, RemoveProfileInv
<1>3. ASSUME NEW r \in Savers, WriteFile(r) \/ RemoveFile(r) \/ RemoveFails(r) PROVE PolicyInv'
  BY <1>3, WriteFileInv, RemoveFileInv, RemoveFailsInv
<1>4. ASSUME NEW r \in Savers, NEW cut \in BOOLEAN, WriteFails(r, cut) PROVE PolicyInv'
  BY <1>4, WriteFailsInv
<1>5. ASSUME NEW v \in Versions, SetActiveProfile(v) PROVE PolicyInv'
  <2>1. Defined(v) /\ active' = v /\ assessed' = NotAssessed
        /\ UNCHANGED <<profiles, policyFiles, saver, unsure>>
    BY <1>5 DEF SetActiveProfile
  <2>. QED  BY <2>1, PolicyElsewhere
<1>6. ASSUME NEW v \in AgentVersions, ConfigureAgent(v) PROVE PolicyInv'
  <2>1. assessed' = NotAssessed /\ UNCHANGED <<profiles, active, policyFiles, saver, unsure>>
    BY <1>6 DEF ConfigureAgent
  <2>. QED  BY <2>1, <1>0, PolicyElsewhere
<1>7. CASE RestartEngine
  BY <1>7, RestartEngineInv
<1>8. ASSUME NEW payload \in Payloads, NEW readable \in BOOLEAN, NEW online \in BOOLEAN,
             AssessTelemetry(payload, readable, online)
      PROVE  PolicyInv'
  <2>1. UNCHANGED <<profiles, active, policyFiles, saver, unsure>>
        /\ assessed'.profile = ProfileFor(readable)
    BY <1>8 DEF AssessTelemetry
  <2>2. ProfileFor(readable) # NoProfile
    BY <1>0 DEF ProfileFor, Defined
  <2>. QED  BY <2>1, <2>2, <1>0, PolicyElsewhere
<1>9. ASSUME NEW p \in Packages, NEW a \in Advisories, AdvisoryPublished(p, a) PROVE PolicyInv'
  <2>1. assessed' = NotAssessed /\ UNCHANGED <<profiles, active, policyFiles, saver, unsure>>
    BY <1>9 DEF AdvisoryPublished
  <2>. QED  BY <2>1, <1>0, PolicyElsewhere
<1>10. CASE UNCHANGED policyVars
  <2>1. UNCHANGED <<profiles, active, policyFiles, saver, unsure, assessed>>
    BY <1>10 DEF policyVars
  <2>. QED  BY <2>1, <1>0, PolicyElsewhere
<1>. QED  BY <1>1, <1>2, <1>3, <1>4, <1>5, <1>6, <1>7, <1>8, <1>9, <1>10 DEF PolicyNext

\* Of a version that nothing happened to since the start, a restart brings back exactly
\* what is in memory, whatever files the directory was shipped with and whatever is saved
\* and deleted beside it; and the active profile is always a defined one, so that an
\* assessment never runs without a profile.
THEOREM ProfilesPersist == PolicySpec => []ProfilesArePersistent
<1>1. ASSUME PolicyInv PROVE RestartKeepsProfiles
  BY <1>1 DEF PolicyInv, RestartKeepsProfiles, SettledAgree, Busy, Pending
<1>2. PolicyInv => ProfilesArePersistent
  BY <1>1 DEF PolicyInv, ProfilesArePersistent
<1>. QED  BY PolicyInitInv, PolicyStep, <1>2, PTL DEF PolicySpec

-----------------------------------------------------------------------------
(* PolicyAssessment: every finding once, and a stricter profile            *)

\* AppendAll as the last of a row of results
Appends(f, found, candidates) ==
    f = [n \in 0 .. Len(candidates) |->
           IF n = 0 THEN found ELSE AppendFinding(f[n - 1], candidates[n])]

\* appendFinding returns findings.
LEMMA AppendFindingType ==
    ASSUME NEW F, NEW found \in Seq(F), NEW x \in F
    PROVE  AppendFinding(found, x) \in Seq(F)
BY DEF AppendFinding

\* Appending one candidate after another has a result.
LEMMA AppendsExist ==
    ASSUME NEW F, NEW found \in Seq(F), NEW candidates \in Seq(F)
    PROVE  \E f \in [0 .. Len(candidates) -> Seq(F)] :
              /\ f[0] = found
              /\ \A n \in 1 .. Len(candidates) : f[n] = AppendFinding(f[n - 1], candidates[n])
              /\ AppendAll(found, candidates) = f[Len(candidates)]
<1>. DEFINE N == Len(candidates)
           step == [x \in Seq(F) \X Nat |->
                      IF x[2] \in 1 .. N THEN AppendFinding(x[1], candidates[x[2]]) ELSE x[1]]
<1>1. N \in Nat /\ \A n \in 1 .. N : candidates[n] \in F
  OBVIOUS
<1>2. step \in [Seq(F) \X Nat -> Seq(F)]
  BY <1>1, AppendFindingType
<1>3. ASSUME NEW q \in Seq(F), NEW n \in 1 .. N PROVE step[<<q, n>>] = AppendFinding(q, candidates[n])
  OBVIOUS
<1>. HIDE DEF step, N
<1>4. PICK f : Iterates(f, step, found, N, Seq(F))
  BY <1>1, <1>2, IteratesExist DEF Rounds
<1>. HIDE <1>4
<1>0. /\ f \in [0 .. N -> Seq(F)] /\ f[0] = found
      /\ \A n \in 1 .. N : f[n] = step[<<f[n - 1], n>>]
  BY <1>4 DEF Iterates
<1>5. \A n \in 1 .. N : f[n] = AppendFinding(f[n - 1], candidates[n])
  <2>1. ASSUME NEW n \in 1 .. N PROVE f[n] = AppendFinding(f[n - 1], candidates[n])
    <3>1. n - 1 \in 0 .. N
      BY <1>1
    <3>2. f[n - 1] \in Seq(F)
      BY <3>1, <1>0
    <3>. QED  BY <3>2, <1>3, <1>0
  <2>. QED  BY <2>1
<1>6. Appends(f, found, candidates)
  <2>. DEFINE g == [n \in 0 .. N |-> IF n = 0 THEN found ELSE AppendFinding(f[n - 1], candidates[n])]
  <2>1. \A n \in 0 .. N : f[n] = g[n]
    BY <1>1, <1>0, <1>5
  <2>2. f = g
    BY <2>1, <1>0
  <2>. QED  BY <2>2 DEF Appends, N
<1>. DEFINE G == CHOOSE h : Appends(h, found, candidates)
<1>7. Appends(G, found, candidates)
  BY <1>6
<1>8. AppendAll(found, candidates) = G[N]
  BY Zenon DEF AppendAll, Appends, N
<1>. HIDE DEF G
<1>9. DOMAIN G = 0 .. N /\ G[0] = found
      /\ \A n \in 1 .. N : G[n] = AppendFinding(G[n - 1], candidates[n])
  <2>1. DOMAIN G = 0 .. N
    BY <1>7 DEF Appends, N
  <2>2. \A n \in 0 .. N : G[n] = IF n = 0 THEN found ELSE AppendFinding(G[n - 1], candidates[n])
    BY <1>7 DEF Appends, N
  <2>. QED  BY <2>1, <2>2, <1>1
<1>10. \A n \in 0 .. N : G[n] \in Seq(F)
  <2>. DEFINE T == {n \in 0 .. N : G[n] \in Seq(F)}
  <2>1. 0 \in T
    BY <1>1, <1>9
  <2>2. ASSUME NEW n \in 1 .. N, n - 1 \in T PROVE n \in T
    <3>1. G[n - 1] \in Seq(F) /\ candidates[n] \in F
      BY <2>2, <1>1
    <3>2. G[n] = AppendFinding(G[n - 1], candidates[n])
      BY <1>9
    <3>3. G[n] \in Seq(F)
      BY <3>1, <3>2, AppendFindingType
    <3>. QED  BY <3>3, <1>1
  <2>. HIDE DEF T
  <2>3. 0 .. N \subseteq T
    BY <1>1, <2>1, <2>2, InductionUpTo
  <2>. QED  BY <2>3 DEF T
<1>11. G \in [0 .. N -> Seq(F)]
  BY <1>7, <1>9, <1>10 DEF Appends, N
<1>. QED  BY <1>8, <1>9, <1>11 DEF N

\* r is found with the first n candidates appended: it begins with found, what follows
\* are candidates, every candidate's key is there, and no key is added that was there.
Grown(r, found, candidates, n) ==
    /\ Len(found) <= Len(r) /\ \A i \in 1 .. Len(found) : r[i] = found[i]
    /\ \A i \in Len(found) + 1 .. Len(r) : \E m \in 1 .. n : r[i] = candidates[m]
    /\ \A m \in 1 .. n : \E i \in 1 .. Len(r) : SameKey(r[i], candidates[m])
    /\ \A i, k \in 1 .. Len(r) : i < k /\ k > Len(found) => ~ SameKey(r[i], r[k])

\* One more candidate is appended, or its key was there.
LEMMA AppendFindingGrows ==
    ASSUME NEW F, NEW found \in Seq(F), NEW candidates \in Seq(F), NEW n \in 1 .. Len(candidates),
           NEW r \in Seq(F), Grown(r, found, candidates, n - 1)
    PROVE  Grown(AppendFinding(r, candidates[n]), found, candidates, n)
<1>. DEFINE c == candidates[n]
<1>0. c \in F /\ n \in Nat /\ n - 1 \in Nat
  OBVIOUS
<1>1. CASE \E i \in 1 .. Len(r) : SameKey(r[i], c)
  <2>1. AppendFinding(r, c) = r
    BY <1>1 DEF AppendFinding
  <2>2. \A m \in 1 .. n : \E i \in 1 .. Len(r) : SameKey(r[i], candidates[m])
    <3>1. ASSUME NEW m \in 1 .. n PROVE \E i \in 1 .. Len(r) : SameKey(r[i], candidates[m])
      <4>1. CASE m = n
        BY <4>1, <1>1
      <4>2. CASE m \in 1 .. n - 1
        BY <4>2 DEF Grown
      <4>. QED  BY <4>1, <4>2
    <3>. QED  BY <3>1
  <2>3. \A i \in Len(found) + 1 .. Len(r) : \E m \in 1 .. n : r[i] = candidates[m]
    <3>1. \A m \in 1 .. n - 1 : m \in 1 .. n
      OBVIOUS
    <3>. QED  BY <3>1 DEF Grown
  <2>. HIDE DEF c
  <2>4. Grown(r, found, candidates, n)
    BY <2>2, <2>3 DEF Grown
  <2>. QED  BY <2>1, <2>4 DEF c
<1>2. CASE \A i \in 1 .. Len(r) : ~ SameKey(r[i], c)
  <2>. DEFINE q == Append(r, c)
  <2>1. AppendFinding(r, c) = q
    BY <1>2 DEF AppendFinding
  <2>2. /\ Len(q) = Len(r) + 1 /\ q[Len(r) + 1] = c /\ \A i \in 1 .. Len(r) : q[i] = r[i]
        /\ Len(r) \in Nat /\ Len(found) \in Nat
    BY <1>0
  <2>. HIDE DEF q, c
  <2>3. Len(found) <= Len(q) /\ \A i \in 1 .. Len(found) : q[i] = found[i]
    BY <2>2 DEF Grown
  <2>4. ASSUME NEW i \in Len(found) + 1 .. Len(q) PROVE \E m \in 1 .. n : q[i] = candidates[m]
    <3>1. CASE i = Len(r) + 1
      <4>1. q[i] = candidates[n] /\ n \in 1 .. n
        BY <3>1, <2>2, <1>0 DEF c
      <4>. QED  BY <4>1
    <3>2. CASE i \in Len(found) + 1 .. Len(r)
      <4>1. PICK m \in 1 .. n - 1 : r[i] = candidates[m]
        BY <3>2 DEF Grown
      <4>2. m \in 1 .. n /\ q[i] = r[i]
        BY <2>2, <3>2
      <4>. QED  BY <4>1, <4>2
    <3>. QED  BY <3>1, <3>2, <2>2
  <2>5. ASSUME NEW m \in 1 .. n PROVE \E i \in 1 .. Len(q) : SameKey(q[i], candidates[m])
    <3>1. CASE m = n
      <4>1. SameKey(q[Len(r) + 1], candidates[m]) /\ Len(r) + 1 \in 1 .. Len(q)
        BY <3>1, <2>2 DEF SameKey, c
      <4>. QED  BY <4>1
    <3>2. CASE m \in 1 .. n - 1
      <4>1. PICK i \in 1 .. Len(r) : SameKey(r[i], candidates[m])
        BY <3>2 DEF Grown
      <4>. QED  BY <4>1, <2>2
    <3>. QED  BY <3>1, <3>2
  <2>6. ASSUME NEW i \in 1 .. Len(q), NEW k \in 1 .. Len(q), i < k, k > Len(found)
        PROVE  ~ SameKey(q[i], q[k])
    <3>1. CASE k = Len(r) + 1
      <4>1. i \in 1 .. Len(r) /\ q[i] = r[i] /\ q[k] = c
        BY <3>1, <2>2, <2>6
      <4>. QED  BY <4>1, <1>2
    <3>2. CASE k \in 1 .. Len(r)
      <4>1. i \in 1 .. Len(r) /\ q[i] = r[i] /\ q[k] = r[k]
        BY <3>2, <2>2, <2>6
      <4>. QED  BY <4>1, <3>2, <2>6 DEF Grown
    <3>. QED  BY <3>1, <3>2, <2>2
  <2>7. Grown(q, found, candidates, n)
    BY <2>3, <2>4, <2>5, <2>6 DEF Grown
  <2>. QED  BY <2>1, <2>7 DEF c
<1>. QED  BY <1>1, <1>2

\* Whatever is assessed, candidates are only added, and no key twice.
LEMMA AppendAllGrows ==
    ASSUME NEW F, NEW found \in Seq(F), NEW candidates \in Seq(F)
    PROVE  /\ AppendAll(found, candidates) \in Seq(F)
           /\ Grown(AppendAll(found, candidates), found, candidates, Len(candidates))
<1>1. PICK f \in [0 .. Len(candidates) -> Seq(F)] :
        /\ f[0] = found
        /\ \A n \in 1 .. Len(candidates) : f[n] = AppendFinding(f[n - 1], candidates[n])
        /\ AppendAll(found, candidates) = f[Len(candidates)]
  BY AppendsExist
<1>. DEFINE N == Len(candidates)
            T == {n \in 0 .. N : Grown(f[n], found, candidates, n)}
<1>2. N \in Nat
  OBVIOUS
<1>3. f[0] = found /\ \A n \in 1 .. N : f[n] = AppendFinding(f[n - 1], candidates[n])
  BY <1>1
<1>4. 0 \in T
  <2>1. Grown(found, found, candidates, 0)
    BY DEF Grown
  <2>. QED  BY <2>1, <1>2, <1>3
<1>5. ASSUME NEW n \in 1 .. N, n - 1 \in T PROVE n \in T
  <2>1. f[n - 1] \in Seq(F) /\ Grown(f[n - 1], found, candidates, n - 1)
    BY <1>5, <1>2, <1>1
  <2>2. Grown(AppendFinding(f[n - 1], candidates[n]), found, candidates, n)
    BY <2>1, AppendFindingGrows
  <2>. QED  BY <2>2, <1>3, <1>2
<1>. HIDE DEF T, N
<1>6. 0 .. N \subseteq T
  BY <1>2, <1>4, <1>5, InductionUpTo
<1>7. N \in T
  BY <1>2, <1>6
<1>. QED  BY <1>1, <1>2, <1>7 DEF T, N

\* Candidates whose keys are all there add nothing.
LEMMA AppendAllKeeps ==
    ASSUME NEW F, NEW found \in Seq(F), NEW candidates \in Seq(F),
           \A n \in 1 .. Len(candidates) : \E i \in 1 .. Len(found) : SameKey(found[i], candidates[n])
    PROVE  AppendAll(found, candidates) = found
<1>1. PICK f \in [0 .. Len(candidates) -> Seq(F)] :
        /\ f[0] = found
        /\ \A n \in 1 .. Len(candidates) : f[n] = AppendFinding(f[n - 1], candidates[n])
        /\ AppendAll(found, candidates) = f[Len(candidates)]
  BY AppendsExist
<1>. DEFINE N == Len(candidates)
            T == {n \in 0 .. N : f[n] = found}
<1>2. N \in Nat
  OBVIOUS
<1>3. f[0] = found /\ \A n \in 1 .. N : f[n] = AppendFinding(f[n - 1], candidates[n])
  BY <1>1
<1>4. 0 \in T
  BY <1>2, <1>3
<1>5. ASSUME NEW n \in 1 .. N, n - 1 \in T PROVE n \in T
  <2>1. f[n] = AppendFinding(found, candidates[n])
    BY <1>5, <1>3
  <2>. QED  BY <2>1, <1>2 DEF AppendFinding
<1>. HIDE DEF T, N
<1>6. 0 .. N \subseteq T
  BY <1>2, <1>4, <1>5, InductionUpTo
<1>7. N \in T
  BY <1>2, <1>6
<1>. QED  BY <1>1, <1>7 DEF T, N

\* The strings of a finding.  The ones that the engine writes are listed because the
\* provers do not know a quoted text to be an element of STRING.
RuleIds == {"JANUS-PQC-001", "JANUS-PQC-002", "JANUS-PQC-004", "JANUS-PQC-005", "JANUS-PQC-006",
            "JANUS-PQC-007", "JANUS-CLASSICAL-003", "JANUS-CNSA-001", "JANUS-CNSA-002",
            "JANUS-CNSA-003", "JANUS-NET-001", "JANUS-NET-002"}

\* The advisories that are built in
AdvisoryIds == {"CVE-2023-48795", "CVE-2024-24789", "CVE-2023-3446", "CVE-2024-22369"}

\* Any text of a finding
Texts == STRING \cup RuleIds \cup AdvisoryIds \cup {"cleartext"}

\* A finding of the engine or of the agent
Found == [severity : 1 .. 5, asset : Texts, alg : Texts, rule : Texts]

\* A finding is a finding about its asset and its algorithm.
LEMMA FindingType ==
    ASSUME NEW severity \in 1 .. 5, NEW asset \in Texts, NEW alg \in Texts, NEW rule \in Texts
    PROVE  /\ Finding(severity, asset, alg, rule) \in Found
           /\ Finding(severity, asset, alg, rule).asset = asset
           /\ Finding(severity, asset, alg, rule).alg = alg
BY DEF Finding, Found

\* A sequence of one
LEMMA SingleMember ==
    ASSUME NEW S, NEW x \in S
    PROVE  <<x>> \in Seq(S) /\ ToSet(<<x>>) = {x}
<1>1. DOMAIN <<x>> = {1} /\ <<x>>[1] = x /\ <<x>> \in Seq(S)
  OBVIOUS
<1>. QED  BY <1>1, Zenon DEF ToSet

\* The empty sequence
LEMMA NoMember ==
    ASSUME NEW S
    PROVE  << >> \in Seq(S) /\ ToSet(<< >>) = {}
<1>1. DOMAIN << >> = {} /\ << >> \in Seq(S)
  OBVIOUS
<1>. QED  BY <1>1, Zenon DEF ToSet

\* Intent lowers a severity within the scale.
LEMMA SeverityType ==
    ASSUME NEW alg, NEW base \in 3 .. 5
    PROVE  AdjustSeverityForIntent(base, alg) \in 1 .. 5
BY DEF AdjustSeverityForIntent, Info

\* The rule and the severity are a rule and a severity.
LEMMA RuleType ==
    ASSUME NEW alg, NEW profile
    PROVE  PublicKeyRule(alg, profile)[1] \in RuleIds /\ PublicKeyRule(alg, profile)[2] \in 3 .. 5
BY DEF PublicKeyRule, High, Critical, RuleIds

\* The findings of one subject: an asset and an algorithm
About(asset, alg) == {x \in Found : x.asset = asset /\ x.alg = alg}

\* What one algorithm gives: findings about it, and none when it is not considered; beyond
\* that, whether there is one does not depend on the profile.
LEMMA AlgorithmFound ==
    ASSUME NEW ref \in Texts, NEW alg \in AlgorithmRecords, NEW profile
    PROVE  /\ AssessAlgorithm(ref, alg, profile) \in Seq(Found)
           /\ ToSet(AssessAlgorithm(ref, alg, profile)) \subseteq About(ref, alg.name)
           /\ ToSet(AssessAlgorithm(ref, alg, profile)) # {} <=>
                /\ Considered(alg, profile)
                /\ \/ alg.role \in PublicKeyRoles /\ ClassicalPublicKey(alg)
                   \/ alg.name \in {"MD5", "SHA-1"}
                   \/ alg.name = "AES-128" /\ alg.role = "symmetric"
<1>. DEFINE rule == PublicKeyRule(alg, profile)
            at(base) == AdjustSeverityForIntent(base, alg)
            classical == alg.role \in PublicKeyRoles /\ ClassicalPublicKey(alg)
            hash == alg.name \in {"MD5", "SHA-1"}
            block == alg.name = "AES-128" /\ alg.role = "symmetric"
            f1 == Finding(at(rule[2]), ref, alg.name, rule[1])
            f2 == Finding(at(High), ref, alg.name, "JANUS-CLASSICAL-003")
            f3 == Finding(at(Medium), ref, alg.name, "JANUS-PQC-004")
            s2 == IF hash THEN <<f2>> ELSE << >>
            s3 == IF block THEN <<f3>> ELSE << >>
            s == AssessAlgorithm(ref, alg, profile)
<1>0. alg.name \in Texts
  BY DEF AlgorithmRecords, Texts
<1>1. rule[1] \in Texts /\ rule[2] \in 3 .. 5
  BY RuleType DEF Texts
<1>2. at(rule[2]) \in 1 .. 5 /\ at(High) \in 1 .. 5 /\ at(Medium) \in 1 .. 5
  <2>1. High \in 3 .. 5 /\ Medium \in 3 .. 5
    BY DEF High, Medium
  <2>. QED  BY <1>1, <2>1, SeverityType
<1>3. f1 \in About(ref, alg.name) /\ f2 \in About(ref, alg.name) /\ f3 \in About(ref, alg.name)
  <2>1. "JANUS-CLASSICAL-003" \in Texts /\ "JANUS-PQC-004" \in Texts
    BY DEF Texts, RuleIds
  <2>. HIDE DEF rule, at
  <2>2. f1 \in Found /\ f1.asset = ref /\ f1.alg = alg.name
    BY <1>0, <1>1, <1>2, FindingType
  <2>3. f2 \in Found /\ f2.asset = ref /\ f2.alg = alg.name
    BY <1>0, <1>2, <2>1 DEF Finding, Found
  <2>4. f3 \in Found /\ f3.asset = ref /\ f3.alg = alg.name
    BY <1>0, <1>2, <2>1 DEF Finding, Found
  <2>. QED  BY <2>2, <2>3, <2>4 DEF About
<1>4. \A x \in About(ref, alg.name) : x \in Found
  BY DEF About
<1>5. /\ ~ Considered(alg, profile) => s = << >>
      /\ Considered(alg, profile) /\ classical => s = <<f1>>
      /\ Considered(alg, profile) /\ ~ classical => s = s2 \o s3
  BY DEF AssessAlgorithm
<1>. HIDE DEF s, f1, f2, f3, rule, at
<1>6. /\ s2 \in Seq(Found) /\ ToSet(s2) = IF hash THEN {f2} ELSE {}
      /\ s3 \in Seq(Found) /\ ToSet(s3) = IF block THEN {f3} ELSE {}
  BY <1>3, <1>4, SingleMember, NoMember
<1>7. /\ <<f1>> \in Seq(Found) /\ ToSet(<<f1>>) = {f1}
      /\ << >> \in Seq(Found) /\ ToSet(<< >>) = {}
  BY <1>3, <1>4, SingleMember, NoMember
<1>. HIDE DEF s2, s3, hash, block, classical
<1>8. s2 \o s3 \in Seq(Found) /\ ToSet(s2 \o s3) = ToSet(s2) \cup ToSet(s3)
  BY <1>6, ConcatMembers
<1>9. s \in Seq(Found)
  BY <1>5, <1>7, <1>8
<1>10. ToSet(s) = IF ~ Considered(alg, profile) THEN {} ELSE IF classical THEN {f1}
                  ELSE (IF hash THEN {f2} ELSE {}) \cup (IF block THEN {f3} ELSE {})
  BY <1>5, <1>6, <1>7, <1>8
<1>11. ToSet(s) \subseteq About(ref, alg.name)
  BY <1>10, <1>3
<1>12. ToSet(s) # {} <=> Considered(alg, profile) /\ (classical \/ hash \/ block)
  BY <1>10
<1>. QED  BY <1>9, <1>11, <1>12, Zenon DEF s, classical, hash, block

\* A finding, or none
LEMMA MaybeType ==
    ASSUME NEW p \in BOOLEAN, NEW x \in Found
    PROVE  /\ (IF p THEN <<x>> ELSE << >>) \in Seq(Found)
           /\ ToSet(IF p THEN <<x>> ELSE << >>) = IF p THEN {x} ELSE {}
<1>1. <<x>> \in Seq(Found) /\ ToSet(<<x>>) = {x} /\ << >> \in Seq(Found) /\ ToSet(<< >>) = {}
  BY SingleMember, NoMember
<1>. QED  BY <1>1

\* assessCNSA returns findings.
LEMMA CNSAType ==
    ASSUME NEW ref \in STRING, NEW alg \in AlgorithmRecords
    PROVE  AssessCNSA(ref, alg) \in Seq(Found)
<1>. DEFINE p1 == (alg.name = "ECDSA" \/ alg.name = "ECC") /\ alg.curve = "P-256"
            p2 == alg.name = "SHA-256" /\ alg.role = "hash"
            p3 == alg.name = "AES-128" /\ alg.role = "symmetric"
            f1 == Finding(High, ref, alg.name, "JANUS-CNSA-001")
            f2 == Finding(Medium, ref, alg.name, "JANUS-CNSA-002")
            f3 == Finding(High, ref, alg.name, "JANUS-CNSA-003")
            s1 == IF p1 THEN <<f1>> ELSE << >>
            s2 == IF p2 THEN <<f2>> ELSE << >>
            s3 == IF p3 THEN <<f3>> ELSE << >>
<1>1. alg.name \in Texts /\ ref \in Texts /\ High \in 1 .. 5 /\ Medium \in 1 .. 5
  BY DEF AlgorithmRecords, Texts, High, Medium
<1>2. "JANUS-CNSA-001" \in Texts /\ "JANUS-CNSA-002" \in Texts /\ "JANUS-CNSA-003" \in Texts
  BY DEF Texts, RuleIds
<1>3. p1 \in BOOLEAN /\ p2 \in BOOLEAN /\ p3 \in BOOLEAN
  OBVIOUS
<1>4. f1 \in Found /\ f2 \in Found /\ f3 \in Found
  BY <1>1, <1>2 DEF Finding, Found
<1>. HIDE DEF p1, p2, p3, f1, f2, f3
<1>5. s1 \in Seq(Found) /\ s2 \in Seq(Found) /\ s3 \in Seq(Found)
  BY <1>3, <1>4, MaybeType
<1>. HIDE DEF s1, s2, s3
<1>7. s1 \o s2 \o s3 \in Seq(Found)
  BY <1>5, ConcatProperties
<1>. QED  BY <1>7 DEF AssessCNSA, s1, s2, s3, p1, p2, p3, f1, f2, f3

\* What assessNetwork finds, without the order
LEMMA NetworkFound ==
    ASSUME NEW obs \in ObservationRecords, NEW profile
    PROVE  /\ AssessNetwork(obs, profile) \in Seq(Found)
           /\ ToSet(AssessNetwork(obs, profile)) =
                IF obs.cleartext THEN {Finding(Critical, obs.endpoint, "cleartext", "JANUS-NET-001")}
                ELSE (IF obs.tls \in {"", "TLS1.0", "TLS1.1", "TLS1.2"}
                        THEN {Finding(High, obs.endpoint, obs.cipher, "JANUS-NET-002")} ELSE {})
                     \cup (IF profile.hybrid /\ ~ obs.hybrid /\ obs.group # "X25519MLKEM768"
                             THEN {Finding(Critical, obs.endpoint, obs.group, "JANUS-PQC-005")} ELSE {})
                     \cup (IF obs.signature \in {"RSA", "ECDSA"}
                             THEN {Finding(High, obs.endpoint, obs.signature, "JANUS-PQC-006")} ELSE {})
<1>. DEFINE clear == obs.cleartext
            p1 == obs.tls \in {"", "TLS1.0", "TLS1.1", "TLS1.2"}
            p2 == profile.hybrid /\ ~ obs.hybrid /\ obs.group # "X25519MLKEM768"
            p3 == obs.signature \in {"RSA", "ECDSA"}
            f0 == Finding(Critical, obs.endpoint, "cleartext", "JANUS-NET-001")
            f1 == Finding(High, obs.endpoint, obs.cipher, "JANUS-NET-002")
            f2 == Finding(Critical, obs.endpoint, obs.group, "JANUS-PQC-005")
            f3 == Finding(High, obs.endpoint, obs.signature, "JANUS-PQC-006")
            s1 == IF p1 THEN <<f1>> ELSE << >>
            s2 == IF p2 THEN <<f2>> ELSE << >>
            s3 == IF p3 THEN <<f3>> ELSE << >>
            s == AssessNetwork(obs, profile)
<1>1. /\ obs.endpoint \in Texts /\ obs.cipher \in Texts /\ obs.group \in Texts
      /\ obs.signature \in Texts /\ High \in 1 .. 5 /\ Critical \in 1 .. 5
  BY DEF ObservationRecords, Texts, High, Critical
<1>2. /\ "JANUS-NET-001" \in Texts /\ "JANUS-NET-002" \in Texts /\ "JANUS-PQC-005" \in Texts
      /\ "JANUS-PQC-006" \in Texts /\ "cleartext" \in Texts
  BY DEF Texts, RuleIds
<1>3. p1 \in BOOLEAN /\ p2 \in BOOLEAN /\ p3 \in BOOLEAN
  OBVIOUS
<1>4. s = IF clear THEN <<f0>> ELSE s1 \o s2 \o s3
  BY Zenon DEF AssessNetwork
<1>8. f0 \in Found /\ f1 \in Found /\ f2 \in Found /\ f3 \in Found
  BY <1>1, <1>2 DEF Finding, Found
<1>. HIDE DEF p1, p2, p3, clear, s, f0, f1, f2, f3
<1>5. s1 \in Seq(Found) /\ ToSet(s1) = IF p1 THEN {f1} ELSE {}
  BY <1>3, <1>8, MaybeType
<1>6. s2 \in Seq(Found) /\ ToSet(s2) = IF p2 THEN {f2} ELSE {}
  BY <1>3, <1>8, MaybeType
<1>7. s3 \in Seq(Found) /\ ToSet(s3) = IF p3 THEN {f3} ELSE {}
  BY <1>3, <1>8, MaybeType
<1>. HIDE DEF s1, s2, s3
<1>9. <<f0>> \in Seq(Found) /\ ToSet(<<f0>>) = {f0}
  BY <1>8, SingleMember
<1>10. s1 \o s2 \in Seq(Found) /\ ToSet(s1 \o s2) = ToSet(s1) \cup ToSet(s2)
  BY <1>5, <1>6, ConcatMembers
<1>11. s1 \o s2 \o s3 \in Seq(Found) /\ ToSet(s1 \o s2 \o s3) = ToSet(s1) \cup ToSet(s2) \cup ToSet(s3)
  <2>. DEFINE t == s1 \o s2
  <2>. HIDE DEF t
  <2>1. t \in Seq(Found) /\ ToSet(t) = ToSet(s1) \cup ToSet(s2)
    BY <1>10 DEF t
  <2>2. t \o s3 \in Seq(Found) /\ ToSet(t \o s3) = ToSet(t) \cup ToSet(s3)
    BY <1>7, <2>1, ConcatMembers
  <2>. QED  BY <2>1, <2>2 DEF t
<1>12. s \in Seq(Found)
  BY <1>4, <1>9, <1>11
<1>13. ToSet(s) = IF clear THEN {f0} ELSE (IF p1 THEN {f1} ELSE {}) \cup (IF p2 THEN {f2} ELSE {})
                                          \cup (IF p3 THEN {f3} ELSE {})
  BY <1>4, <1>5, <1>6, <1>7, <1>9, <1>11
<1>. QED  BY <1>12, <1>13, Zenon DEF s, clear, p1, p2, p3, f0, f1, f2, f3

\* The advisories that are built in are well formed.
LEMMA AdvisoryType ==
    ASSUME NEW i \in 1 .. Len(LocalAdvisories)
    PROVE  LocalAdvisories[i][1] \in Texts /\ LocalAdvisories[i][3] \in 1 .. 5
<1>1. /\ LocalAdvisories[1][1] = "CVE-2023-48795" /\ LocalAdvisories[1][3] = 4
      /\ LocalAdvisories[2][1] = "CVE-2024-24789" /\ LocalAdvisories[2][3] = 3
      /\ LocalAdvisories[3][1] = "CVE-2023-3446" /\ LocalAdvisories[3][3] = 3
      /\ LocalAdvisories[4][1] = "CVE-2024-22369" /\ LocalAdvisories[4][3] = 5
      /\ Len(LocalAdvisories) = 4
  BY DEF LocalAdvisories
<1>2. i = 1 \/ i = 2 \/ i = 3 \/ i = 4
  BY <1>1
<1>. QED  BY <1>1, <1>2 DEF Texts, AdvisoryIds

\* Every CVSS score has a severity.
LEMMA ScoreType ==
    ASSUME NEW score \in Int
    PROVE  SeverityOfScore(score) \in 1 .. 5
BY DEF SeverityOfScore, Critical, High, Medium

\* SetToSeq lists the elements of a finite set.
LEMMA LiveType ==
    ASSUME NEW S, IsFiniteSet(S)
    PROVE  SetToSeq(S) \in Seq(S)
<1>1. Cardinality(S) \in Nat /\ ExistsBijection(1 .. Cardinality(S), S)
  BY FS_CardinalityType
<1>2. PICK f : f \in Bijection(1 .. Cardinality(S), S)
  BY <1>1 DEF ExistsBijection
<1>3. f \in [1 .. Cardinality(S) -> S] /\ IsInjective(f)
  BY <1>2 DEF Bijection, Injection, IsInjective
<1>4. SetToSeq(S) \in [1 .. Cardinality(S) -> S]
  BY <1>3 DEF SetToSeq
<1>. QED  BY <1>1, <1>4

\* The advisories that apply to a component become findings.
LEMMA VulnerabilityType ==
    ASSUME NEW c \in ComponentRecords, NEW osv \in SUBSET AdvisoryRecords, IsFiniteSet(osv)
    PROVE  AssessVulnerabilities(c, osv) \in Seq(Found)
<1>. DEFINE affects(adv) == c.name = adv[2] /\ OlderThan(c.version, adv[4])
            local(adv) == IF affects(adv) THEN <<Finding(adv[3], c.ref, adv[1], adv[1])>> ELSE << >>
            listed == {v \in osv : v.crypto}
            live == SetToSeq(listed)
            ss == [i \in 1 .. Len(LocalAdvisories) |-> local(LocalAdvisories[i])]
            t == [i \in 1 .. Len(live) |->
                    Finding(SeverityOfScore(live[i].score), c.ref, live[i].id, live[i].id)]
<1>0. c.ref \in Texts
  BY DEF ComponentRecords, Texts
<1>1. ASSUME NEW i \in 1 .. Len(LocalAdvisories) PROVE local(LocalAdvisories[i]) \in Seq(Found)
  <2>. DEFINE p == affects(LocalAdvisories[i])
  <2>1. p \in BOOLEAN
    OBVIOUS
  <2>2. LocalAdvisories[i][1] \in Texts /\ LocalAdvisories[i][3] \in 1 .. 5
    BY AdvisoryType
  <2>. HIDE DEF p
  <2>. DEFINE x == Finding(LocalAdvisories[i][3], c.ref, LocalAdvisories[i][1], LocalAdvisories[i][1])
  <2>3. x \in Found
    BY <1>0, <2>2, FindingType
  <2>. HIDE DEF x
  <2>4. (IF p THEN <<x>> ELSE << >>) \in Seq(Found)
    BY <2>1, <2>3, MaybeType
  <2>. QED  BY <2>4 DEF p, x
<1>2. FlattenSeq(ss) \in Seq(Found)
  <2>. HIDE DEF local
  <2>0. Len(LocalAdvisories) \in Nat
    BY DEF LocalAdvisories
  <2>1. ss \in Seq(Seq(Found))
    BY <1>1, <2>0
  <2>. HIDE DEF ss
  <2>. QED  BY <2>1, FlattenMembers
<1>3. live \in Seq(listed)
  <2>1. IsFiniteSet(listed)
    BY FS_Subset
  <2>. HIDE DEF listed
  <2>. QED  BY <2>1, LiveType
<1>4. t \in Seq(Found)
  <2>1. ASSUME NEW i \in 1 .. Len(live)
        PROVE  Finding(SeverityOfScore(live[i].score), c.ref, live[i].id, live[i].id) \in Found
    <3>1. live[i] \in listed
      BY <1>3
    <3>2. live[i] \in AdvisoryRecords
      BY <3>1
    <3>3. live[i].score \in Int /\ live[i].id \in Texts
      BY <3>2 DEF AdvisoryRecords, Texts
    <3>. HIDE DEF live
    <3>. QED  BY <1>0, <3>3, ScoreType, FindingType
  <2>2. Len(live) \in Nat
    BY <1>3
  <2>. HIDE DEF live
  <2>. QED  BY <2>1, <2>2
<1>. HIDE DEF ss, t
<1>5. FlattenSeq(ss) \o t \in Seq(Found)
  BY <1>2, <1>4, ConcatProperties
<1>6. AssessVulnerabilities(c, osv) = IF c.version = << >> THEN << >> ELSE FlattenSeq(ss) \o t
  BY Zenon DEF AssessVulnerabilities, ss, t
<1>. QED  BY <1>5, <1>6, NoMember

\* What the parts of a payload are found to hold, without the order
AlgorithmSet(c, profile) == UNION {ToSet(AssessAlgorithm(c.ref, c.algs[i], profile)) : i \in 1 .. Len(c.algs)}

\* of a component: its algorithms and its advisories
ComponentSet(c, profile, osv) ==
    AlgorithmSet(c, profile) \cup ToSet(AssessVulnerabilities(c, osv[c.name]))

\* of the network observations
NetworkSet(payload, profile) ==
    UNION {ToSet(AssessNetwork(payload.network[i], profile)) : i \in 1 .. Len(payload.network)}

\* of the algorithms under CNSA 2.0
CNSASet(payload) == UNION {ToSet(CNSAFindings(payload.components[i])) : i \in 1 .. Len(payload.components)}

\* of all components
ComponentsSet(payload, profile, osv) ==
    UNION {ComponentSet(payload.components[i], profile, osv) : i \in 1 .. Len(payload.components)}

\* of CNSA 2.0, where the profile asks for it
ExtraSet(payload, profile) == IF profile.cnsa THEN CNSASet(payload) ELSE {}

\* The answers of OSV
OsvAnswers == {osv \in [Packages -> SUBSET AdvisoryRecords] : \A p \in Packages : IsFiniteSet(osv[p])}

\* The findings about the algorithms of a component
LEMMA AlgorithmsFound ==
    ASSUME NEW c \in ComponentRecords, NEW profile
    PROVE  /\ AlgorithmFindings(c, profile) \in Seq(Found)
           /\ ToSet(AlgorithmFindings(c, profile)) = AlgorithmSet(c, profile)
<1>. DEFINE ss == [i \in 1 .. Len(c.algs) |-> AssessAlgorithm(c.ref, c.algs[i], profile)]
<1>1. c.ref \in STRING /\ c.ref \in Texts /\ c.algs \in Seq(AlgorithmRecords)
  BY DEF ComponentRecords, Texts
<1>2. Len(c.algs) \in Nat /\ \A i \in 1 .. Len(c.algs) : c.algs[i] \in AlgorithmRecords
  BY <1>1
<1>3. \A i \in 1 .. Len(c.algs) : AssessAlgorithm(c.ref, c.algs[i], profile) \in Seq(Found)
  BY <1>1, <1>2, AlgorithmFound
<1>4. /\ ss \in Seq(Seq(Found)) /\ Len(ss) = Len(c.algs)
      /\ \A i \in 1 .. Len(ss) : ss[i] = AssessAlgorithm(c.ref, c.algs[i], profile)
  BY <1>2, <1>3
<1>5. AlgorithmFindings(c, profile) = FlattenSeq(ss)
  BY DEF AlgorithmFindings
<1>. HIDE DEF ss
<1>6. FlattenSeq(ss) \in Seq(Found) /\ ToSet(FlattenSeq(ss)) = UNION {ToSet(ss[i]) : i \in 1 .. Len(ss)}
  BY <1>4, FlattenMembers
<1>. QED  BY <1>4, <1>5, <1>6 DEF AlgorithmSet

\* The CNSA findings about a component
LEMMA CNSAFound ==
    ASSUME NEW c \in ComponentRecords
    PROVE  CNSAFindings(c) \in Seq(Found)
<1>. DEFINE ss == [i \in 1 .. Len(c.algs) |-> AssessCNSA(c.ref, c.algs[i])]
<1>1. c.ref \in STRING /\ c.algs \in Seq(AlgorithmRecords)
  BY DEF ComponentRecords
<1>2. Len(c.algs) \in Nat /\ \A i \in 1 .. Len(c.algs) : c.algs[i] \in AlgorithmRecords
  BY <1>1
<1>3. \A i \in 1 .. Len(c.algs) : AssessCNSA(c.ref, c.algs[i]) \in Seq(Found)
  BY <1>1, <1>2, CNSAType
<1>4. ss \in Seq(Seq(Found))
  BY <1>2, <1>3
<1>5. CNSAFindings(c) = FlattenSeq(ss)
  BY DEF CNSAFindings
<1>. HIDE DEF ss
<1>. QED  BY <1>4, <1>5, FlattenMembers

\* What is found in a payload is what its parts are found to hold.
LEMMA CandidatesFound ==
    ASSUME NEW payload \in PayloadRecords, NEW profile, NEW osv \in OsvAnswers
    PROVE  /\ Candidates(payload, profile, osv) \in Seq(Found)
           /\ ToSet(Candidates(payload, profile, osv)) =
                ComponentsSet(payload, profile, osv) \cup NetworkSet(payload, profile)
                \cup ExtraSet(payload, profile)
<1>. DEFINE cs == payload.components
            ns == payload.network
            part(i) == AlgorithmFindings(cs[i], profile) \o AssessVulnerabilities(cs[i], osv[cs[i].name])
            ss == [i \in 1 .. Len(cs) |-> part(i)]
            tt == [i \in 1 .. Len(ns) |-> AssessNetwork(ns[i], profile)]
            uu == [i \in 1 .. Len(cs) |-> CNSAFindings(cs[i])]
            u == IF profile.cnsa THEN FlattenSeq(uu) ELSE << >>
<1>1. cs \in Seq(ComponentRecords) /\ ns \in Seq(ObservationRecords)
  BY DEF PayloadRecords
<1>2. Candidates(payload, profile, osv) = FlattenSeq(ss) \o FlattenSeq(tt) \o u
  BY Zenon DEF Candidates
<1>3. CNSASet(payload) = UNION {ToSet(CNSAFindings(cs[i])) : i \in 1 .. Len(cs)}
      /\ NetworkSet(payload, profile) = UNION {ToSet(AssessNetwork(ns[i], profile)) : i \in 1 .. Len(ns)}
      /\ ComponentsSet(payload, profile, osv) = UNION {ComponentSet(cs[i], profile, osv) : i \in 1 .. Len(cs)}
  BY DEF CNSASet, NetworkSet, ComponentsSet
<1>. HIDE DEF cs, ns
<1>4. /\ Len(cs) \in Nat /\ \A i \in 1 .. Len(cs) : cs[i] \in ComponentRecords
      /\ Len(ns) \in Nat /\ \A i \in 1 .. Len(ns) : ns[i] \in ObservationRecords
  BY <1>1
<1>5. ASSUME NEW i \in 1 .. Len(cs)
      PROVE  part(i) \in Seq(Found) /\ ToSet(part(i)) = ComponentSet(cs[i], profile, osv)
  <2>1. cs[i] \in ComponentRecords /\ cs[i].name \in Packages
    BY <1>4 DEF ComponentRecords
  <2>2. osv[cs[i].name] \in SUBSET AdvisoryRecords /\ IsFiniteSet(osv[cs[i].name])
    BY <2>1 DEF OsvAnswers
  <2>3. AssessVulnerabilities(cs[i], osv[cs[i].name]) \in Seq(Found)
    BY <2>1, <2>2, VulnerabilityType
  <2>4. /\ AlgorithmFindings(cs[i], profile) \in Seq(Found)
        /\ ToSet(AlgorithmFindings(cs[i], profile)) = AlgorithmSet(cs[i], profile)
    BY <2>1, AlgorithmsFound
  <2>. QED  BY <2>3, <2>4, ConcatMembers DEF ComponentSet
<1>. HIDE DEF part
<1>6. FlattenSeq(ss) \in Seq(Found) /\ ToSet(FlattenSeq(ss)) = UNION {ComponentSet(cs[i], profile, osv) : i \in 1 .. Len(cs)}
  <2>1. ss \in Seq(Seq(Found)) /\ Len(ss) = Len(cs) /\ \A i \in 1 .. Len(cs) : ss[i] = part(i)
    BY <1>4, <1>5
  <2>. HIDE DEF ss
  <2>2. FlattenSeq(ss) \in Seq(Found) /\ ToSet(FlattenSeq(ss)) = UNION {ToSet(ss[i]) : i \in 1 .. Len(ss)}
    BY <2>1, FlattenMembers
  <2>3. {ToSet(ss[i]) : i \in 1 .. Len(ss)} = {ComponentSet(cs[i], profile, osv) : i \in 1 .. Len(cs)}
    BY <2>1, <1>5
  <2>. QED  BY <2>2, <2>3
<1>7. FlattenSeq(tt) \in Seq(Found) /\ ToSet(FlattenSeq(tt)) = NetworkSet(payload, profile)
  <2>0. \A i \in 1 .. Len(ns) : AssessNetwork(ns[i], profile) \in Seq(Found)
    BY <1>4, NetworkFound
  <2>1. /\ tt \in Seq(Seq(Found)) /\ Len(tt) = Len(ns)
        /\ \A i \in 1 .. Len(ns) : tt[i] = AssessNetwork(ns[i], profile)
    BY <1>4, <2>0
  <2>. HIDE DEF tt
  <2>2. FlattenSeq(tt) \in Seq(Found) /\ ToSet(FlattenSeq(tt)) = UNION {ToSet(tt[i]) : i \in 1 .. Len(tt)}
    BY <2>1, FlattenMembers
  <2>3. {ToSet(tt[i]) : i \in 1 .. Len(tt)} = {ToSet(AssessNetwork(ns[i], profile)) : i \in 1 .. Len(ns)}
    BY <2>1
  <2>. QED  BY <2>2, <2>3, <1>3
<1>8. FlattenSeq(uu) \in Seq(Found) /\ ToSet(FlattenSeq(uu)) = CNSASet(payload)
  <2>0. \A i \in 1 .. Len(cs) : CNSAFindings(cs[i]) \in Seq(Found)
    BY <1>4, CNSAFound
  <2>1. uu \in Seq(Seq(Found)) /\ Len(uu) = Len(cs) /\ \A i \in 1 .. Len(cs) : uu[i] = CNSAFindings(cs[i])
    BY <1>4, <2>0
  <2>. HIDE DEF uu
  <2>2. FlattenSeq(uu) \in Seq(Found) /\ ToSet(FlattenSeq(uu)) = UNION {ToSet(uu[i]) : i \in 1 .. Len(uu)}
    BY <2>1, FlattenMembers
  <2>3. {ToSet(uu[i]) : i \in 1 .. Len(uu)} = {ToSet(CNSAFindings(cs[i])) : i \in 1 .. Len(cs)}
    BY <2>1
  <2>. QED  BY <2>2, <2>3, <1>3
<1>. HIDE DEF ss, tt, uu
<1>9. u \in Seq(Found) /\ ToSet(u) = ExtraSet(payload, profile)
  BY <1>8, NoMember DEF ExtraSet
<1>. DEFINE a == FlattenSeq(ss)
            b == FlattenSeq(tt)
            ab == a \o b
<1>10. a \in Seq(Found) /\ b \in Seq(Found)
  BY <1>6, <1>7
<1>11. ToSet(a) = ComponentsSet(payload, profile, osv) /\ ToSet(b) = NetworkSet(payload, profile)
  BY <1>3, <1>6, <1>7
<1>. HIDE DEF u, a, b
<1>12. ab \in Seq(Found) /\ ToSet(ab) = ToSet(a) \cup ToSet(b)
  BY <1>10, ConcatMembers
<1>. HIDE DEF ab
<1>13. ab \o u \in Seq(Found) /\ ToSet(ab \o u) = ToSet(ab) \cup ToSet(u)
  BY <1>9, <1>12, ConcatMembers
<1>14. Candidates(payload, profile, osv) = ab \o u
  BY <1>2 DEF a, b, ab
<1>. HIDE <1>2, <1>3, <1>6, <1>7
<1>. QED  BY <1>9, <1>11, <1>12, <1>13, <1>14, Zenon

\* Every finding of X has one of Y about the same asset and algorithm.
Covered(X, Y) == \A x \in X : \E y \in Y : y.asset = x.asset /\ y.alg = x.alg

\* A stricter profile considers every algorithm that a weaker one considers.
LEMMA AlgorithmCovered ==
    ASSUME NEW ref \in Texts, NEW alg \in AlgorithmRecords, NEW weak, NEW strict,
           Threshold(strict) \in Int, Threshold(weak) \in Int, Threshold(strict) <= Threshold(weak)
    PROVE  Covered(ToSet(AssessAlgorithm(ref, alg, weak)), ToSet(AssessAlgorithm(ref, alg, strict)))
<1>. DEFINE X == ToSet(AssessAlgorithm(ref, alg, weak))
            Y == ToSet(AssessAlgorithm(ref, alg, strict))
            kind == \/ alg.role \in PublicKeyRoles /\ ClassicalPublicKey(alg)
                    \/ alg.name \in {"MD5", "SHA-1"}
                    \/ alg.name = "AES-128" /\ alg.role = "symmetric"
<1>1. Considered(alg, weak) => Considered(alg, strict)
  <2>1. alg.confidence \in Nat
    BY DEF AlgorithmRecords
  <2>. QED  BY <2>1 DEF Considered
<1>2. X \subseteq About(ref, alg.name) /\ (X # {} <=> Considered(alg, weak) /\ kind)
  BY AlgorithmFound
<1>3. Y \subseteq About(ref, alg.name) /\ (Y # {} <=> Considered(alg, strict) /\ kind)
  BY AlgorithmFound
<1>. HIDE DEF X, Y, kind
<1>4. Covered(X, Y)
  BY <1>1, <1>2, <1>3 DEF Covered, About
<1>. QED  BY <1>4 DEF X, Y

\* A stricter profile finds on the network what a weaker one finds.
LEMMA NetworkCovered ==
    ASSUME NEW obs \in ObservationRecords, NEW weak, NEW strict, weak.hybrid => strict.hybrid
    PROVE  ToSet(AssessNetwork(obs, weak)) \subseteq ToSet(AssessNetwork(obs, strict))
<1>. DEFINE f0 == Finding(Critical, obs.endpoint, "cleartext", "JANUS-NET-001")
            f1 == Finding(High, obs.endpoint, obs.cipher, "JANUS-NET-002")
            f2 == Finding(Critical, obs.endpoint, obs.group, "JANUS-PQC-005")
            f3 == Finding(High, obs.endpoint, obs.signature, "JANUS-PQC-006")
            p1 == obs.tls \in {"", "TLS1.0", "TLS1.1", "TLS1.2"}
            p2 == ~ obs.hybrid /\ obs.group # "X25519MLKEM768"
            p3 == obs.signature \in {"RSA", "ECDSA"}
<1>1. ToSet(AssessNetwork(obs, weak)) =
        IF obs.cleartext THEN {f0} ELSE (IF p1 THEN {f1} ELSE {})
          \cup (IF weak.hybrid /\ p2 THEN {f2} ELSE {}) \cup (IF p3 THEN {f3} ELSE {})
  BY NetworkFound
<1>2. ToSet(AssessNetwork(obs, strict)) =
        IF obs.cleartext THEN {f0} ELSE (IF p1 THEN {f1} ELSE {})
          \cup (IF strict.hybrid /\ p2 THEN {f2} ELSE {}) \cup (IF p3 THEN {f3} ELSE {})
  BY NetworkFound
<1>. HIDE DEF f0, f1, f2, f3, p1, p2, p3
<1>. QED  BY <1>1, <1>2

\* A stricter profile finds every subject that a weaker one finds.
LEMMA CandidatesCovered ==
    ASSUME NEW payload \in PayloadRecords, NEW osv \in OsvAnswers, NEW weak, NEW strict,
           Threshold(strict) \in Int, Threshold(weak) \in Int, Stricter(strict, weak)
    PROVE  Covered(ToSet(Candidates(payload, weak, osv)), ToSet(Candidates(payload, strict, osv)))
<1>. DEFINE cs == payload.components
            ns == payload.network
<1>0. /\ weak.hybrid => strict.hybrid
      /\ weak.cnsa => strict.cnsa
      /\ Threshold(strict) <= Threshold(weak)
  BY DEF Stricter
<1>1. cs \in Seq(ComponentRecords) /\ ns \in Seq(ObservationRecords)
  BY DEF PayloadRecords
<1>3. ASSUME NEW c \in ComponentRecords PROVE Covered(ComponentSet(c, weak, osv), ComponentSet(c, strict, osv))
  <2>1. c.ref \in Texts /\ c.algs \in Seq(AlgorithmRecords)
    BY DEF ComponentRecords, Texts
  <2>2. \A i \in 1 .. Len(c.algs) :
          Covered(ToSet(AssessAlgorithm(c.ref, c.algs[i], weak)), ToSet(AssessAlgorithm(c.ref, c.algs[i], strict)))
    <3>1. \A i \in 1 .. Len(c.algs) : c.algs[i] \in AlgorithmRecords
      BY <2>1
    <3>. QED  BY <1>0, <2>1, <3>1, AlgorithmCovered
  <2>3. Covered(AlgorithmSet(c, weak), AlgorithmSet(c, strict))
    <3>1. ASSUME NEW x \in AlgorithmSet(c, weak)
          PROVE  \E y \in AlgorithmSet(c, strict) : y.asset = x.asset /\ y.alg = x.alg
      <4>1. PICK i \in 1 .. Len(c.algs) : x \in ToSet(AssessAlgorithm(c.ref, c.algs[i], weak))
        BY Zenon DEF AlgorithmSet
      <4>2. PICK y \in ToSet(AssessAlgorithm(c.ref, c.algs[i], strict)) : y.asset = x.asset /\ y.alg = x.alg
        BY <2>2, <4>1, Zenon DEF Covered
      <4>3. y \in AlgorithmSet(c, strict)
        BY <4>2, Zenon DEF AlgorithmSet
      <4>. QED  BY <4>2, <4>3
    <3>. QED  BY <3>1 DEF Covered
  <2>. QED  BY <2>3, Zenon DEF Covered, ComponentSet
<1>4. Covered(ComponentsSet(payload, weak, osv), ComponentsSet(payload, strict, osv))
  <2>1. \A i \in 1 .. Len(cs) : Covered(ComponentSet(cs[i], weak, osv), ComponentSet(cs[i], strict, osv))
    <3>1. \A i \in 1 .. Len(cs) : cs[i] \in ComponentRecords
      BY <1>1
    <3>. QED  BY <1>3, <3>1
  <2>2. ASSUME NEW x \in ComponentsSet(payload, weak, osv)
        PROVE  \E y \in ComponentsSet(payload, strict, osv) : y.asset = x.asset /\ y.alg = x.alg
    <3>1. PICK i \in 1 .. Len(cs) : x \in ComponentSet(cs[i], weak, osv)
      BY Zenon DEF ComponentsSet
    <3>2. PICK y \in ComponentSet(cs[i], strict, osv) : y.asset = x.asset /\ y.alg = x.alg
      BY <2>1, <3>1, Zenon DEF Covered
    <3>3. y \in ComponentsSet(payload, strict, osv)
      BY <3>2, Zenon DEF ComponentsSet
    <3>. QED  BY <3>2, <3>3
  <2>. QED  BY <2>2 DEF Covered
<1>5. NetworkSet(payload, weak) \subseteq NetworkSet(payload, strict)
  <2>1. \A i \in 1 .. Len(ns) : ns[i] \in ObservationRecords
    BY <1>1
  <2>2. \A i \in 1 .. Len(ns) : ToSet(AssessNetwork(ns[i], weak)) \subseteq ToSet(AssessNetwork(ns[i], strict))
    BY <1>0, <2>1, NetworkCovered
  <2>. QED  BY <2>2, Zenon DEF NetworkSet
<1>6. ExtraSet(payload, weak) \subseteq ExtraSet(payload, strict)
  BY <1>0 DEF ExtraSet
<1>7. ToSet(Candidates(payload, weak, osv)) =
        ComponentsSet(payload, weak, osv) \cup NetworkSet(payload, weak) \cup ExtraSet(payload, weak)
  BY CandidatesFound
<1>8. ToSet(Candidates(payload, strict, osv)) =
        ComponentsSet(payload, strict, osv) \cup NetworkSet(payload, strict) \cup ExtraSet(payload, strict)
  BY CandidatesFound
<1>. QED  BY <1>4, <1>5, <1>6, <1>7, <1>8, Zenon DEF Covered

\* What OSV has published and what the engine remembers of it
OsvFits ==
    /\ osvKnown \in [Packages -> SUBSET Advisories]
    /\ osvCache \in [Packages -> SUBSET (SUBSET Advisories)]

\* The last assessment is the assessment of a payload under a profile that was stored.
AssessedFits ==
    assessed # NotAssessed =>
        /\ assessed.payload \in Payloads /\ assessed.profile \in Contents /\ assessed.osv \in OsvAnswers
        /\ assessed.findings = Assess(assessed.payload, assessed.profile, assessed.osv)

\* The invariant of the policy engine
AssessmentInv == PolicyInv /\ OsvFits /\ AssessedFits

\* An answer about packages, from OSV or from the cache, lists published advisories.
LEMMA AnswerType ==
    ASSUME OsvFits, NEW online \in BOOLEAN
    PROVE  /\ \A p \in Packages : Answer(p, online) \in SUBSET Advisories
           /\ [p \in Packages |-> Answer(p, online)] \in OsvAnswers
<1>1. \A p \in Packages : osvKnown[p] \in SUBSET Advisories /\ osvCache[p] \in SUBSET (SUBSET Advisories)
  BY DEF OsvFits
<1>2. ASSUME NEW p \in Packages PROVE Answer(p, online) \in SUBSET Advisories
  <2>1. UNION osvCache[p] \in SUBSET Advisories
    BY <1>1, Zenon
  <2>. QED  BY <1>1, <2>1 DEF Answer
<1>3. \A p \in Packages : IsFiniteSet(Answer(p, online)) /\ Answer(p, online) \in SUBSET AdvisoryRecords
  BY <1>2, AssessmentAssumption, FS_Subset
<1>. QED  BY <1>2, <1>3 DEF OsvAnswers

\* Nothing is published and nothing assessed at first.
LEMMA AssessmentInitInv == PolicyInit => AssessmentInv
<1>. SUFFICES ASSUME PolicyInit PROVE AssessmentInv
  OBVIOUS
<1>1. PolicyInv
  BY PolicyInitInv
<1>2. OsvFits
  BY DEF PolicyInit, OsvFits
<1>3. AssessedFits
  BY DEF PolicyInit, AssessedFits
<1>. QED  BY <1>1, <1>2, <1>3 DEF AssessmentInv

\* The profile an agent is assessed under is one that was stored.
LEMMA ProfileForType ==
    ASSUME PolicyTypes, NEW readable
    PROVE  ProfileFor(readable) \in Contents
BY DEF PolicyTypes, ProfileFor

\* Every step of the engine preserves the invariant.
LEMMA AssessmentStep == AssessmentInv /\ [PolicyNext]_policyVars => AssessmentInv'
<1>. SUFFICES ASSUME AssessmentInv, [PolicyNext]_policyVars PROVE AssessmentInv'
  OBVIOUS
<1>0. PolicyInv' /\ PolicyTypes /\ OsvFits /\ AssessedFits
  BY PolicyStep DEF AssessmentInv, PolicyInv
<1>. SUFFICES OsvFits' /\ AssessedFits'
  BY <1>0 DEF AssessmentInv
<1>1. ASSUME assessed' = NotAssessed, UNCHANGED <<osvCache, osvKnown>> PROVE OsvFits' /\ AssessedFits'
  BY <1>0, <1>1 DEF OsvFits, AssessedFits
<1>2. ASSUME NEW r \in Savers, NEW v \in Versions, NEW p \in Settings,
             NEW how \in {"printing", "writing"}, SaveProfile(r, v, p, how)
      PROVE  OsvFits' /\ AssessedFits'
  BY <1>1, <1>2 DEF SaveProfile
<1>3. ASSUME NEW r \in Savers, NEW v \in Versions, RemoveProfile(r, v) PROVE OsvFits' /\ AssessedFits'
  BY <1>1, <1>3 DEF RemoveProfile
<1>4. ASSUME NEW r \in Savers, NEW cut \in BOOLEAN,
             WriteFile(r) \/ RemoveFile(r) \/ RemoveFails(r) \/ WriteFails(r, cut)
      PROVE  OsvFits' /\ AssessedFits'
  BY <1>1, <1>4 DEF WriteFile, RemoveFile, RemoveFails, WriteFails, EndSave
<1>5. ASSUME NEW v, SetActiveProfile(v) \/ ConfigureAgent(v) PROVE OsvFits' /\ AssessedFits'
  BY <1>1, <1>5 DEF SetActiveProfile, ConfigureAgent
<1>6. CASE RestartEngine
  <2>1. osvKnown' = osvKnown /\ osvCache' = [p \in Packages |-> {}] /\ assessed' = NotAssessed
    BY <1>6 DEF RestartEngine
  <2>. QED  BY <1>0, <2>1 DEF OsvFits, AssessedFits
<1>7. ASSUME NEW payload \in Payloads, NEW readable \in BOOLEAN, NEW online \in BOOLEAN,
             AssessTelemetry(payload, readable, online)
      PROVE  OsvFits' /\ AssessedFits'
  <2>. DEFINE osv == [p \in Packages |-> Answer(p, online)]
              used == {c.name : c \in {d \in ToSet(payload.components) : d.version # << >>}}
              profile == ProfileFor(readable)
  <2>1. /\ assessed' = [payload |-> payload, profile |-> profile, osv |-> osv,
                        findings |-> Assess(payload, profile, osv)]
        /\ osvCache' = [p \in Packages |-> IF p \in used /\ online THEN {osv[p]} ELSE osvCache[p]]
        /\ osvKnown' = osvKnown
    BY <1>7 DEF AssessTelemetry
  <2>2. osv \in OsvAnswers /\ profile \in Contents
    BY <1>0, AnswerType, ProfileForType
  <2>3. \A p \in Packages : osv[p] \in SUBSET Advisories
    BY <1>0, AnswerType
  <2>. HIDE DEF osv, used, profile
  <2>4. OsvFits'
    BY <1>0, <2>1, <2>3 DEF OsvFits
  <2>5. AssessedFits'
    BY <2>1, <2>2 DEF AssessedFits
  <2>. QED  BY <2>4, <2>5
<1>8. ASSUME NEW p \in Packages, NEW a \in Advisories, AdvisoryPublished(p, a) PROVE OsvFits' /\ AssessedFits'
  <2>1. /\ assessed' = NotAssessed /\ osvCache' = osvCache
        /\ osvKnown' = [osvKnown EXCEPT ![p] = @ \cup {a}]
    BY <1>8 DEF AdvisoryPublished
  <2>. QED  BY <1>0, <2>1 DEF OsvFits, AssessedFits
<1>9. CASE UNCHANGED policyVars
  BY <1>0, <1>9 DEF policyVars, OsvFits, AssessedFits
<1>. QED  BY <1>2, <1>3, <1>4, <1>5, <1>6, <1>7, <1>8, <1>9 DEF PolicyNext

\* Where the threshold of a profile is a number
LEMMA ThresholdType ==
    ASSUME NEW profile \in Contents
    PROVE  Threshold(profile) \in Int
<1>1. profile.confidence \in Int
  <2>1. NoProfile.confidence \in Int /\ \A p \in ProfileRecords : p.confidence \in Int
    BY DEF NoProfile, ProfileRecords
  <2>. QED  BY <2>1, PolicyConstants
<1>. QED  BY <1>1 DEF Threshold

\* An assessment keeps the agent's own findings and adds candidates to them.
LEMMA AssessType ==
    ASSUME NEW payload \in PayloadRecords, NEW profile, NEW osv \in OsvAnswers
    PROVE  /\ payload.findings \in Seq(Found) /\ Candidates(payload, profile, osv) \in Seq(Found)
           /\ Assess(payload, profile, osv) \in Seq(Found)
           /\ Grown(Assess(payload, profile, osv), payload.findings, Candidates(payload, profile, osv),
                    Len(Candidates(payload, profile, osv)))
<1>1. FindingRecords \subseteq Found
  BY DEF FindingRecords, Found, Texts
<1>2. payload.findings \in Seq(FindingRecords)
  BY DEF PayloadRecords
<1>3. payload.findings \in Seq(Found)
  BY <1>1, <1>2
<1>4. Candidates(payload, profile, osv) \in Seq(Found)
  BY CandidatesFound
<1>. QED  BY <1>3, <1>4, AppendAllGrows DEF Assess

\* What AssessmentIsMonotone says, of one assessment
LEMMA AssessAgain ==
    ASSUME NEW payload \in PayloadRecords, NEW profile, NEW osv \in OsvAnswers
    PROVE  Assess([payload EXCEPT !.findings = Assess(payload, profile, osv)], profile, osv)
             = Assess(payload, profile, osv)
<1>. DEFINE found == Assess(payload, profile, osv)
            cand == Candidates(payload, profile, osv)
            p2 == [payload EXCEPT !.findings = found]
<1>1. found \in Seq(Found) /\ cand \in Seq(Found) /\ Grown(found, payload.findings, cand, Len(cand))
  BY AssessType
<1>. HIDE DEF found
<1>2. p2.findings = found /\ p2.components = payload.components /\ p2.network = payload.network
  BY DEF PayloadRecords
<1>. HIDE DEF p2
<1>3. Candidates(p2, profile, osv) = cand
  BY <1>2, Zenon DEF Candidates
<1>. HIDE DEF cand
<1>4. \A n \in 1 .. Len(cand) : \E i \in 1 .. Len(found) : SameKey(found[i], cand[n])
  BY <1>1 DEF Grown
<1>5. AppendAll(found, cand) = found
  BY <1>1, <1>4, AppendAllKeeps
<1>6. Assess(p2, profile, osv) = found
  BY <1>2, <1>3, <1>5 DEF Assess
<1>. QED  BY <1>6 DEF p2, found

\* Whatever is found under a profile is found under a stricter one.
LEMMA AssessStricter ==
    ASSUME NEW payload \in PayloadRecords, NEW osv \in OsvAnswers, NEW weak \in Contents,
           NEW strict \in Contents, Stricter(strict, weak)
    PROVE  \A i \in 1 .. Len(Assess(payload, weak, osv)) : \E k \in 1 .. Len(Assess(payload, strict, osv)) :
             /\ Assess(payload, strict, osv)[k].asset = Assess(payload, weak, osv)[i].asset
             /\ Assess(payload, strict, osv)[k].alg = Assess(payload, weak, osv)[i].alg
<1>. DEFINE own == payload.findings
            cw == Candidates(payload, weak, osv)
            cs == Candidates(payload, strict, osv)
            fw == Assess(payload, weak, osv)
            fs == Assess(payload, strict, osv)
<1>1. own \in Seq(Found) /\ cw \in Seq(Found) /\ fw \in Seq(Found) /\ Grown(fw, own, cw, Len(cw))
  BY AssessType
<1>2. cs \in Seq(Found) /\ fs \in Seq(Found) /\ Grown(fs, own, cs, Len(cs))
  BY AssessType
<1>3. Covered(ToSet(cw), ToSet(cs))
  BY CandidatesCovered, ThresholdType
<1>4. /\ \A m \in 1 .. Len(cw) : cw[m] \in ToSet(cw)
      /\ \A x \in ToSet(cs) : \E m \in 1 .. Len(cs) : x = cs[m]
  BY <1>1, <1>2 DEF ToSet
<1>. HIDE DEF own, cw, cs, fw, fs
<1>5. ASSUME NEW i \in 1 .. Len(fw) PROVE \E k \in 1 .. Len(fs) : fs[k].asset = fw[i].asset /\ fs[k].alg = fw[i].alg
  <2>0. Len(own) \in Nat /\ Len(fw) \in Nat /\ Len(fs) \in Nat
    BY <1>1, <1>2
  <2>1. CASE i \in 1 .. Len(own)
    <3>1. fw[i] = own[i] /\ fs[i] = own[i] /\ i \in 1 .. Len(fs)
      BY <1>1, <1>2, <2>0, <2>1 DEF Grown
    <3>. QED  BY <3>1
  <2>2. CASE i \in Len(own) + 1 .. Len(fw)
    <3>1. PICK m \in 1 .. Len(cw) : fw[i] = cw[m]
      BY <1>1, <2>2 DEF Grown
    <3>2. PICK y \in ToSet(cs) : y.asset = cw[m].asset /\ y.alg = cw[m].alg
      BY <1>3, <1>4 DEF Covered
    <3>3. PICK n \in 1 .. Len(cs) : y = cs[n]
      BY <1>4, <3>2
    <3>4. PICK k \in 1 .. Len(fs) : SameKey(fs[k], cs[n])
      BY <1>2 DEF Grown
    <3>. QED  BY <3>1, <3>2, <3>3, <3>4 DEF SameKey
  <2>. QED  BY <2>0, <2>1, <2>2
<1>. QED  BY <1>5 DEF fw, fs

\* Engine.Assess, for every payload, profile and answer of OSV: no key is added twice,
\* assessing the result again adds nothing, and a stricter profile (a lower threshold,
\* hybrid or CNSA required) misses no subject that a weaker one reports.
THEOREM AssessmentHolds == PolicySpec => []AssessmentIsMonotone
<1>1. ASSUME AssessmentInv PROVE AssessmentIsMonotone
  <2>. SUFFICES ASSUME assessed # NotAssessed PROVE AssessmentIsMonotone
    BY DEF AssessmentIsMonotone
  <2>. DEFINE payload == assessed.payload
              profile == assessed.profile
              osv == assessed.osv
              found == assessed.findings
  <2>1. /\ payload \in PayloadRecords /\ profile \in Contents /\ osv \in OsvAnswers
        /\ found = Assess(payload, profile, osv)
    BY <1>1, AssessmentAssumption DEF AssessmentInv, AssessedFits
  <2>. HIDE DEF payload, profile, osv, found
  <2>2. Grown(found, payload.findings, Candidates(payload, profile, osv), Len(Candidates(payload, profile, osv)))
    BY <2>1, AssessType
  <2>3. \A i, k \in 1 .. Len(found) : i < k /\ k > Len(payload.findings) => ~ SameKey(found[i], found[k])
    BY <2>2 DEF Grown
  <2>4. Assess([payload EXCEPT !.findings = found], profile, osv) = found
    BY <2>1, AssessAgain
  <2>5. ASSUME NEW v \in Versions, Stricter(profiles[v], profile)
        PROVE  \A i \in 1 .. Len(found) : \E k \in 1 .. Len(Assess(payload, profiles[v], osv)) :
                 /\ Assess(payload, profiles[v], osv)[k].asset = found[i].asset
                 /\ Assess(payload, profiles[v], osv)[k].alg = found[i].alg
    <3>1. profiles[v] \in Contents
      BY <1>1 DEF AssessmentInv, PolicyInv, PolicyTypes
    <3>. QED  BY <2>1, <2>5, <3>1, AssessStricter
  <2>. QED  BY <2>3, <2>4, <2>5, Zenon DEF AssessmentIsMonotone, payload, profile, osv, found
<1>. QED  BY AssessmentInitInv, AssessmentStep, <1>1, PTL DEF PolicySpec

\* The invariant gives the types.
LEMMA PolicyTyped == AssessmentInv => PolicyTypeOK
<1>. SUFFICES ASSUME AssessmentInv PROVE PolicyTypeOK
  OBVIOUS
<1>1. PolicyTypes
  BY DEF AssessmentInv, PolicyInv
<1>2. \A r \in Savers : saver[r] \in Request /\ saver[r].at \in {"idle", "printing", "writing", "removing"}
  BY <1>1 DEF PolicyTypes, Request
<1>3. \A i \in 1 .. Len(assessed.findings) : assessed.findings[i].severity \in 1 .. 5
  <2>1. CASE assessed = NotAssessed
    BY <2>1 DEF NotAssessed
  <2>2. CASE assessed # NotAssessed
    <3>1. assessed.findings \in Seq(Found)
      BY <2>2, AssessmentAssumption, AssessType DEF AssessmentInv, AssessedFits
    <3>2. \A i \in 1 .. Len(assessed.findings) : assessed.findings[i] \in Found
      BY <3>1
    <3>. QED  BY <3>2 DEF Found
  <2>. QED  BY <2>1, <2>2
<1>. QED  BY <1>1, <1>2, <1>3 DEF PolicyTypeOK, PolicyTypes, Contents

\* Profiles, files, requests and counters of the policy engine stay well formed, and every
\* finding of an assessment has a severity of the scale.
THEOREM PolicyTypeCorrect == PolicySpec => []PolicyTypeOK
<1>. QED  BY AssessmentInitInv, AssessmentStep, PolicyTyped, PTL DEF PolicySpec

-----------------------------------------------------------------------------
(* AgilityExercise: the day of a measurement                               *)

\* The table of metrics, a row for every host and day
Rows == [h \in ScoredHosts |-> [d \in 0 .. MaxDay |-> agilityMetrics[h][d]]]

\* r has the fields of a request.
IsRequest(r) ==
    r = [at |-> r.at, cards |-> r.cards, adapters |-> r.adapters, day |-> r.day, left |-> r.left]

\* The shape of the requests and of the table; only scored hosts are left to store.
AgilityTypes ==
    /\ today \in 0 .. MaxDay /\ shifts \in 0 .. MaxShifts
    /\ \A e \in Exercises :
         /\ IsRequest(exercise[e])
         /\ exercise[e].day \in 0 .. MaxDay
         /\ exercise[e].left \subseteq DOMAIN exercise[e].cards
         /\ exercise[e].left \subseteq ScoredHosts
    /\ exercise = [e \in Exercises |-> exercise[e]]
    /\ agilityMetrics = Rows

\* What a request still has to store was computed on its day.
StoredLater ==
    \A e \in Exercises : \A h \in exercise[e].left :
        <<h, exercise[e].day, EstimateTTSADays(exercise[e].cards[h], exercise[e].adapters)>> \in measured

\* The day of a stored metric follows from the day its request was computed on, which
\* the request still remembers while it stores host after host.
AgilityInv == AgilityTypes /\ StoredLater /\ MetricIsOfItsDay

\* No exercise has run, and nothing is stored.
LEMMA AgilityInitInv == AgilityInit => AgilityInv
<1>. SUFFICES ASSUME AgilityInit PROVE AgilityInv
  OBVIOUS
<1>1. today = 0 /\ shifts = 0 /\ exercise = [e \in Exercises |-> NoReport]
      /\ agilityMetrics = [h \in ScoredHosts |-> [d \in 0 .. MaxDay |-> NoMetric]]
  BY DEF AgilityInit
<1>2. \A e \in Exercises : IsRequest(exercise[e]) /\ exercise[e].day = 0 /\ exercise[e].left = {}
  BY <1>1 DEF NoReport, IsRequest
<1>3. 0 \in 0 .. MaxDay /\ 0 \in 0 .. MaxShifts
  BY AgilityAssumption
<1>4. agilityMetrics = Rows
  BY <1>1 DEF Rows
<1>5. AgilityTypes
  BY <1>1, <1>2, <1>3, <1>4 DEF AgilityTypes
<1>6. StoredLater /\ MetricIsOfItsDay
  BY <1>1, <1>2 DEF StoredLater, MetricIsOfItsDay
<1>. QED  BY <1>5, <1>6 DEF AgilityInv

\* All hosts on the page are measured on one day.
LEMMA StartExerciseInv ==
    ASSUME AgilityInv, NEW e \in Exercises, NEW requested \in TargetLists, NEW page,
           StartExercise(e, requested, page)
    PROVE  AgilityInv'
<1>. DEFINE read(h) == {f \in hostFindings[h] : <<h, f>> \in page}
            hs == {h \in ScoredHosts : read(h) # {}}
            cards == [h \in hs |-> ComputeScorecard(read(h), 0, 0)]
            harness == RunNegotiationHarness(IF requested = {} THEN ProfileTargets ELSE requested)
            n == [at |-> "storing", cards |-> cards, adapters |-> harness, day |-> today, left |-> hs]
<1>1. /\ exercise' = [exercise EXCEPT ![e] = n]
      /\ measured' = measured \cup {<<h, today, EstimateTTSADays(cards[h], harness)>> : h \in hs}
      /\ UNCHANGED <<agilityMetrics, today, shifts>>
  BY DEF StartExercise
<1>2. n.cards = cards /\ n.adapters = harness /\ n.day = today /\ n.left = hs
      /\ DOMAIN cards = hs /\ hs \subseteq ScoredHosts /\ IsRequest(n)
  BY DEF IsRequest
<1>. HIDE DEF read, hs, cards, harness, n
<1>3. AgilityTypes
  BY DEF AgilityInv
<1>4. exercise'[e] = n /\ \A q \in Exercises \ {e} : exercise'[q] = exercise[q]
  BY <1>1, <1>3 DEF AgilityTypes
<1>5. AgilityTypes'
  <2>1. exercise' = [q \in Exercises |-> exercise'[q]]
    BY <1>1, <1>3 DEF AgilityTypes
  <2>2. \A q \in Exercises :
          /\ IsRequest(exercise'[q])
          /\ exercise'[q].day \in 0 .. MaxDay
          /\ exercise'[q].left \subseteq DOMAIN exercise'[q].cards
          /\ exercise'[q].left \subseteq ScoredHosts
    BY <1>2, <1>3, <1>4 DEF AgilityTypes
  <2>3. agilityMetrics' = Rows'
    BY <1>1, <1>3 DEF AgilityTypes, Rows
  <2>. QED  BY <2>1, <2>2, <2>3, <1>1, <1>3 DEF AgilityTypes, IsRequest
<1>6. StoredLater'
  <2>. SUFFICES ASSUME NEW q \in Exercises, NEW h \in exercise'[q].left
                PROVE  <<h, exercise'[q].day,
                         EstimateTTSADays(exercise'[q].cards[h], exercise'[q].adapters)>> \in measured'
    BY DEF StoredLater, EstimateTTSADays
  <2>1. CASE q = e
    BY <2>1, <1>1, <1>2, <1>4
  <2>2. CASE q # e
    BY <2>2, <1>1, <1>4 DEF AgilityInv, StoredLater
  <2>. QED  BY <2>1, <2>2
<1>7. MetricIsOfItsDay'
  BY <1>1 DEF AgilityInv, MetricIsOfItsDay
<1>. QED  BY <1>5, <1>6, <1>7 DEF AgilityInv

\* One more host is stored, under the day of the measurement.
LEMMA StoreMetricsInv ==
    ASSUME AgilityInv, NEW e \in Exercises, NEW g \in ScoredHosts, NEW ok \in BOOLEAN,
           StoreMetrics(e, g, ok)
    PROVE  AgilityInv'
<1>. DEFINE value == EstimateTTSADays(exercise[e].cards[g], exercise[e].adapters)
            day == exercise[e].day
<1>1. /\ g \in exercise[e].left
      /\ exercise' = [exercise EXCEPT ![e].left = @ \ {g}]
      /\ agilityMetrics' = IF ok THEN [agilityMetrics EXCEPT ![g][day] = value] ELSE agilityMetrics
      /\ UNCHANGED <<measured, today, shifts>>
  BY DEF StoreMetrics, UpsertAgilityMetrics
<1>2. AgilityTypes
  BY DEF AgilityInv
<1>3. <<g, day, value>> \in measured
  BY <1>1 DEF AgilityInv, StoredLater
<1>4. day \in 0 .. MaxDay
  BY <1>2 DEF AgilityTypes
<1>. HIDE DEF value, day
<1>5. \A q \in Exercises :
        /\ exercise'[q].day = exercise[q].day /\ exercise'[q].cards = exercise[q].cards
        /\ exercise'[q].adapters = exercise[q].adapters
        /\ exercise'[q].left \subseteq exercise[q].left /\ IsRequest(exercise'[q])
  <2>1. exercise'[e] = [exercise[e] EXCEPT !.left = exercise[e].left \ {g}]
        /\ \A q \in Exercises \ {e} : exercise'[q] = exercise[q]
    BY <1>1, <1>2 DEF AgilityTypes
  <2>2. IsRequest(exercise[e])
    BY <1>2 DEF AgilityTypes
  <2>3. exercise'[e] = [at |-> exercise[e].at, cards |-> exercise[e].cards, adapters |-> exercise[e].adapters,
                          day |-> exercise[e].day, left |-> exercise[e].left \ {g}]
    BY <2>1, <2>2 DEF IsRequest
  <2>4. \A q \in Exercises : IsRequest(exercise[q])
    BY <1>2 DEF AgilityTypes
  <2>5. IsRequest(exercise'[e])
    BY <2>3 DEF IsRequest
  <2>. QED  BY <2>1, <2>3, <2>4, <2>5
<1>6. exercise' = [q \in Exercises |-> exercise'[q]]
  BY <1>1, <1>2 DEF AgilityTypes
<1>7. \A h \in ScoredHosts, d \in 0 .. MaxDay :
        agilityMetrics'[h][d] = IF ok /\ h = g /\ d = day THEN value ELSE agilityMetrics[h][d]
  BY <1>1, <1>2, <1>4 DEF AgilityTypes, Rows
<1>8. agilityMetrics' = Rows'
  BY <1>1, <1>2, <1>4 DEF AgilityTypes, Rows
<1>9. AgilityTypes'
  BY <1>1, <1>2, <1>5, <1>6, <1>8 DEF AgilityTypes, IsRequest
<1>10. StoredLater'
  BY <1>1, <1>5 DEF AgilityInv, StoredLater, EstimateTTSADays
<1>11. MetricIsOfItsDay'
  BY <1>1, <1>3, <1>7 DEF AgilityInv, MetricIsOfItsDay
<1>. QED  BY <1>9, <1>10, <1>11 DEF AgilityInv

\* The answer stores nothing.
LEMMA AnswerExerciseInv ==
    ASSUME AgilityInv, NEW e \in Exercises, AnswerExercise(e)
    PROVE  AgilityInv'
<1>1. /\ exercise' = [exercise EXCEPT ![e].at = "over"]
      /\ UNCHANGED <<agilityMetrics, measured, today, shifts>>
  BY DEF AnswerExercise
<1>2. AgilityTypes
  BY DEF AgilityInv
<1>3. \A q \in Exercises :
        /\ exercise'[q].day = exercise[q].day /\ exercise'[q].cards = exercise[q].cards
        /\ exercise'[q].adapters = exercise[q].adapters /\ exercise'[q].left = exercise[q].left
        /\ IsRequest(exercise'[q])
  <2>1. exercise'[e] = [exercise[e] EXCEPT !.at = "over"]
        /\ \A q \in Exercises \ {e} : exercise'[q] = exercise[q]
    BY <1>1, <1>2 DEF AgilityTypes
  <2>2. IsRequest(exercise[e])
    BY <1>2 DEF AgilityTypes
  <2>3. exercise'[e] = [at |-> "over", cards |-> exercise[e].cards, adapters |-> exercise[e].adapters,
                          day |-> exercise[e].day, left |-> exercise[e].left]
    BY <2>1, <2>2 DEF IsRequest
  <2>4. \A q \in Exercises : IsRequest(exercise[q])
    BY <1>2 DEF AgilityTypes
  <2>5. IsRequest(exercise'[e])
    BY <2>3 DEF IsRequest
  <2>. QED  BY <2>1, <2>3, <2>4, <2>5
<1>4. exercise' = [q \in Exercises |-> exercise'[q]]
  BY <1>1, <1>2 DEF AgilityTypes
<1>5. AgilityTypes'
  BY <1>1, <1>2, <1>3, <1>4 DEF AgilityTypes, Rows, IsRequest
<1>6. StoredLater'
  BY <1>1, <1>3 DEF AgilityInv, StoredLater, EstimateTTSADays
<1>7. MetricIsOfItsDay'
  BY <1>1 DEF AgilityInv, MetricIsOfItsDay
<1>. QED  BY <1>5, <1>6, <1>7 DEF AgilityInv

\* Every step of the exercises preserves the invariant.
LEMMA AgilityStep == AgilityInv /\ [AgilityNext]_agilityVars => AgilityInv'
<1>. SUFFICES ASSUME AgilityInv, [AgilityNext]_agilityVars PROVE AgilityInv'
  OBVIOUS
<1>1. ASSUME NEW e \in Exercises, NEW requested \in TargetLists, NEW page,
             StartExercise(e, requested, page)
      PROVE  AgilityInv'
  BY <1>1, StartExerciseInv
<1>2. ASSUME NEW e \in Exercises, NEW h \in ScoredHosts, NEW ok \in BOOLEAN, StoreMetrics(e, h, ok)
      PROVE  AgilityInv'
  BY <1>2, StoreMetricsInv
<1>3. ASSUME NEW e \in Exercises, AnswerExercise(e) PROVE AgilityInv'
  BY <1>3, AnswerExerciseInv
<1>4. ASSUME UNCHANGED <<exercise, agilityMetrics, measured>>, today' \in 0 .. MaxDay,
             shifts' \in 0 .. MaxShifts
      PROVE  AgilityInv'
  BY <1>4 DEF AgilityInv, AgilityTypes, IsRequest, Rows, StoredLater, MetricIsOfItsDay, EstimateTTSADays
<1>5. ASSUME NEW h \in ScoredHosts, NEW fs \in FindingSets, FindingsShift(h, fs) PROVE AgilityInv'
  BY <1>4, <1>5, AgilityAssumption DEF FindingsShift, AgilityInv, AgilityTypes
<1>6. CASE DayPasses
  BY <1>4, <1>6, AgilityAssumption DEF DayPasses, AgilityInv, AgilityTypes
<1>7. CASE UNCHANGED agilityVars
  BY <1>4, <1>7 DEF agilityVars, AgilityInv, AgilityTypes
<1>. QED  BY <1>1, <1>2, <1>3, <1>5, <1>6, <1>7 DEF AgilityNext

\* Requests, table and clock stay well formed: RunAgilityExercise stores only hosts that
\* it has a scorecard of.
THEOREM AgilityTypeCorrect == AgilitySpec => []AgilityTypeOK
<1>1. AgilityInv => AgilityTypeOK
  BY DEF AgilityInv, AgilityTypes, AgilityTypeOK
<1>. QED  BY AgilityInitInv, AgilityStep, <1>1, PTL DEF AgilitySpec

\* A stored metric is one that was measured for that host on that day: a request that
\* runs past midnight stores what it computed under the day it computed it on.
THEOREM MetricsKeepTheirDay == AgilitySpec => []MetricIsOfItsDay
<1>1. AgilityInv => MetricIsOfItsDay
  BY DEF AgilityInv
<1>. QED  BY AgilityInitInv, AgilityStep, <1>1, PTL DEF AgilitySpec

-----------------------------------------------------------------------------
(* AgilityExercise: a report adds up                                       *)

\* No share of a host's findings is rounded, and the mean over hosts is not either.
LEMMA FractionIsExact ==
    ASSUME NEW a \in Nat, NEW d \in Nat \ {0}, NEW n \in Nat \ {0}, Divides(n * d, Unit)
    PROVE  /\ Fraction(a, d) \in Int
           /\ \E q \in Int : Fraction(a, d) = n * q
<1>1. PICK q \in 0 .. Unit : Unit = (n * d) * q
  BY DEF Divides
<1>2. q \in Nat
  BY AgilityAssumption
<1>3. a * Unit = d * (n * (a * q)) /\ a * q \in Int /\ n * (a * q) \in Int
  <2>1. a * ((n * d) * q) = d * (n * (a * q))
    BY <1>2
  <2>. QED  BY <1>1, <1>2, <2>1
<1>4. Fraction(a, d) = n * (a * q)
  BY <1>3, DivisionIsExact DEF Fraction
<1>. QED  BY <1>3, <1>4

\* A share is not negative.
LEMMA PercentIsNat == \A k \in Nat : Percent(k) \in Int /\ Percent(k) >= 0
<1>1. ASSUME NEW k \in Nat PROVE Percent(k) \in Int /\ Percent(k) >= 0
  <2>1. k * Unit \in Nat
    BY AgilityAssumption
  <2>. DEFINE m == k * Unit
  <2>. HIDE DEF m
  <2>2. m \in Nat => m \div 100 \in Int /\ m \div 100 >= 0
    OBVIOUS
  <2>. QED  BY <2>1, <2>2 DEF Percent, m
<1>. QED  BY <1>1

\* Without services no level above 0 is reached.
LEMMA MaturityWithoutServices ==
    ASSUME NEW hardcoded \in Int
    PROVE  Maturity(hardcoded, 0) = 0
<1>1. ~ (0 > Percent(90)) /\ ~ (0 > Percent(80)) /\ ~ (0 > Percent(60)) /\ ~ (0 > Percent(20))
  BY PercentIsNat
<1>. QED  BY <1>1 DEF Maturity

\* What a page can hold of a host's findings
Pages == UNION {SUBSET fs : fs \in FindingSets}

\* A scorecard that the handlers can compute
Scorecards == {ComputeScorecard(fs, 0, 0) : fs \in Pages \ {{}}}

\* The figures of a scorecard are exact, whichever number of hosts they are averaged over.
LEMMA ScorecardFacts ==
    ASSUME NEW card \in Scorecards, NEW n \in 1 .. Cardinality(ScoredHosts)
    PROVE  /\ card.hardcode \in Int /\ \E q \in Int : card.hardcode = n * q
           /\ card.blast \in Int /\ \E q \in Int : card.blast = n * q
           /\ card.negotiation = 0 /\ card.maturity = 0
<1>1. PICK fs \in Pages \ {{}} : card = ComputeScorecard(fs, 0, 0)
  BY DEF Scorecards
<1>. DEFINE src == Cardinality({f \in fs : f.source})
            assets(alg) == Cardinality({f.asset : f \in {g \in fs : g.alg = alg}})
            A == {assets(f.alg) : f \in fs}
            d == Cardinality(fs)
<1>2. IsFiniteSet(fs) /\ d \in Nat \ {0} /\ n \in Nat \ {0} /\ Divides(n * d, Unit)
  <2>1. PICK s \in FindingSets : fs \subseteq s
    BY DEF Pages
  <2>2. IsFiniteSet(s)
    BY AgilityAssumption
  <2>3. IsFiniteSet(fs) /\ d <= Cardinality(s)
    BY <2>1, <2>2, FS_Subset
  <2>4. d \in Nat /\ d # 0 /\ Cardinality(s) \in Nat
    BY <2>2, <2>3, FS_CardinalityType, FS_EmptySet
  <2>5. d \in 1 .. Cardinality(s)
    BY <2>3, <2>4
  <2>6. Divides(n * d, Unit)
    BY <2>5, AgilityAssumption
  <2>7. n \in Nat \ {0}
    <3>1. Cardinality(ScoredHosts) \in Nat
      BY AgilityAssumption, FS_CardinalityType
    <3>. QED  BY <3>1
  <2>. QED  BY <2>3, <2>4, <2>6, <2>7
<1>3. src \in Nat
  <2>1. IsFiniteSet({f \in fs : f.source})
    BY <1>2, FS_Subset
  <2>. QED  BY <2>1, FS_CardinalityType
<1>4. \A alg : assets(alg) \in Nat
  <2>1. ASSUME NEW alg PROVE assets(alg) \in Nat
    <3>. DEFINE gs == {g \in fs : g.alg = alg}
    <3>1. IsFiniteSet(gs)
      BY <1>2, FS_Subset
    <3>. HIDE DEF gs
    <3>. DEFINE asset == [f \in gs |-> f.asset]
    <3>3. {asset[f] : f \in gs} = {f.asset : f \in gs} /\ DOMAIN asset = gs
      OBVIOUS
    <3>. HIDE DEF asset
    <3>2. IsFiniteSet({f.asset : f \in gs})
      BY <3>1, <3>3, FiniteImage
    <3>. QED  BY <3>2, FS_CardinalityType DEF gs
  <2>. QED  BY <2>1
<1>. HIDE DEF assets
<1>5. IsFiniteSet(A) /\ A # {} /\ A \subseteq Int
  <2>. DEFINE count == [f \in fs |-> assets(f.alg)]
  <2>0. {count[f] : f \in fs} = A /\ DOMAIN count = fs
    OBVIOUS
  <2>. HIDE DEF count, A
  <2>1. IsFiniteSet(A)
    BY <1>2, <2>0, FiniteImage
  <2>. USE DEF A
  <2>. QED  BY <1>4, <2>1
<1>. HIDE DEF A
<1>6. Max(A) \in A
  BY <1>5, MinMax
<1>7. Max(A) \in Nat
  BY <1>4, <1>6 DEF A
<1>8. Fraction(src, d) \in Int /\ \E q \in Int : Fraction(src, d) = n * q
  BY <1>2, <1>3, FractionIsExact
<1>9. Fraction(Max(A), d) \in Int /\ \E q \in Int : Fraction(Max(A), d) = n * q
  BY <1>2, <1>7, FractionIsExact
<1>10. card = [hardcode |-> Fraction(src, d), negotiation |-> 0, blast |-> Fraction(Max(A), d),
               maturity |-> Maturity(Fraction(src, d), 0)]
  <2>1. BlastRadius(fs) = Fraction(Max(A), d)
    BY Zenon DEF BlastRadius, A, assets
  <2>2. ComputeScorecard(fs, 0, 0) =
          [hardcode |-> Fraction(src, d), negotiation |-> IF 0 > 0 THEN Fraction(0, 0) ELSE 0,
           blast |-> BlastRadius(fs),
           maturity |-> Maturity(Fraction(src, d), IF 0 > 0 THEN Fraction(0, 0) ELSE 0)]
    BY Zenon DEF ComputeScorecard
  <2>3. (IF 0 > 0 THEN Fraction(0, 0) ELSE 0) = 0
    OBVIOUS
  <2>. QED  BY <1>1, <2>1, <2>2, <2>3, Zenon
<1>11. Maturity(Fraction(src, d), 0) = 0
  BY <1>8, MaturityWithoutServices
<1>. HIDE DEF src, d
<1>. QED  BY <1>8, <1>9, <1>10, <1>11

\* There are adapters, and finitely many.
LEMMA AdaptersAreFinite ==
    IsFiniteSet(BuiltinAdapters) /\ Cardinality(BuiltinAdapters) \in Nat \ {0}
<1>. DEFINE tls == {"X25519MLKEM768", "SecP256r1MLKEM768"}
            dsa == {"ML-DSA-65", "ML-DSA-87"}
            a == [name |-> "nginx", kems |-> tls, signatures |-> dsa, negotiates |-> TRUE]
            b == [name |-> "apache", kems |-> tls, signatures |-> dsa, negotiates |-> TRUE]
            c == [name |-> "ssh", kems |-> {"MLKEM768X25519-SHA256", "SNTRUP761X25519-SHA512"},
                  signatures |-> {}, negotiates |-> TRUE]
            d == [name |-> "windows-trust-store", kems |-> {}, signatures |-> dsa, negotiates |-> FALSE]
            e == [name |-> "windows-schannel-policy", kems |-> {}, signatures |-> {}, negotiates |-> FALSE]
<1>1. BuiltinAdapters = {a, b, c, d, e}
  BY Zenon DEF BuiltinAdapters
<1>. HIDE DEF a, b, c, d, e
<1>2. {a, b, c, d, e} = ((({a} \cup {b}) \cup {c}) \cup {d}) \cup {e}
  OBVIOUS
<1>3. IsFiniteSet({a})
  BY FS_Singleton
<1>4. IsFiniteSet({a} \cup {b})
  BY <1>3, FS_AddElement
<1>5. IsFiniteSet(({a} \cup {b}) \cup {c})
  BY <1>4, FS_AddElement
<1>6. IsFiniteSet((({a} \cup {b}) \cup {c}) \cup {d})
  BY <1>5, FS_AddElement
<1>7. IsFiniteSet({a, b, c, d, e})
  BY <1>2, <1>6, FS_AddElement
<1>8. {a, b, c, d, e} # {}
  OBVIOUS
<1>. QED  BY <1>1, <1>7, <1>8, FS_CardinalityType, FS_EmptySet

\* Every adapter is counted once.
LEMMA HarnessFacts ==
    ASSUME NEW raw
    PROVE  LET r == RunNegotiationHarness(raw)
           IN  /\ r.ready \in Nat /\ r.partial \in Nat /\ r.unsupported \in Nat
               /\ r.ready + r.partial + r.unsupported = Cardinality(BuiltinAdapters)
<1>. DEFINE targets == {NormalizeAlgorithm(t) : t \in raw}
            S(x) == {a \in BuiltinAdapters : Readiness(a, targets) = x}
            r == RunNegotiationHarness(raw)
<1>1. /\ r.ready = Cardinality(S("ready")) /\ r.partial = Cardinality(S("partial"))
      /\ r.unsupported = Cardinality(S("unsupported"))
  BY DEF RunNegotiationHarness
<1>. HIDE DEF targets
<1>2. \A a : Readiness(a, targets) \in {"ready", "partial", "unsupported"}
  BY DEF Readiness
<1>. DEFINE R == S("ready")
            P == S("partial")
            U == S("unsupported")
<1>3. R \cup P \cup U = BuiltinAdapters /\ R \cap P = {} /\ (R \cup P) \cap U = {}
  BY <1>2
<1>4. IsFiniteSet(R) /\ IsFiniteSet(P) /\ IsFiniteSet(U)
  BY AdaptersAreFinite, FS_Subset
<1>. HIDE DEF R, P, U
<1>5. Cardinality(R) \in Nat /\ Cardinality(P) \in Nat /\ Cardinality(U) \in Nat
  BY <1>4, FS_CardinalityType
<1>6. IsFiniteSet(R \cup P) /\ Cardinality(R \cup P) = Cardinality(R) + Cardinality(P)
  <2>1. IsFiniteSet(R \cup P) /\ Cardinality(R \cup P) = Cardinality(R) + Cardinality(P) - Cardinality(R \cap P)
    BY <1>4, FS_Union
  <2>2. Cardinality(R \cap P) = 0
    BY <1>3, FS_EmptySet
  <2>. QED  BY <1>5, <2>1, <2>2
<1>7. Cardinality((R \cup P) \cup U) = Cardinality(R) + Cardinality(P) + Cardinality(U)
  <2>. DEFINE Q == R \cup P
  <2>0. IsFiniteSet(Q) /\ Q \cap U = {} /\ Cardinality(Q) = Cardinality(R) + Cardinality(P)
    BY <1>3, <1>6
  <2>. HIDE DEF Q
  <2>1. Cardinality(Q \cup U) = Cardinality(Q) + Cardinality(U) - Cardinality(Q \cap U)
    BY <1>4, <2>0, FS_Union
  <2>2. Cardinality(Q \cap U) = 0
    BY <2>0, FS_EmptySet
  <2>. QED  BY <1>5, <2>0, <2>1, <2>2 DEF Q
<1>8. r.ready = Cardinality(R) /\ r.partial = Cardinality(P) /\ r.unsupported = Cardinality(U)
  BY <1>1 DEF R, P, U
<1>. HIDE DEF r
<1>9. r.ready \in Nat /\ r.partial \in Nat /\ r.unsupported \in Nat
      /\ r.ready + r.partial + r.unsupported = Cardinality(BuiltinAdapters)
  BY <1>3, <1>5, <1>7, <1>8
<1>. QED  BY <1>9 DEF r

\* Without services two of the four dimensions fail.
LEMMA HalfIsPassed ==
    ASSUME NEW card, card.negotiation = 0, card.maturity = 0
    PROVE  Cardinality(Passed(card)) \in Nat /\ Cardinality(Passed(card)) <= 2
<1>. DEFINE A == {"hardcode_index"}
            B == A \cup {"blast_radius_score"}
            P == Passed(card)
<1>1. IsFiniteSet(A) /\ Cardinality(A) = 1 /\ "blast_radius_score" \notin A
  BY FS_Singleton
<1>. HIDE DEF A
<1>2. IsFiniteSet(B) /\ Cardinality(B) = 2
  BY <1>1, FS_AddElement
<1>3. ~ (0 > Percent(70)) /\ ~ (0 >= 2)
  <2>1. Percent(70) >= 0 /\ Percent(70) \in Int
    BY PercentIsNat
  <2>. QED  BY <2>1
<1>4. P \subseteq B
  <2>. SUFFICES ASSUME NEW d \in P PROVE d \in B
    OBVIOUS
  <2>1. d \in Dimensions /\ d # "negotiation_coverage" /\ d # "maturity_level"
    BY <1>3 DEF Passed, Dimensions
  <2>. QED  BY <2>1 DEF Dimensions, A
<1>. HIDE DEF B, P
<1>5. IsFiniteSet(P) /\ Cardinality(P) <= Cardinality(B)
  BY <1>2, <1>4, FS_Subset
<1>6. Cardinality(P) \in Nat
  BY <1>5, FS_CardinalityType
<1>. QED  BY <1>2, <1>5, <1>6 DEF P

\* What an exercise reads of the hosts
LEMMA FleetFacts ==
    ASSUME NEW cards, DOMAIN cards \subseteq ScoredHosts, DOMAIN cards # {},
           \A h \in DOMAIN cards : cards[h] \in Scorecards
    PROVE  /\ IsFiniteSet(DOMAIN cards) /\ Cardinality(DOMAIN cards) \in Nat \ {0}
           /\ Cardinality(DOMAIN cards) \in 1 .. Cardinality(ScoredHosts)
<1>. DEFINE hs == DOMAIN cards
<1>. HIDE DEF hs
<1>1. IsFiniteSet(hs) /\ Cardinality(hs) <= Cardinality(ScoredHosts)
  BY AgilityAssumption, FS_Subset DEF hs
<1>2. Cardinality(hs) \in Nat /\ Cardinality(ScoredHosts) \in Nat /\ Cardinality(hs) # 0
  BY <1>1, AgilityAssumption, FS_CardinalityType, FS_EmptySet DEF hs
<1>. QED  BY <1>1, <1>2 DEF hs

\* On a fleet without services no more than half of the points are reached.
LEMMA NoMoreThanD ==
    ASSUME NEW cards, DOMAIN cards \subseteq ScoredHosts, \A h \in DOMAIN cards : cards[h] \in Scorecards
    PROVE  RunExercise(cards).grade \in {"D", "F"}
<1>. DEFINE hs == DOMAIN cards
            pass == [h \in hs |-> Cardinality(Passed(cards[h]))]
            n == Cardinality(hs)
            points == SumFunction(pass)
<1>1. RunExercise(cards).grade = IF hs = {} THEN "F" ELSE Grade(points, 4 * n)
  BY DEF RunExercise
<1>2. CASE hs = {}
  BY <1>1, <1>2
<1>3. CASE hs # {}
  <2>1. IsFiniteSet(hs) /\ n \in Nat \ {0} /\ n \in 1 .. Cardinality(ScoredHosts)
    BY <1>3, FleetFacts
  <2>2. \A h \in hs : pass[h] \in Int /\ 0 <= pass[h] /\ pass[h] <= 2
    <3>. SUFFICES ASSUME NEW h \in hs PROVE pass[h] \in Int /\ 0 <= pass[h] /\ pass[h] <= 2
      OBVIOUS
    <3>1. cards[h].negotiation = 0 /\ cards[h].maturity = 0
      BY <2>1, ScorecardFacts
    <3>. QED  BY <3>1, HalfIsPassed
  <2>. HIDE DEF pass, hs, n
  <2>3. Quantities(pass, hs)
    <3>1. DOMAIN pass = hs
      BY DEF pass
    <3>. QED  BY <2>2, <3>1 DEF Quantities, pass
  <2>4. points \in Int /\ points <= 2 * n
    <3>1. points \in Int
      BY <2>1, <2>3, SumType
    <3>2. points <= 2 * n
      BY <2>1, <2>2, <2>3, SumBounds DEF n
    <3>. QED  BY <3>1, <3>2
  <2>. HIDE DEF points
  <2>5. ~ (points * 100 >= 90 * (4 * n)) /\ ~ (points * 100 >= 75 * (4 * n)) /\ ~ (points * 100 >= 60 * (4 * n))
    BY <2>1, <2>4
  <2>6. Grade(points, 4 * n) \in {"D", "F"}
    BY <2>5 DEF Grade
  <2>. QED  BY <1>1, <1>3, <2>6
<1>. QED  BY <1>2, <1>3

\* The estimate is linear in the scorecard, so the estimate of the mean scorecard lies
\* between the estimates of the hosts.
LEMMA EstimateBetween ==
    ASSUME NEW cards, DOMAIN cards \subseteq ScoredHosts, DOMAIN cards # {},
           \A h \in DOMAIN cards : cards[h] \in Scorecards, NEW raw
    PROVE  LET harness == RunNegotiationHarness(raw)
               ttsa == {EstimateTTSADays(cards[h], harness) : h \in DOMAIN cards}
           IN  EstimateTTSADays(ComputeFleetScorecard(cards), harness) \in Min(ttsa) .. Max(ttsa)
<1>. DEFINE hs == DOMAIN cards
            n == Cardinality(hs)
            harness == RunNegotiationHarness(raw)
            ready == Fraction(2 * harness.ready + harness.partial, 2 * Cardinality(BuiltinAdapters))
            base == 5 * Unit + 15 * (Unit - ready)
            E(h) == EstimateTTSADays(cards[h], harness)
            ttsa == {E(h) : h \in hs}
            hard == [h \in hs |-> cards[h].hardcode]
            blast == [h \in hs |-> cards[h].blast]
            both == [h \in hs |-> 40 * cards[h].hardcode + 20 * cards[h].blast]
            mh == SumFunction(hard) \div n
            mb == SumFunction(blast) \div n
            overall == ComputeFleetScorecard(cards)
<1>1. IsFiniteSet(hs) /\ n \in Nat \ {0} /\ n \in 1 .. Cardinality(ScoredHosts)
  BY FleetFacts
<1>2. ASSUME NEW h \in hs
      PROVE  /\ cards[h].hardcode \in Int /\ \E q \in Int : cards[h].hardcode = n * q
             /\ cards[h].blast \in Int /\ \E q \in Int : cards[h].blast = n * q
  BY <1>1, ScorecardFacts
<1>3. ready \in Int /\ Unit \in Int
  <2>1. harness.ready \in Nat /\ harness.partial \in Nat /\ Cardinality(BuiltinAdapters) \in Nat \ {0}
    BY HarnessFacts, AdaptersAreFinite
  <2>. HIDE DEF harness
  <2>. DEFINE a == (2 * harness.ready + harness.partial) * Unit
              m == 2 * Cardinality(BuiltinAdapters)
  <2>2. a \in Int /\ m \in Nat \ {0} /\ Unit \in Int
    BY <2>1, AgilityAssumption
  <2>3. ready = a \div m
    BY DEF Fraction
  <2>. HIDE DEF a, m
  <2>4. a \div m \in Int
    BY <2>2
  <2>. QED  BY <2>2, <2>3, <2>4
<1>4. overall.hardcode = mh /\ overall.blast = mb
  BY DEF ComputeFleetScorecard
<1>5. \A card : EstimateTTSADays(card, harness) = 5 * Unit + 40 * card.hardcode + 20 * card.blast + 15 * (Unit - ready)
  BY DEF EstimateTTSADays
<1>. HIDE DEF ready, harness, overall
<1>6. \A h \in hs : both[h] \in Int /\ both[h] = 40 * hard[h] + 20 * blast[h] /\ E(h) = base + both[h]
  BY <1>2, <1>3, <1>5
<1>7. /\ Quantities(hard, hs) /\ Quantities(blast, hs) /\ Quantities(both, hs)
      /\ Multiples(hard, hs, n) /\ Multiples(blast, hs, n)
  <2>1. /\ \A h \in hs : \E q \in Int : hard[h] = n * q
        /\ \A h \in hs : \E q \in Int : blast[h] = n * q
        /\ \A h \in hs : hard[h] \in Int /\ blast[h] \in Int
    BY <1>2
  <2>. QED  BY <1>6, <2>1 DEF Quantities, Multiples
<1>8. base \in Int
  BY <1>3
<1>9. IsFiniteSet(ttsa) /\ ttsa \subseteq Int /\ ttsa # {}
  <2>. DEFINE f == [h \in hs |-> E(h)]
  <2>1. DOMAIN f = hs /\ {f[h] : h \in hs} = ttsa
    OBVIOUS
  <2>2. ttsa \subseteq Int /\ ttsa # {}
    BY <1>6, <1>8
  <2>. HIDE DEF f, ttsa
  <2>. QED  BY <1>1, <2>1, <2>2, FiniteImage
<1>. HIDE DEF hs, hard, blast, both, base
<1>10. /\ Min(ttsa) \in Int /\ Max(ttsa) \in Int
       /\ \A h \in hs : Min(ttsa) <= E(h) /\ E(h) <= Max(ttsa)
  <2>1. \A h \in hs : E(h) \in ttsa
    OBVIOUS
  <2>. HIDE DEF ttsa
  <2>. QED  BY <1>9, <2>1, MinMax
<1>. DEFINE mn == Min(ttsa)
            mx == Max(ttsa)
            lo == mn - base
            hi == mx - base
<1>11. lo \in Int /\ hi \in Int /\ \A h \in hs : lo <= both[h] /\ both[h] <= hi
  <2>1. \A h \in hs : mn <= E(h) /\ E(h) <= mx
    BY <1>10
  <2>2. mn \in Int /\ mx \in Int
    BY <1>10
  <2>. HIDE DEF mn, mx, E
  <2>3. \A h \in hs : both[h] \in Int /\ mn <= base + both[h] /\ base + both[h] <= mx
    BY <1>6, <2>1
  <2>. QED  BY <1>8, <2>2, <2>3
<1>. HIDE DEF ttsa, E, lo, hi, mn, mx
<1>12. lo * n <= SumFunction(both) /\ SumFunction(both) <= hi * n
  BY <1>1, <1>7, <1>11, SumBounds
<1>13. SumFunction(both) = 40 * SumFunction(hard) + 20 * SumFunction(blast)
  <2>1. Combines(both, 40, hard, 20, blast, hs)
    BY <1>6 DEF Combines
  <2>. QED  BY <1>1, <1>7, <2>1, SumOfTwo
<1>14. mh \in Int /\ SumFunction(hard) = n * mh
  BY <1>1, <1>7, MeanIsExact DEF hs
<1>15. mb \in Int /\ SumFunction(blast) = n * mb
  BY <1>1, <1>7, MeanIsExact DEF hs
<1>. HIDE DEF n, mh, mb
<1>. DEFINE x == 40 * mh + 20 * mb
<1>16. 40 * (n * mh) + 20 * (n * mb) = n * x
  BY <1>1, <1>14, <1>15
<1>17. x \in Int
  BY <1>14, <1>15
<1>18. SumFunction(both) = n * x
  BY <1>13, <1>14, <1>15, <1>16
<1>19. EstimateTTSADays(overall, harness) = base + x
  BY <1>3, <1>4, <1>5, <1>14, <1>15 DEF base
<1>. HIDE DEF x
<1>20. lo <= x /\ x <= hi
  BY <1>1, <1>11, <1>12, <1>17, <1>18, FactorCancels
<1>21. EstimateTTSADays(overall, harness) \in Min(ttsa) .. Max(ttsa)
  BY <1>8, <1>10, <1>17, <1>19, <1>20 DEF lo, hi, mn, mx
<1>. QED  BY <1>21, Zenon DEF overall, harness, ttsa, E, hs

\* What a request computed comes from scorecards of hosts that have findings and from a
\* run of the harness.
ReportFits(x) ==
    /\ DOMAIN x.cards \subseteq ScoredHosts
    /\ \A h \in DOMAIN x.cards : x.cards[h] \in Scorecards
    /\ \E raw \in TargetLists \cup {ProfileTargets} : x.adapters = RunNegotiationHarness(raw)

\* The reports in progress are computed ones.
ReportInv ==
    /\ hostFindings \in [ScoredHosts -> FindingSets]
    /\ \A e \in Exercises : exercise[e].at = "storing" => ReportFits(exercise[e])

\* Nothing is in progress at first.
LEMMA ReportInitInv == AgilityInit => ReportInv
BY DEF AgilityInit, ReportInv, NoReport

\* A report is computed from one reading of the findings and then kept as it is.
LEMMA ReportStep == AgilityInv /\ ReportInv /\ [AgilityNext]_agilityVars => ReportInv'
<1>. SUFFICES ASSUME AgilityInv, ReportInv, [AgilityNext]_agilityVars PROVE ReportInv'
  OBVIOUS
<1>0. /\ exercise = [e \in Exercises |-> exercise[e]]
      /\ \A e \in Exercises : IsRequest(exercise[e])
  BY DEF AgilityInv, AgilityTypes
<1>1. ASSUME NEW e \in Exercises, NEW requested \in TargetLists, NEW page,
             StartExercise(e, requested, page)
      PROVE  ReportInv'
  <2>. DEFINE read(h) == {f \in hostFindings[h] : <<h, f>> \in page}
              hs == {h \in ScoredHosts : read(h) # {}}
              cards == [h \in hs |-> ComputeScorecard(read(h), 0, 0)]
              raw == IF requested = {} THEN ProfileTargets ELSE requested
              harness == RunNegotiationHarness(raw)
              n == [at |-> "storing", cards |-> cards, adapters |-> harness, day |-> today, left |-> hs]
  <2>1. exercise' = [exercise EXCEPT ![e] = n] /\ hostFindings' = hostFindings
    BY <1>1 DEF StartExercise
  <2>2. ASSUME NEW h \in hs PROVE cards[h] \in Scorecards
    <3>1. hostFindings[h] \in FindingSets /\ read(h) \subseteq hostFindings[h] /\ read(h) # {}
      BY DEF ReportInv
    <3>2. cards[h] = ComputeScorecard(read(h), 0, 0)
      OBVIOUS
    <3>. HIDE DEF read, hs, cards
    <3>3. \E fs \in FindingSets : read(h) \in SUBSET fs
      BY <3>1
    <3>. QED  BY <3>1, <3>2, <3>3 DEF Scorecards, Pages
  <2>3. raw \in TargetLists \cup {ProfileTargets}
    OBVIOUS
  <2>4. n.cards = cards /\ n.adapters = harness /\ DOMAIN cards = hs /\ hs \subseteq ScoredHosts
    OBVIOUS
  <2>. HIDE DEF n, cards, harness, raw, hs, read
  <2>5. ReportFits(n)
    BY <2>2, <2>3, <2>4 DEF ReportFits, harness
  <2>6. \A q \in Exercises : exercise'[q] = IF q = e THEN n ELSE exercise[q]
    BY <1>0, <2>1
  <2>7. \A q \in Exercises : exercise'[q].at = "storing" => ReportFits(exercise'[q])
    BY <2>5, <2>6 DEF ReportInv
  <2>8. hostFindings' \in [ScoredHosts -> FindingSets]
    BY <2>1 DEF ReportInv
  <2>. QED  BY <2>7, <2>8 DEF ReportInv, ReportFits
<1>2. ASSUME NEW e \in Exercises, NEW x,
             x.cards = exercise[e].cards, x.adapters = exercise[e].adapters,
             exercise[e].at = "storing", exercise' = [exercise EXCEPT ![e] = x],
             hostFindings' = hostFindings
      PROVE  ReportInv'
  <2>1. ReportFits(x)
    BY <1>2 DEF ReportInv, ReportFits
  <2>2. \A q \in Exercises : exercise'[q] = IF q = e THEN x ELSE exercise[q]
    BY <1>0, <1>2
  <2>3. \A q \in Exercises : exercise'[q].at = "storing" => ReportFits(exercise'[q])
    BY <2>1, <2>2 DEF ReportInv
  <2>4. hostFindings' \in [ScoredHosts -> FindingSets]
    BY <1>2 DEF ReportInv
  <2>. QED  BY <2>3, <2>4 DEF ReportInv, ReportFits
<1>3. ASSUME NEW e \in Exercises, NEW h \in ScoredHosts, NEW ok \in BOOLEAN, StoreMetrics(e, h, ok)
      PROVE  ReportInv'
  <2>. DEFINE x == [exercise[e] EXCEPT !.left = exercise[e].left \ {h}]
  <2>1. /\ exercise[e].at = "storing" /\ exercise' = [exercise EXCEPT ![e] = x]
        /\ hostFindings' = hostFindings
    BY <1>0, <1>3 DEF StoreMetrics
  <2>2. x.cards = exercise[e].cards /\ x.adapters = exercise[e].adapters
    BY <1>0 DEF IsRequest
  <2>. HIDE DEF x
  <2>. QED  BY <1>2, <2>1, <2>2
<1>4. ASSUME NEW e \in Exercises, AnswerExercise(e) PROVE ReportInv'
  <2>. DEFINE x == [exercise[e] EXCEPT !.at = "over"]
  <2>1. /\ exercise[e].at = "storing" /\ exercise' = [exercise EXCEPT ![e] = x]
        /\ hostFindings' = hostFindings
    BY <1>0, <1>4 DEF AnswerExercise
  <2>2. x.cards = exercise[e].cards /\ x.adapters = exercise[e].adapters
    BY <1>0 DEF IsRequest
  <2>. HIDE DEF x
  <2>. QED  BY <1>2, <2>1, <2>2
<1>5. ASSUME exercise' = exercise, hostFindings' \in [ScoredHosts -> FindingSets] PROVE ReportInv'
  BY <1>5 DEF ReportInv, ReportFits
<1>6. ASSUME NEW h \in ScoredHosts, NEW fs \in FindingSets, FindingsShift(h, fs) PROVE ReportInv'
  <2>1. hostFindings' \in [ScoredHosts -> FindingSets] /\ exercise' = exercise
    BY <1>6 DEF FindingsShift, ReportInv
  <2>. QED  BY <1>5, <2>1
<1>7. CASE DayPasses
  BY <1>5, <1>7 DEF DayPasses, ReportInv
<1>8. CASE UNCHANGED agilityVars
  BY <1>5, <1>8 DEF agilityVars, ReportInv
<1>. QED  BY <1>1, <1>3, <1>4, <1>6, <1>7, <1>8 DEF AgilityNext

\* A computed report has its bounds.
LEMMA ReportIsBounded == ReportInv => EstimateIsBetween /\ GradeIsCapped
<1>. SUFFICES ASSUME ReportInv PROVE EstimateIsBetween /\ GradeIsCapped
  OBVIOUS
<1>1. ASSUME NEW e \in Exercises, exercise[e].at = "storing", DOMAIN exercise[e].cards # {}
      PROVE  LET cards   == exercise[e].cards
                 harness == exercise[e].adapters
                 ttsa    == {EstimateTTSADays(cards[h], harness) : h \in DOMAIN cards}
             IN  EstimateTTSADays(ComputeFleetScorecard(cards), harness) \in Min(ttsa) .. Max(ttsa)
  <2>. DEFINE cards   == exercise[e].cards
              harness == exercise[e].adapters
              overall == ComputeFleetScorecard(cards)
              T(x)    == {EstimateTTSADays(cards[h], x) : h \in DOMAIN cards}
  <2>1. /\ DOMAIN cards \subseteq ScoredHosts /\ \A h \in DOMAIN cards : cards[h] \in Scorecards
        /\ DOMAIN cards # {}
        /\ \E raw : harness = RunNegotiationHarness(raw)
    BY <1>1 DEF ReportInv, ReportFits
  <2>2. PICK raw : harness = RunNegotiationHarness(raw)
    BY <2>1
  <2>. HIDE DEF cards, harness
  <2>3. EstimateTTSADays(overall, RunNegotiationHarness(raw))
          \in Min(T(RunNegotiationHarness(raw))) .. Max(T(RunNegotiationHarness(raw)))
    BY <2>1, EstimateBetween, Zenon
  <2>. HIDE DEF overall
  <2>4. EstimateTTSADays(overall, harness) \in Min(T(harness)) .. Max(T(harness))
    BY <2>2, <2>3, Zenon
  <2>. QED  BY <2>4, Zenon DEF overall, cards, harness
<1>2. EstimateIsBetween
  BY <1>1, Zenon DEF EstimateIsBetween
<1>3. GradeIsCapped
  <2>. SUFFICES ASSUME NEW e \in Exercises, exercise[e].at = "storing"
                PROVE  RunExercise(exercise[e].cards).grade \in {"D", "F"}
    BY Zenon DEF GradeIsCapped
  <2>1. DOMAIN exercise[e].cards \subseteq ScoredHosts
        /\ \A h \in DOMAIN exercise[e].cards : exercise[e].cards[h] \in Scorecards
    BY DEF ReportInv, ReportFits
  <2>. QED  BY <2>1, NoMoreThanD, Zenon
<1>. QED  BY <1>2, <1>3

\* An exercise (agilityExercise) stores what it computed under its day; its estimate for the
\* fleet lies between those of the hosts it read, and no fleet is graded better than D.
THEOREM ExercisesConsistent == AgilitySpec => []ExerciseIsConsistent
<1>. DEFINE I == AgilityInv /\ ReportInv
<1>1. AgilityInit => I
  BY AgilityInitInv, ReportInitInv
<1>2. I /\ [AgilityNext]_agilityVars => I'
  BY AgilityStep, ReportStep
<1>3. I => ExerciseIsConsistent
  BY ReportIsBounded DEF AgilityInv, ExerciseIsConsistent
<1>. QED  BY <1>1, <1>2, <1>3, PTL DEF AgilitySpec

-----------------------------------------------------------------------------
(* SlidingWindow: a budget per hour                                        *)

\* The limiter still knows every event of the past that is younger than the window, and
\* the past keeps the limit.
BudgetFits(events, past, limit, window, time) ==
    /\ IsFiniteSet(past) /\ \A e \in past : e.at \in Int /\ e.at <= time
    /\ limit > 0 =>
         /\ events \subseteq past /\ Kept(past, window, time) \subseteq events
         /\ WithinLimit(past, limit, window)

\* A limiter without events fits a past without events.
LEMMA BudgetStarts ==
    ASSUME NEW limit \in Int, NEW window \in Int, NEW time \in Int
    PROVE  BudgetFits({}, {}, limit, window, time)
BY FS_EmptySet DEF BudgetFits, Kept, WithinLimit

\* Time only makes events leave the window.
LEMMA BudgetAges ==
    ASSUME NEW events, NEW past, NEW limit \in Int, NEW window \in Int, NEW time \in Int,
           BudgetFits(events, past, limit, window, time)
    PROVE  BudgetFits(events, past, limit, window, time + 1)
BY DEF BudgetFits, Kept

\* A refused request forgets old events only.
LEMMA BudgetRefuses ==
    ASSUME NEW events, NEW past, NEW limit \in Int, NEW window \in Int, NEW time \in Int, NEW by,
           BudgetFits(events, past, limit, window, time), ~ Allows(events, limit, window, time)
    PROVE  BudgetFits(AfterRequest(events, limit, window, by, time), past, limit, window, time)
<1>1. limit > 0
  BY DEF Allows
<1>2. AfterRequest(events, limit, window, by, time) = Kept(events, window, time)
  BY <1>1 DEF AfterRequest
<1>3. Kept(past, window, time) \subseteq Kept(events, window, time)
  BY <1>1 DEF BudgetFits, Kept
<1>4. Kept(events, window, time) \subseteq past
  BY <1>1 DEF BudgetFits, Kept
<1>. QED  BY <1>2, <1>3, <1>4 DEF BudgetFits

\* An admitted request is one more event, and the past still keeps the limit in every
\* window that ends now.
LEMMA BudgetSpends ==
    ASSUME NEW events, NEW past, NEW limit \in Int, NEW window \in Nat \ {0}, NEW time \in Int, NEW by,
           BudgetFits(events, past, limit, window, time), Allows(events, limit, window, time)
    PROVE  BudgetFits(AfterRequest(events, limit, window, by, time), past \cup {Event(by, time)},
                      limit, window, time)
<1>. DEFINE e == Event(by, time)
            after == past \cup {e}
<1>1. e.at = time
  BY DEF Event
<1>2. IsFiniteSet(after)
  BY FS_AddElement DEF BudgetFits
<1>. HIDE DEF e
<1>3. \A d \in after : d.at \in Int /\ d.at <= time
  BY <1>1 DEF BudgetFits
<1>4. ASSUME limit > 0
      PROVE  /\ AfterRequest(events, limit, window, by, time) \subseteq after
             /\ Kept(after, window, time) \subseteq AfterRequest(events, limit, window, by, time)
             /\ WithinLimit(after, limit, window)
  <2>0. events \subseteq past /\ Kept(past, window, time) \subseteq events /\ WithinLimit(past, limit, window)
    BY <1>4 DEF BudgetFits
  <2>1. AfterRequest(events, limit, window, by, time) = Kept(events, window, time) \cup {e}
    BY <1>4 DEF AfterRequest, e
  <2>2. Kept(events, window, time) = Kept(past, window, time)
    BY <2>0 DEF Kept
  <2>3. Kept(after, window, time) = Kept(past, window, time) \cup {e}
    BY <1>1 DEF Kept
  <2>4. IsFiniteSet(Kept(past, window, time))
    <3>1. Kept(past, window, time) \subseteq past /\ IsFiniteSet(past)
      BY DEF Kept, BudgetFits
    <3>. QED  BY <3>1, FS_Subset
  <2>5. Cardinality(Kept(past, window, time)) \in Nat /\ Cardinality(Kept(past, window, time)) < limit
    BY <1>4, <2>2, <2>4, FS_CardinalityType DEF Allows
  <2>6. Cardinality(Kept(after, window, time)) <= limit
    <3>1. Cardinality(Kept(past, window, time) \cup {e}) = Cardinality(Kept(past, window, time))
          \/ Cardinality(Kept(past, window, time) \cup {e}) = Cardinality(Kept(past, window, time)) + 1
      BY <2>4, FS_AddElement
    <3>. QED  BY <2>3, <2>5, <3>1
  <2>7. WithinLimit(after, limit, window)
    <3>. SUFFICES ASSUME NEW d \in after
                  PROVE  Cardinality({x \in after : x.at <= d.at /\ x.at > d.at - window}) <= limit
      BY DEF WithinLimit
    <3>1. CASE d.at = time
      <4>1. {x \in after : x.at <= d.at /\ x.at > d.at - window} = Kept(after, window, time)
        BY <1>3, <3>1 DEF Kept
      <4>. QED  BY <4>1, <2>6
    <3>2. CASE d.at # time
      <4>1. d \in past /\ d.at < time
        BY <1>1, <1>3, <3>2
      <4>2. {x \in after : x.at <= d.at /\ x.at > d.at - window} =
            {x \in past : x.at <= d.at /\ x.at > d.at - window}
        BY <1>1, <1>3, <4>1
      <4>. QED  BY <4>1, <4>2, <2>0 DEF WithinLimit
    <3>. QED  BY <3>1, <3>2
  <2>. QED  BY <2>0, <2>1, <2>2, <2>3, <2>7 DEF Kept
<1>. QED  BY <1>2, <1>3, <1>4 DEF BudgetFits, e

-----------------------------------------------------------------------------
(* LlmJobs: jobs, batches and the budget of calls                          *)

\* The rows of jobs, the stages of a goroutine that has started, and the batch's counters
Statuses == {"none", "queued", "running", "failed", "completed"}
JobRows == [kind : {"none", "triage", "remediation"}, status : Statuses]
Working == {"ready", "asking", "asked", "invalid", "valid", "recorded", "rejected", "persisted"}
Batches == [total : Int, queued : Int, running : Int, completed : Int, failed : Int,
            skipped : Int, refused : Int]

\* The shape of the jobs, of their goroutines and of the batch
LlmTypes ==
    /\ job \in [JobIds -> JobRows] /\ worker \in [JobIds -> Working \cup {"none", "unit", "over"}]
    /\ inBatch \subseteq JobIds /\ IsFiniteSet(inBatch) /\ batch \in Batches
    /\ outcome \in [JobIds -> {"none", "verdict", "suggestion"}] /\ llmNow \in Int

\* A job without a row has no goroutine, and the jobs of a finding are numbered from one.
Used(f) == {n \in 1 .. MaxRuns : job[<<f, n>>] # NoJob}
Fresh(j) == job[j] = NoJob
JobsFit ==
    /\ \A j \in JobIds : job[j].kind = "none" <=> Fresh(j)
    /\ \A j \in JobIds : Fresh(j) => worker[j] = "none"
    /\ \A f \in Subjects : Used(f) = 1 .. Cardinality(Used(f))

\* What the stages of a job leave behind for the later ones
ResultsFit ==
    \A j \in JobIds :
        /\ outcome[j] # "none" => j \in provenance
        /\ job[j].status = "completed" => outcome[j] # "none"
        /\ worker[j] = "recorded" => j \in provenance
        /\ worker[j] = "persisted" => outcome[j] # "none"

\* The counters are the numbers of units that wait and that run.
Waiting == {j \in inBatch : worker[j] = "unit"}
Running == {j \in inBatch : worker[j] \notin {"unit", "over"}}
CountsFit ==
    /\ \A j \in inBatch : worker[j] # "none"
    /\ \A j \in JobIds : worker[j] = "unit" => j \in inBatch
    /\ batch.queued = Cardinality(Waiting) /\ batch.running = Cardinality(Running)
    /\ batch.running <= MaxConcurrent
    /\ batch.queued + batch.running + batch.completed + (batch.failed - batch.refused) = batch.total

\* The counters of a batch add up because each is the size of a set of units, and every
\* move of a unit changes exactly one or two of them.
LlmInv ==
    /\ LlmTypes /\ JobsFit /\ ResultsFit /\ CountsFit
    /\ BudgetFits(callEvents, calls, CallLimit, CallWindow, llmNow)

\* The budget is a number, and an absent job or batch is well formed.
LEMMA LlmConstants ==
    /\ CallLimit \in Int /\ CallWindow \in Nat \ {0} /\ CallWindow \in Int
    /\ NoJob \in JobRows /\ NoJob.kind = "none" /\ NoJob.status = "none" /\ NoBatch \in Batches
<1>1. NoJob \in JobRows /\ NoJob.kind = "none" /\ NoJob.status = "none"
  BY DEF NoJob, JobRows, Statuses
<1>2. NoBatch \in Batches
  BY DEF NoBatch, Batches
<1>. QED  BY <1>1, <1>2, LlmAssumption

\* No job has been submitted.
LEMMA LlmInitInv == LlmInit => LlmInv
<1>. SUFFICES ASSUME LlmInit PROVE LlmInv
  OBVIOUS
<1>1. LlmTypes
  BY LlmConstants, FS_EmptySet DEF LlmInit, LlmTypes
<1>2. \A j \in JobIds : job[j] = NoJob /\ worker[j] = "none" /\ outcome[j] = "none"
  BY DEF LlmInit
<1>3. JobsFit
  <2>1. ASSUME NEW f \in Subjects PROVE Used(f) = 1 .. Cardinality(Used(f))
    <3>1. Used(f) = {}
      BY <1>2 DEF Used, JobIds
    <3>. QED  BY <3>1, FS_EmptySet
  <2>. QED  BY <2>1, <1>2, LlmConstants DEF JobsFit, Fresh
<1>4. ResultsFit
  BY <1>2, LlmConstants DEF ResultsFit
<1>5. CountsFit
  <2>1. Waiting = {} /\ Running = {} /\ inBatch = {}
    BY DEF LlmInit, Waiting, Running
  <2>2. batch.queued = 0 /\ batch.running = 0 /\ batch.completed = 0 /\ batch.failed = 0
        /\ batch.refused = 0 /\ batch.total = 0
    BY DEF LlmInit, NoBatch
  <2>. QED  BY <2>1, <2>2, <1>2, FS_EmptySet, LlmAssumption DEF CountsFit
<1>6. BudgetFits(callEvents, calls, CallLimit, CallWindow, llmNow)
  BY BudgetStarts, LlmConstants DEF LlmInit
<1>. QED  BY <1>1, <1>3, <1>4, <1>5, <1>6 DEF LlmInv

\* The next number of a finding is fresh.
LEMMA NextIsFresh ==
    ASSUME LlmTypes, JobsFit, NEW f \in Subjects, NextRun(f) <= MaxRuns
    PROVE  /\ <<f, NextRun(f)>> \in JobIds /\ Fresh(<<f, NextRun(f)>>)
           /\ NextRun(f) \in 1 .. MaxRuns /\ Used(f) = 1 .. NextRun(f) - 1
<1>1. Used(f) \subseteq 1 .. MaxRuns /\ IsFiniteSet(1 .. MaxRuns)
  BY FS_Interval, LlmAssumption DEF Used
<1>2. IsFiniteSet(Used(f)) /\ Cardinality(Used(f)) \in Nat
  BY <1>1, FS_Subset, FS_CardinalityType
<1>3. NextRun(f) = Cardinality(Used(f)) + 1
  BY DEF NextRun, Used
<1>4. NextRun(f) \in 1 .. MaxRuns
  BY <1>2, <1>3, LlmAssumption
<1>5. Used(f) = 1 .. Cardinality(Used(f))
  BY DEF JobsFit
<1>6. NextRun(f) \notin Used(f)
  BY <1>2, <1>3, <1>5
<1>7. Used(f) = 1 .. NextRun(f) - 1
  BY <1>2, <1>3, <1>5
<1>8. Fresh(<<f, NextRun(f)>>)
  BY <1>4, <1>6 DEF Used, Fresh
<1>. QED  BY <1>4, <1>7, <1>8 DEF JobIds

\* A finding that gets its next job keeps its numbers in order.
LEMMA NumbersGrow ==
    ASSUME NEW n \in Nat, n >= 1, NEW s, s = 1 .. n - 1
    PROVE  s \cup {n} = 1 .. Cardinality(s \cup {n})
<1>1. s \cup {n} = 1 .. n
  OBVIOUS
<1>2. Cardinality(1 .. n) = n
  BY FS_Interval
<1>. QED  BY <1>1, <1>2

\* A single job gets the next number of its finding, and no batch.
LEMMA SubmitOneInv ==
    ASSUME LlmInv, NEW f \in Subjects, NEW kind \in {"triage", "remediation"}, SubmitOne(f, kind)
    PROVE  LlmInv'
<1>. DEFINE j == <<f, NextRun(f)>>
            n == Queued(kind)
<1>0. LlmTypes /\ JobsFit /\ ResultsFit /\ CountsFit
  BY DEF LlmInv
<1>1. NextRun(f) <= MaxRuns
  BY DEF SubmitOne
<1>2. j \in JobIds /\ Fresh(j) /\ NextRun(f) \in 1 .. MaxRuns /\ Used(f) = 1 .. NextRun(f) - 1
  BY <1>0, <1>1, NextIsFresh
<1>3. n \in JobRows /\ n.kind = kind /\ n.status = "queued" /\ n # NoJob
  BY DEF Queued, JobRows, Statuses, NoJob
<1>4. PICK place \in {"ready", "over"} :
        /\ job' = [job EXCEPT ![j] = n] /\ worker' = [worker EXCEPT ![j] = place]
        /\ UNCHANGED <<inBatch, batch, provenance, outcome, callEvents, calls, llmNow>>
  BY DEF SubmitOne
<1>. HIDE DEF n
<1>5. worker[j] = "none" /\ j \notin inBatch
  BY <1>0, <1>2 DEF JobsFit, CountsFit
<1>6. job'[j] = n /\ worker'[j] = place
      /\ \A k \in JobIds \ {j} : job'[k] = job[k] /\ worker'[k] = worker[k]
  BY <1>0, <1>2, <1>4 DEF LlmTypes
<1>7. LlmTypes'
  BY <1>0, <1>2, <1>3, <1>4 DEF LlmTypes, Working
<1>8. JobsFit'
  <2>1. \A k \in JobIds : (job'[k].kind = "none" <=> Fresh(k)') /\ (Fresh(k)' => worker'[k] = "none")
    BY <1>0, <1>3, <1>6 DEF JobsFit, Fresh
  <2>2. ASSUME NEW g \in Subjects PROVE Used(g)' = 1 .. Cardinality(Used(g)')
    <3>1. CASE g = f
      <4>1. Used(f)' = Used(f) \cup {NextRun(f)}
        BY <1>2, <1>3, <1>6 DEF Used, JobIds
      <4>2. NextRun(f) \in Nat /\ NextRun(f) >= 1
        BY <1>2, LlmAssumption
      <4>. QED  BY <3>1, <4>1, <4>2, <1>2, NumbersGrow
    <3>2. CASE g # f
      <4>1. Used(g)' = Used(g)
        BY <3>2, <1>6 DEF Used, JobIds
      <4>. QED  BY <4>1, <1>0 DEF JobsFit
    <3>. QED  BY <3>1, <3>2
  <2>. QED  BY <2>1, <2>2 DEF JobsFit
<1>9. ResultsFit'
  BY <1>0, <1>3, <1>4, <1>6 DEF ResultsFit
<1>10. CountsFit'
  <2>1. \A k \in inBatch : worker'[k] = worker[k]
    BY <1>0, <1>5, <1>6 DEF LlmTypes
  <2>2. Waiting' = Waiting /\ Running' = Running
    BY <2>1, <1>4 DEF Waiting, Running
  <2>3. \A k \in JobIds : worker'[k] = "unit" => k \in inBatch
    BY <1>0, <1>6 DEF CountsFit
  <2>. QED  BY <2>1, <2>2, <2>3, <1>0, <1>4 DEF CountsFit
<1>. QED  BY <1>4, <1>7, <1>8, <1>9, <1>10 DEF LlmInv

\* There are finitely many jobs, so that units can be counted.
LEMMA JobsAreFinite == IsFiniteSet(JobIds)
<1>1. IsFiniteSet(Subjects) /\ IsFiniteSet(1 .. MaxRuns)
  BY LlmAssumption, FS_Interval
<1>. QED  BY <1>1, FS_Product DEF JobIds

\* Two jobs of a batch are about different findings.
LEMMA MadeOnce ==
    ASSUME NEW s \in SUBSET Subjects, NEW f \in Subjects
    PROVE  \A n : <<f, n>> \in {<<g, NextRun(g)>> : g \in s} <=> f \in s /\ n = NextRun(f)
OBVIOUS

\* A batch queues one job per selected finding, and counts what it queues, skips and
\* refuses.
LEMMA SubmitBatchInv ==
    ASSUME LlmInv, NEW selected \in SUBSET Subjects, NEW force \in BOOLEAN,
           NEW kind \in {"triage", "remediation"}, SubmitBatch(selected, force, kind)
    PROVE  LlmInv'
<1>. DEFINE wanted == {f \in selected : force \/ ~ HasVerdict(f)}
            n == Queued(kind)
<1>0. LlmTypes /\ JobsFit /\ ResultsFit /\ CountsFit
  BY DEF LlmInv
<1>1. inBatch = {} /\ (\A f \in selected : NextRun(f) <= MaxRuns)
      /\ UNCHANGED <<provenance, outcome, callEvents, calls, llmNow>>
  BY DEF SubmitBatch
<1>2. PICK refused \in SUBSET selected :
        LET posted == {<<f, NextRun(f)>> : f \in wanted \ refused}
        IN  /\ inBatch' = posted
            /\ job' = [j \in JobIds |-> IF j \in posted THEN n ELSE job[j]]
            /\ worker' = [j \in JobIds |-> IF j \in posted THEN "unit" ELSE worker[j]]
            /\ batch' = [total |-> Cardinality(posted), queued |-> Cardinality(posted), running |-> 0,
                          completed |-> 0, failed |-> Cardinality(refused),
                          skipped |-> Cardinality(selected \ wanted), refused |-> Cardinality(refused)]
  BY DEF SubmitBatch
<1>. DEFINE those == wanted \ refused
            posted == {<<f, NextRun(f)>> : f \in those}
<1>3. those \in SUBSET Subjects /\ those \subseteq selected
  OBVIOUS
<1>4. /\ inBatch' = posted
      /\ job' = [j \in JobIds |-> IF j \in posted THEN n ELSE job[j]]
      /\ worker' = [j \in JobIds |-> IF j \in posted THEN "unit" ELSE worker[j]]
  BY <1>2
<1>5. batch' = [total |-> Cardinality(posted), queued |-> Cardinality(posted), running |-> 0,
                completed |-> 0, failed |-> Cardinality(refused),
                skipped |-> Cardinality(selected \ wanted), refused |-> Cardinality(refused)]
  BY <1>2
<1>6. IsFiniteSet(Subjects)
  BY LlmAssumption
<1>7. Cardinality(refused) \in Nat /\ Cardinality(selected \ wanted) \in Nat
  <2>1. refused \subseteq Subjects /\ selected \ wanted \subseteq Subjects
    OBVIOUS
  <2>. HIDE DEF wanted
  <2>. QED  BY <1>6, <2>1, FS_Subset, FS_CardinalityType
<1>8. n \in JobRows /\ n.kind = kind /\ n.status = "queued" /\ n # NoJob
  BY DEF Queued, JobRows, Statuses, NoJob
<1>. HIDE DEF wanted, n, those
<1>9. \A f \in those : /\ <<f, NextRun(f)>> \in JobIds /\ Fresh(<<f, NextRun(f)>>)
                       /\ NextRun(f) \in 1 .. MaxRuns /\ Used(f) = 1 .. NextRun(f) - 1
  BY <1>0, <1>1, <1>3, NextIsFresh
<1>10. posted \subseteq JobIds /\ \A j \in posted : Fresh(j)
  BY <1>9
<1>11. \A f \in Subjects : \A i : <<f, i>> \in posted <=> f \in those /\ i = NextRun(f)
  BY <1>3, MadeOnce
<1>12. IsFiniteSet(posted) /\ Cardinality(posted) \in Nat
  BY <1>10, JobsAreFinite, FS_Subset, FS_CardinalityType
<1>. HIDE DEF posted
<1>13. \A j \in JobIds :
         /\ job'[j] = IF j \in posted THEN n ELSE job[j]
         /\ worker'[j] = IF j \in posted THEN "unit" ELSE worker[j]
  BY <1>4
<1>14. LlmTypes'
  <2>1. batch' \in Batches
    BY <1>5, <1>7, <1>12 DEF Batches
  <2>2. job' \in [JobIds -> JobRows] /\ worker' \in [JobIds -> Working \cup {"none", "unit", "over"}]
    BY <1>0, <1>4, <1>8 DEF LlmTypes
  <2>. QED  BY <1>0, <1>1, <1>4, <1>10, <1>12, <2>1, <2>2 DEF LlmTypes
<1>15. JobsFit'
  <2>1. \A k \in JobIds : (job'[k].kind = "none" <=> Fresh(k)') /\ (Fresh(k)' => worker'[k] = "none")
    BY <1>0, <1>8, <1>13 DEF JobsFit, Fresh
  <2>2. ASSUME NEW g \in Subjects PROVE Used(g)' = 1 .. Cardinality(Used(g)')
    <3>0. \A i \in 1 .. MaxRuns : <<g, i>> \in JobIds
      BY DEF JobIds
    <3>1. CASE g \in those
      <4>0. \A i \in 1 .. MaxRuns : job'[<<g, i>>] # NoJob <=> job[<<g, i>>] # NoJob \/ i = NextRun(g)
        BY <3>0, <3>1, <1>8, <1>11, <1>13
      <4>a. NextRun(g) \in 1 .. MaxRuns
        BY <3>1, <1>9
      <4>1. Used(g)' = Used(g) \cup {NextRun(g)}
        <5>1. \A i : i \in Used(g)' <=> i \in 1 .. MaxRuns /\ job'[<<g, i>>] # NoJob
          BY DEF Used
        <5>2. \A i : i \in Used(g) <=> i \in 1 .. MaxRuns /\ job[<<g, i>>] # NoJob
          BY DEF Used
        <5>. QED  BY <5>1, <5>2, <4>0, <4>a, Zenon
      <4>2. NextRun(g) \in Nat /\ NextRun(g) >= 1
        BY <4>a, LlmAssumption
      <4>. QED  BY <3>1, <4>1, <4>2, <1>9, NumbersGrow
    <3>2. CASE g \notin those
      <4>1. Used(g)' = Used(g)
        BY <3>0, <3>2, <1>11, <1>13 DEF Used
      <4>. QED  BY <4>1, <1>0 DEF JobsFit
    <3>. QED  BY <3>1, <3>2
  <2>. QED  BY <2>1, <2>2 DEF JobsFit
<1>16. ResultsFit'
  BY <1>0, <1>1, <1>8, <1>13 DEF ResultsFit
<1>17. CountsFit'
  <2>1. Waiting' = posted /\ Running' = {}
    BY <1>4, <1>10, <1>13 DEF Waiting, Running
  <2>2. \A k \in JobIds : worker[k] # "unit"
    BY <1>0, <1>1 DEF CountsFit
  <2>3. (\A k \in inBatch' : worker'[k] # "none") /\ \A k \in JobIds : worker'[k] = "unit" => k \in inBatch'
    BY <1>4, <1>10, <1>13, <2>2
  <2>4. batch'.queued = Cardinality(Waiting') /\ batch'.running = Cardinality(Running')
    BY <2>1, <1>5, FS_EmptySet
  <2>5. batch'.running <= MaxConcurrent
    BY <1>5, LlmAssumption
  <2>6. batch'.queued + batch'.running + batch'.completed + (batch'.failed - batch'.refused) = batch'.total
    BY <1>5, <1>7, <1>12
  <2>. QED  BY <2>3, <2>4, <2>5, <2>6 DEF CountsFit
<1>. QED  BY <1>1, <1>14, <1>15, <1>16, <1>17 DEF LlmInv

\* One counter down and another up, as explicit records
BatchRow(t, q, r, c, f, s, x) ==
    [total |-> t, queued |-> q, running |-> r, completed |-> c, failed |-> f, skipped |-> s, refused |-> x]

\* The three moves of a unit between the counters.
LEMMA BatchMoves ==
    ASSUME NEW b \in Batches
    PROVE  /\ [b EXCEPT !.queued = @ - 1, !.running = @ + 1] =
                BatchRow(b.total, b.queued - 1, b.running + 1, b.completed, b.failed, b.skipped, b.refused)
           /\ [b EXCEPT !.running = @ - 1, !.completed = @ + 1] =
                BatchRow(b.total, b.queued, b.running - 1, b.completed + 1, b.failed, b.skipped, b.refused)
           /\ [b EXCEPT !.running = @ - 1, !.failed = @ + 1] =
                BatchRow(b.total, b.queued, b.running - 1, b.completed, b.failed + 1, b.skipped, b.refused)
<1>0. b = BatchRow(b.total, b.queued, b.running, b.completed, b.failed, b.skipped, b.refused)
  BY DEF Batches, BatchRow
<1>1. [b EXCEPT !.queued = @ - 1, !.running = @ + 1] =
        BatchRow(b.total, b.queued - 1, b.running + 1, b.completed, b.failed, b.skipped, b.refused)
  <2>. DEFINE o == [b EXCEPT !.queued = b.queued - 1]
  <2>1. o = BatchRow(b.total, b.queued - 1, b.running, b.completed, b.failed, b.skipped, b.refused)
    BY <1>0 DEF BatchRow
  <2>. HIDE DEF o
  <2>2. [o EXCEPT !.running = o.running + 1] =
          BatchRow(b.total, b.queued - 1, b.running + 1, b.completed, b.failed, b.skipped, b.refused)
    BY <2>1 DEF BatchRow
  <2>. QED  BY <2>2 DEF o
<1>2. [b EXCEPT !.running = @ - 1, !.completed = @ + 1] =
        BatchRow(b.total, b.queued, b.running - 1, b.completed + 1, b.failed, b.skipped, b.refused)
  <2>. DEFINE o == [b EXCEPT !.running = b.running - 1]
  <2>1. o = BatchRow(b.total, b.queued, b.running - 1, b.completed, b.failed, b.skipped, b.refused)
    BY <1>0 DEF BatchRow
  <2>. HIDE DEF o
  <2>2. [o EXCEPT !.completed = o.completed + 1] =
          BatchRow(b.total, b.queued, b.running - 1, b.completed + 1, b.failed, b.skipped, b.refused)
    BY <2>1 DEF BatchRow
  <2>. QED  BY <2>2 DEF o
<1>3. [b EXCEPT !.running = @ - 1, !.failed = @ + 1] =
        BatchRow(b.total, b.queued, b.running - 1, b.completed, b.failed + 1, b.skipped, b.refused)
  <2>. DEFINE o == [b EXCEPT !.running = b.running - 1]
  <2>1. o = BatchRow(b.total, b.queued, b.running - 1, b.completed, b.failed, b.skipped, b.refused)
    BY <1>0 DEF BatchRow
  <2>. HIDE DEF o
  <2>2. [o EXCEPT !.failed = o.failed + 1] =
          BatchRow(b.total, b.queued, b.running - 1, b.completed, b.failed + 1, b.skipped, b.refused)
    BY <2>1 DEF BatchRow
  <2>. QED  BY <2>2 DEF o
<1>. QED  BY <1>1, <1>2, <1>3

\* A unit starts when fewer than the limit run.
LEMMA StartUnitInv ==
    ASSUME LlmInv, NEW j \in JobIds, StartUnit(j)
    PROVE  LlmInv'
<1>0. LlmTypes /\ JobsFit /\ ResultsFit /\ CountsFit
  BY DEF LlmInv
<1>1. /\ worker[j] = "unit" /\ batch.running < MaxConcurrent
      /\ worker' = [worker EXCEPT ![j] = "ready"]
      /\ batch' = [batch EXCEPT !.queued = @ - 1, !.running = @ + 1]
      /\ UNCHANGED <<job, inBatch, provenance, outcome, callEvents, calls, llmNow>>
  BY DEF StartUnit
<1>2. batch \in Batches
  BY <1>0 DEF LlmTypes
<1>3. batch' = BatchRow(batch.total, batch.queued - 1, batch.running + 1, batch.completed,
                        batch.failed, batch.skipped, batch.refused)
  <2>1. batch' = [batch EXCEPT !.queued = @ - 1, !.running = @ + 1]
    BY DEF StartUnit
  <2>. QED  BY <1>2, <2>1, BatchMoves, Zenon
<1>a. /\ worker[j] = "unit" /\ batch.running < MaxConcurrent
      /\ worker' = [worker EXCEPT ![j] = "ready"]
      /\ UNCHANGED <<job, inBatch, provenance, outcome, callEvents, calls, llmNow>>
  BY <1>1, Zenon
<1>4. worker'[j] = "ready" /\ \A k \in JobIds \ {j} : worker'[k] = worker[k]
  BY <1>0, <1>a DEF LlmTypes
<1>5. j \in inBatch /\ ~ Fresh(j)
  BY <1>0, <1>a DEF CountsFit, JobsFit
<1>6. LlmTypes'
  <2>1. batch' \in Batches
    BY <1>2, <1>3 DEF Batches, BatchRow
  <2>. QED  BY <2>1, <1>0, <1>a DEF LlmTypes, Working
<1>7. JobsFit'
  BY <1>0, <1>a, <1>4, <1>5 DEF JobsFit, Fresh, Used
<1>8. ResultsFit'
  BY <1>0, <1>a, <1>4 DEF ResultsFit
<1>9. CountsFit'
  <2>1. Waiting' = Waiting \ {j} /\ j \in Waiting
    BY <1>0, <1>a, <1>4, <1>5 DEF Waiting, LlmTypes
  <2>2. Running' = Running \cup {j} /\ j \notin Running
    BY <1>0, <1>a, <1>4, <1>5 DEF Running, LlmTypes
  <2>3. IsFiniteSet(Waiting) /\ IsFiniteSet(Running)
    <3>1. Waiting \subseteq inBatch /\ Running \subseteq inBatch /\ IsFiniteSet(inBatch)
      BY <1>0 DEF Waiting, Running, LlmTypes
    <3>. QED  BY <3>1, FS_Subset
  <2>4. Cardinality(Waiting') = Cardinality(Waiting) - 1
    BY <2>1, <2>3, FS_RemoveElement
  <2>5. Cardinality(Running') = Cardinality(Running) + 1
    BY <2>2, <2>3, FS_AddElement
  <2>6. /\ batch'.queued = batch.queued - 1 /\ batch'.running = batch.running + 1
        /\ batch'.completed = batch.completed /\ batch'.failed = batch.failed
        /\ batch'.refused = batch.refused /\ batch'.total = batch.total
    BY <1>3 DEF BatchRow
  <2>7. /\ batch.queued \in Int /\ batch.running \in Int /\ batch.completed \in Int
        /\ batch.failed \in Int /\ batch.refused \in Int
    BY <1>2 DEF Batches
  <2>8. (\A k \in inBatch' : worker'[k] # "none") /\ \A k \in JobIds : worker'[k] = "unit" => k \in inBatch'
    BY <1>0, <1>a, <1>4 DEF CountsFit, LlmTypes
  <2>9. batch.queued = Cardinality(Waiting) /\ batch.running = Cardinality(Running)
        /\ batch.queued + batch.running + batch.completed + (batch.failed - batch.refused) = batch.total
    BY <1>0 DEF CountsFit
  <2>10. batch'.queued = Cardinality(Waiting') /\ batch'.running = Cardinality(Running')
    BY <2>4, <2>5, <2>6, <2>9
  <2>11. batch'.running <= MaxConcurrent
    BY <2>6, <2>7, <1>a, LlmAssumption
  <2>12. batch'.queued + batch'.running + batch'.completed + (batch'.failed - batch'.refused) = batch'.total
    BY <2>6, <2>7, <2>9
  <2>. QED  BY <2>8, <2>10, <2>11, <2>12 DEF CountsFit
<1>10. BudgetFits(callEvents, calls, CallLimit, CallWindow, llmNow)'
  BY <1>a DEF LlmInv
<1>. QED  BY <1>6, <1>7, <1>8, <1>9, <1>10 DEF LlmInv

\* A goroutine between two stages: the counters stay.
LEMMA GoesCounts ==
    ASSUME LlmTypes, CountsFit, NEW j \in JobIds, worker[j] \in Working, NEW place \in Working,
           worker' = [worker EXCEPT ![j] = place], batch' = batch, inBatch' = inBatch
    PROVE  CountsFit'
<1>1. worker'[j] = place /\ \A k \in JobIds \ {j} : worker'[k] = worker[k]
  BY DEF LlmTypes
<1>2. Waiting' = Waiting /\ Running' = Running
  BY <1>1 DEF Waiting, Running, LlmTypes, Working
<1>3. \A k \in JobIds : (worker'[k] = "unit" => worker[k] = "unit") /\ (worker'[k] = "none" => worker[k] = "none")
  BY <1>1 DEF Working
<1>. QED  BY <1>2, <1>3 DEF CountsFit, LlmTypes

\* A goroutine that returns: its unit, if it is one, is counted once.
LEMMA EndsCounts ==
    ASSUME LlmTypes, CountsFit, NEW j \in JobIds, worker[j] \in Working, NEW ok \in BOOLEAN,
           Ends(j, ok), inBatch' = inBatch
    PROVE  CountsFit' /\ batch' \in Batches
<1>0. batch \in Batches
  BY DEF LlmTypes
<1>a. worker' = [worker EXCEPT ![j] = "over"]
  BY DEF Ends
<1>1. worker'[j] = "over" /\ \A k \in JobIds \ {j} : worker'[k] = worker[k]
  BY <1>a DEF LlmTypes
<1>2. Waiting' = Waiting /\ Running' = Running \ {j} /\ (j \in Running <=> j \in inBatch)
  BY <1>1 DEF Waiting, Running, LlmTypes, Working
<1>3. IsFiniteSet(Running)
  <2>1. Running \subseteq inBatch /\ IsFiniteSet(inBatch)
    BY DEF Running, LlmTypes
  <2>. QED  BY <2>1, FS_Subset
<1>4. (\A k \in inBatch' : worker'[k] # "none") /\ \A k \in JobIds : worker'[k] = "unit" => k \in inBatch'
  BY <1>1 DEF CountsFit, LlmTypes, Working
<1>5. /\ batch.queued = Cardinality(Waiting) /\ batch.running = Cardinality(Running)
      /\ batch.running <= MaxConcurrent
      /\ batch.queued + batch.running + batch.completed + (batch.failed - batch.refused) = batch.total
  BY DEF CountsFit
<1>6. /\ batch.queued \in Int /\ batch.running \in Int /\ batch.completed \in Int
      /\ batch.failed \in Int /\ batch.refused \in Int
  BY <1>0 DEF Batches
<1>7. CASE j \notin inBatch
  <2>1. batch' = batch
    BY <1>7 DEF Ends
  <2>2. Running' = Running
    BY <1>2, <1>7
  <2>. QED  BY <2>1, <2>2, <1>0, <1>2, <1>4, <1>5 DEF CountsFit
<1>8. CASE j \in inBatch
  <2>1. Cardinality(Running') = Cardinality(Running) - 1
    BY <1>2, <1>3, <1>8, FS_RemoveElement
  <2>2. \/ batch' = BatchRow(batch.total, batch.queued, batch.running - 1, batch.completed + 1,
                            batch.failed, batch.skipped, batch.refused)
        \/ batch' = BatchRow(batch.total, batch.queued, batch.running - 1, batch.completed,
                            batch.failed + 1, batch.skipped, batch.refused)
    <3>1. CASE ok
      <4>1. batch' = [batch EXCEPT !.running = @ - 1, !.completed = @ + 1]
        BY <1>8, <3>1, Zenon DEF Ends
      <4>. QED  BY <4>1, <1>0, BatchMoves, Zenon
    <3>2. CASE ~ ok
      <4>1. batch' = [batch EXCEPT !.running = @ - 1, !.failed = @ + 1]
        BY <1>8, <3>2, Zenon DEF Ends
      <4>. QED  BY <4>1, <1>0, BatchMoves, Zenon
    <3>. QED  BY <3>1, <3>2
  <2>3. batch' \in Batches
    BY <2>2, <1>0 DEF Batches, BatchRow
  <2>4. /\ batch'.queued = batch.queued /\ batch'.running = batch.running - 1
        /\ batch'.completed + batch'.failed = batch.completed + batch.failed + 1
        /\ batch'.refused = batch.refused /\ batch'.total = batch.total
    BY <2>2, <1>6 DEF BatchRow
  <2>5. batch'.completed \in Int /\ batch'.failed \in Int
    BY <2>3 DEF Batches
  <2>6. batch'.queued = Cardinality(Waiting') /\ batch'.running = Cardinality(Running')
    BY <2>1, <2>4, <1>2, <1>5
  <2>7. batch'.running <= MaxConcurrent
    BY <2>4, <1>5, <1>6, LlmAssumption
  <2>8. batch'.queued + batch'.running + batch'.completed + (batch'.failed - batch'.refused) = batch'.total
    BY <2>4, <2>5, <1>5, <1>6
  <2>. QED  BY <2>3, <2>6, <2>7, <2>8, <1>4 DEF CountsFit
<1>. QED  BY <1>7, <1>8

\* A job that has a row is marked.
Marked(j, mark) == [job EXCEPT ![j].status = mark]
Remarks(j) ==
    \E mark \in Statuses :
        job' = Marked(j, mark) /\ (mark = "completed" => outcome[j] # "none")

\* What a stage of job j may do: it goes on or ends, marks the row, records provenance,
\* or stores a result that has provenance.
LEMMA StageInv ==
    ASSUME LlmInv, NEW j \in JobIds, worker[j] \in Working,
           NEW place \in Working \cup {"over"}, worker' = [worker EXCEPT ![j] = place],
           place = "over" => \E ok \in BOOLEAN : Ends(j, ok),
           place # "over" => batch' = batch,
           job' = job \/ Remarks(j), provenance \subseteq provenance',
           outcome' = outcome \/ (outcome' = [outcome EXCEPT ![j] = ResultOf(j)] /\ j \in provenance'),
           place = "recorded" => j \in provenance',
           place = "persisted" => outcome'[j] # "none",
           inBatch' = inBatch, llmNow' = llmNow,
           BudgetFits(callEvents', calls', CallLimit, CallWindow, llmNow)
    PROVE  LlmInv'
<1>0. LlmTypes /\ JobsFit /\ ResultsFit /\ CountsFit
  BY DEF LlmInv
<1>1. worker'[j] = place /\ \A k \in JobIds \ {j} : worker'[k] = worker[k]
  BY <1>0 DEF LlmTypes
<1>2. CountsFit' /\ batch' \in Batches
  <2>1. CASE place = "over"
    <3>1. PICK ok \in BOOLEAN : Ends(j, ok)
      BY <2>1
    <3>. QED  BY <3>1, <1>0, EndsCounts
  <2>2. CASE place # "over"
    <3>1. place \in Working
      BY <2>2
    <3>. QED  BY <2>2, <3>1, <1>0, GoesCounts DEF LlmTypes
  <2>. QED  BY <2>1, <2>2
<1>3. ~ Fresh(j) /\ job[j] \in JobRows
  BY <1>0 DEF JobsFit, LlmTypes, Working
<1>4. job' \in [JobIds -> JobRows] /\ \A k \in JobIds :
        /\ job'[k].kind = job[k].kind /\ (job'[k] = NoJob <=> job[k] = NoJob)
        /\ job'[k].status = "completed" => job[k].status = "completed" \/ (k = j /\ outcome[j] # "none")
  <2>1. CASE job' = job
    BY <2>1, <1>0 DEF LlmTypes
  <2>2. CASE Remarks(j)
    <3>0. PICK mark \in Statuses :
            job' = Marked(j, mark) /\ (mark = "completed" => outcome[j] # "none")
      BY <2>2 DEF Remarks
    <3>1. Marked(j, mark)[j] = [kind |-> job[j].kind, status |-> mark]
          /\ (\A k \in JobIds \ {j} : Marked(j, mark)[k] = job[k])
          /\ Marked(j, mark) = [k \in JobIds |-> Marked(j, mark)[k]]
      BY <1>0, <1>3 DEF LlmTypes, Marked, JobRows
    <3>2. job[j].kind # "none" /\ job[j].kind \in {"none", "triage", "remediation"}
      BY <1>0, <1>3 DEF JobsFit, JobRows
    <3>. DEFINE n == [kind |-> job[j].kind, status |-> mark]
    <3>3. n \in JobRows /\ n.kind = job[j].kind /\ n.status = mark /\ n # NoJob
      BY <3>2 DEF JobRows, NoJob
    <3>. HIDE DEF n
    <3>4. job'[j] = n /\ (\A k \in JobIds \ {j} : job'[k] = job[k])
          /\ job' = [k \in JobIds |-> job'[k]]
      BY <3>0, <3>1 DEF n
    <3>5. job' \in [JobIds -> JobRows]
      BY <3>3, <3>4, <1>0 DEF LlmTypes
    <3>. QED  BY <3>0, <3>3, <3>4, <3>5, <1>3 DEF Fresh
  <2>. QED  BY <2>1, <2>2
<1>5. outcome' \in [JobIds -> {"none", "verdict", "suggestion"}] /\ \A k \in JobIds :
        /\ outcome[k] # "none" => outcome'[k] # "none"
        /\ outcome'[k] # "none" => outcome[k] # "none" \/ (k = j /\ j \in provenance')
  <2>1. ResultOf(j) \in {"verdict", "suggestion"}
    BY DEF ResultOf
  <2>. QED  BY <2>1, <1>0 DEF LlmTypes
<1>6. LlmTypes'
  BY <1>0, <1>2, <1>4, <1>5 DEF LlmTypes
<1>7. JobsFit'
  <2>1. \A f \in Subjects : Used(f)' = Used(f)
    BY <1>4 DEF Used, JobIds
  <2>2. \A k \in JobIds : (job'[k].kind = "none" <=> Fresh(k)') /\ (Fresh(k)' => worker'[k] = "none")
    BY <1>0, <1>1, <1>3, <1>4 DEF JobsFit, Fresh
  <2>. QED  BY <2>1, <2>2, <1>0 DEF JobsFit
<1>8. ResultsFit'
  BY <1>0, <1>1, <1>4, <1>5 DEF ResultsFit
<1>9. BudgetFits(callEvents, calls, CallLimit, CallWindow, llmNow)'
  OBVIOUS
<1>. QED  BY <1>2, <1>6, <1>7, <1>8, <1>9 DEF LlmInv

\* The stages without the budget
LEMMA MarkRunningInv ==
    ASSUME LlmInv, NEW j \in JobIds, MarkRunning(j)
    PROVE  LlmInv'
<1>1. worker[j] \in Working /\ UNCHANGED <<inBatch, llmNow, provenance, outcome, callEvents, calls>>
  BY DEF MarkRunning, kept, Working
<1>2. BudgetFits(callEvents', calls', CallLimit, CallWindow, llmNow)
  BY <1>1 DEF LlmInv
<1>3. CASE job' = [job EXCEPT ![j].status = "running"] /\ Goes(j, "asking")
  <2>1. "asking" \in Working /\ worker' = [worker EXCEPT ![j] = "asking"] /\ batch' = batch
    BY <1>3 DEF Goes, Working
  <2>2. Remarks(j)
    BY <1>3 DEF Remarks, Marked, Statuses
  <2>. QED  BY <1>1, <1>2, <2>1, <2>2, StageInv
<1>4. CASE Ends(j, FALSE) /\ UNCHANGED job
  <2>1. worker' = [worker EXCEPT ![j] = "over"]
    BY <1>4 DEF Ends
  <2>. QED  BY <1>1, <1>2, <1>4, <2>1, StageInv
<1>. QED  BY <1>3, <1>4 DEF MarkRunning

\* A failing stage
LEMMA FailJobInv ==
    ASSUME LlmInv, NEW j \in JobIds, worker[j] \in Working, FailJob(j),
           UNCHANGED <<inBatch, llmNow, provenance, outcome>>,
           BudgetFits(callEvents', calls', CallLimit, CallWindow, llmNow)
    PROVE  LlmInv'
<1>1. (job' = job \/ Remarks(j)) /\ Ends(j, FALSE)
  BY DEF FailJob, Marks, Marked, Remarks, Statuses
<1>2. worker' = [worker EXCEPT ![j] = "over"]
  BY <1>1 DEF Ends
<1>. QED  BY <1>1, <1>2, StageInv

\* A call to the provider is an event of the budget, or is refused by it.
LEMMA AskProviderInv ==
    ASSUME LlmInv, NEW j \in JobIds, AskProvider(j)
    PROVE  LlmInv'
<1>1. worker[j] \in Working /\ UNCHANGED <<inBatch, llmNow, provenance, outcome>>
      /\ callEvents' = AfterRequest(callEvents, CallLimit, CallWindow, j, llmNow)
  BY DEF AskProvider, kept, Working
<1>2. BudgetFits(callEvents, calls, CallLimit, CallWindow, llmNow) /\ llmNow \in Int
  BY DEF LlmInv, LlmTypes
<1>3. CASE Allows(callEvents, CallLimit, CallWindow, llmNow)
  <2>1. calls' = calls \cup {Event(j, llmNow)} /\ job' = job /\ batch' = batch
        /\ worker' = [worker EXCEPT ![j] = "asked"] /\ "asked" \in Working
    BY <1>3 DEF AskProvider, Goes, Working, Statuses
  <2>2. BudgetFits(callEvents', calls', CallLimit, CallWindow, llmNow)
    BY <1>1, <1>2, <1>3, <2>1, BudgetSpends, LlmConstants
  <2>. QED  BY <1>1, <2>1, <2>2, StageInv
<1>4. CASE ~ Allows(callEvents, CallLimit, CallWindow, llmNow)
  <2>1. calls' = calls /\ FailJob(j)
    BY <1>4 DEF AskProvider
  <2>2. BudgetFits(callEvents', calls', CallLimit, CallWindow, llmNow)
    BY <1>1, <1>2, <1>4, <2>1, BudgetRefuses, LlmConstants
  <2>. QED  BY <1>1, <2>1, <2>2, FailJobInv
<1>. QED  BY <1>3, <1>4

\* The answer arrives, and is valid or not.
LEMMA ProviderAnswersInv ==
    ASSUME LlmInv, NEW j \in JobIds, NEW a \in Answers, ProviderAnswers(j, a)
    PROVE  LlmInv'
<1>1. worker[j] \in Working /\ UNCHANGED <<inBatch, llmNow, provenance, outcome, callEvents, calls>>
  BY DEF ProviderAnswers, kept, Working
<1>2. BudgetFits(callEvents', calls', CallLimit, CallWindow, llmNow)
  BY <1>1 DEF LlmInv
<1>3. CASE a = "error"
  <2>1. FailJob(j)
    BY <1>3 DEF ProviderAnswers
  <2>. QED  BY <1>1, <1>2, <2>1, FailJobInv
<1>4. CASE a # "error"
  <2>. DEFINE place == IF a = "invalid" THEN "invalid" ELSE "valid"
  <2>1. place \in Working /\ place # "recorded" /\ place # "persisted" /\ place # "over"
        /\ worker' = [worker EXCEPT ![j] = place] /\ batch' = batch /\ job' = job
    BY <1>4 DEF ProviderAnswers, Goes, Working, Statuses
  <2>. HIDE DEF place
  <2>. QED  BY <1>1, <1>2, <2>1, StageInv
<1>. QED  BY <1>3, <1>4

\* The provenance of an answer is recorded before anything comes of it.
LEMMA RecordProvenanceInv ==
    ASSUME LlmInv, NEW j \in JobIds, RecordProvenance(j)
    PROVE  LlmInv'
<1>1. worker[j] \in Working /\ UNCHANGED <<inBatch, llmNow, outcome, callEvents, calls>>
  BY DEF RecordProvenance, kept, Working, Statuses
<1>2. BudgetFits(callEvents', calls', CallLimit, CallWindow, llmNow)
  BY <1>1 DEF LlmInv
<1>3. CASE provenance' = provenance \cup {j} /\ UNCHANGED job
           /\ Goes(j, IF worker[j] = "valid" THEN "recorded" ELSE "rejected")
  <2>. DEFINE place == IF worker[j] = "valid" THEN "recorded" ELSE "rejected"
  <2>1. place \in Working /\ place # "persisted" /\ place # "over"
        /\ worker' = [worker EXCEPT ![j] = place] /\ batch' = batch
    BY <1>3 DEF Goes, Working
  <2>. HIDE DEF place
  <2>. QED  BY <1>1, <1>2, <1>3, <2>1, StageInv
<1>4. CASE Ends(j, FALSE) /\ UNCHANGED <<provenance, job>>
  <2>1. worker' = [worker EXCEPT ![j] = "over"]
    BY <1>4 DEF Ends
  <2>. QED  BY <1>1, <1>2, <1>4, <2>1, StageInv
<1>. QED  BY <1>3, <1>4 DEF RecordProvenance

\* An invalid answer ends the job.
LEMMA RejectAnswerInv ==
    ASSUME LlmInv, NEW j \in JobIds, RejectAnswer(j)
    PROVE  LlmInv'
<1>1. worker[j] \in Working /\ UNCHANGED <<inBatch, llmNow, provenance, outcome, callEvents, calls>>
      /\ FailJob(j)
  BY DEF RejectAnswer, kept, Working
<1>2. BudgetFits(callEvents', calls', CallLimit, CallWindow, llmNow)
  BY <1>1 DEF LlmInv
<1>. QED  BY <1>1, <1>2, FailJobInv

\* The result is stored after its provenance.
LEMMA PersistInv ==
    ASSUME LlmInv, NEW j \in JobIds, Persist(j)
    PROVE  LlmInv'
<1>1. worker[j] \in Working /\ UNCHANGED <<inBatch, llmNow, job, provenance, callEvents, calls>>
      /\ worker[j] = "recorded"
  BY DEF Persist, kept, Working, Statuses
<1>2. BudgetFits(callEvents', calls', CallLimit, CallWindow, llmNow)
  BY <1>1 DEF LlmInv
<1>3. CASE outcome' = [outcome EXCEPT ![j] = ResultOf(j)] /\ Goes(j, "persisted")
  <2>1. "persisted" \in Working /\ worker' = [worker EXCEPT ![j] = "persisted"] /\ batch' = batch
        /\ ResultOf(j) \in {"verdict", "suggestion"}
    BY <1>3 DEF Goes, Working, ResultOf
  <2>2. j \in provenance'
    BY <1>1 DEF LlmInv, ResultsFit
  <2>3. outcome'[j] # "none"
    BY <1>3, <2>1 DEF LlmInv, LlmTypes
  <2>. QED  BY <1>1, <1>2, <1>3, <2>1, <2>2, <2>3, StageInv
<1>4. CASE Ends(j, FALSE) /\ UNCHANGED outcome
  <2>1. worker' = [worker EXCEPT ![j] = "over"]
    BY <1>4 DEF Ends
  <2>. QED  BY <1>1, <1>2, <1>4, <2>1, StageInv
<1>. QED  BY <1>3, <1>4 DEF Persist

\* The row is marked completed after the result is stored.
LEMMA CompleteInv ==
    ASSUME LlmInv, NEW j \in JobIds, Complete(j)
    PROVE  LlmInv'
<1>1. worker[j] \in Working /\ UNCHANGED <<inBatch, llmNow, provenance, outcome, callEvents, calls>>
      /\ worker[j] = "persisted" /\ Ends(j, TRUE)
  BY DEF Complete, kept, Working
<1>2. BudgetFits(callEvents', calls', CallLimit, CallWindow, llmNow)
  BY <1>1 DEF LlmInv
<1>3. outcome[j] # "none"
  BY <1>1 DEF LlmInv, ResultsFit
<1>4. worker' = [worker EXCEPT ![j] = "over"]
  BY <1>1 DEF Ends
<1>5. job' = job \/ Remarks(j)
  BY <1>3 DEF Complete, Marks, Marked, Remarks, Statuses
<1>. QED  BY <1>1, <1>2, <1>4, <1>5, StageInv

\* Cancellation and time change nothing that the invariant is about but the clock.
LEMMA LlmElsewhere ==
    ASSUME LlmInv, UNCHANGED <<job, worker, inBatch, batch, provenance, outcome, callEvents, calls>>,
           llmNow' = llmNow \/ llmNow' = llmNow + 1
    PROVE  LlmInv'
<1>1. LlmTypes' /\ JobsFit' /\ ResultsFit'
  BY DEF LlmInv, LlmTypes, JobsFit, Fresh, Used, ResultsFit
<1>2. CountsFit'
  BY DEF LlmInv, CountsFit, Waiting, Running
<1>3. llmNow \in Int /\ BudgetFits(callEvents, calls, CallLimit, CallWindow, llmNow)
  BY DEF LlmInv, LlmTypes
<1>4. BudgetFits(callEvents, calls, CallLimit, CallWindow, llmNow)'
  BY <1>3, BudgetAges, LlmConstants
<1>. QED  BY <1>1, <1>2, <1>4 DEF LlmInv

\* Every step of the analysis preserves the invariant.
LEMMA LlmStep == LlmInv /\ [LlmNext]_llmVars => LlmInv'
<1>. SUFFICES ASSUME LlmInv, [LlmNext]_llmVars PROVE LlmInv'
  OBVIOUS
<1>1. ASSUME NEW f \in Subjects, NEW kind \in {"triage", "remediation"}, SubmitOne(f, kind) PROVE LlmInv'
  BY <1>1, SubmitOneInv
<1>2. ASSUME NEW selected \in SUBSET Subjects, NEW force \in BOOLEAN,
             NEW kind \in {"triage", "remediation"}, SubmitBatch(selected, force, kind)
      PROVE  LlmInv'
  BY <1>2, SubmitBatchInv
<1>3. ASSUME NEW j \in JobIds, StartUnit(j) \/ MarkRunning(j) \/ AskProvider(j) \/ RecordProvenance(j)
      PROVE  LlmInv'
  BY <1>3, StartUnitInv, MarkRunningInv, AskProviderInv, RecordProvenanceInv
<1>4. ASSUME NEW j \in JobIds, RejectAnswer(j) \/ Persist(j) \/ Complete(j) PROVE LlmInv'
  BY <1>4, RejectAnswerInv, PersistInv, CompleteInv
<1>5. ASSUME NEW j \in JobIds, NEW a \in Answers, ProviderAnswers(j, a) PROVE LlmInv'
  BY <1>5, ProviderAnswersInv
<1>6. ASSUME NEW j \in JobIds, ClientLeaves(j) PROVE LlmInv'
  BY <1>6, LlmElsewhere DEF ClientLeaves
<1>7. CASE ShutdownCancels
  BY <1>7, LlmElsewhere DEF ShutdownCancels
<1>8. CASE LlmTick
  BY <1>8, LlmElsewhere DEF LlmTick
<1>9. CASE UNCHANGED llmVars
  BY <1>9, LlmElsewhere DEF llmVars
<1>. QED  BY <1>1, <1>2, <1>3, <1>4, <1>5, <1>6, <1>7, <1>8, <1>9 DEF LlmNext

\* Jobs, goroutines and batches stay well formed, and no more units of a batch run than
\* its semaphore admits.
THEOREM LlmTypeCorrect == LlmSpec => []LlmTypeOK
<1>1. LlmInv => LlmTypeOK
  BY DEF LlmInv, LlmTypes, CountsFit, LlmTypeOK, JobRows, Statuses, Working
<1>. QED  BY LlmInitInv, LlmStep, <1>1, PTL DEF LlmSpec

\* Every result has its provenance, a completed job has its result, the counters of a
\* batch add up to what was submitted however its units fail, and the calls to the
\* provider never exceed the budget in any window.
THEOREM JobsAddUp == LlmSpec => []JobsAreAccountedFor
<1>1. LlmInv => ResultHasProvenance
  BY DEF LlmInv, ResultsFit, ResultHasProvenance
<1>2. ASSUME LlmInv PROVE BatchAddsUp
  <2>0. CountsFit /\ inBatch \subseteq JobIds /\ IsFiniteSet(inBatch)
    BY <1>2 DEF LlmInv, LlmTypes
  <2>1. Waiting \subseteq inBatch /\ Running \subseteq inBatch
    BY DEF Waiting, Running
  <2>2. IsFiniteSet(Waiting) /\ IsFiniteSet(Running)
    BY <2>0, <2>1, FS_Subset
  <2>3. (batch.queued = 0 <=> Waiting = {}) /\ (batch.running = 0 <=> Running = {})
    BY <2>0, <2>2, FS_EmptySet DEF CountsFit
  <2>4. Waiting = {} /\ Running = {} <=> \A j \in inBatch : worker[j] = "over"
    BY DEF Waiting, Running
  <2>. QED  BY <2>0, <2>3, <2>4 DEF CountsFit, BatchAddsUp
<1>3. LlmInv => CallBudget
  BY DEF LlmInv, BudgetFits, CallBudget
<1>4. LlmInv => JobsAreAccountedFor
  BY <1>1, <1>2, <1>3 DEF JobsAreAccountedFor
<1>. QED  BY LlmInitInv, LlmStep, <1>4, PTL DEF LlmSpec

-----------------------------------------------------------------------------
(* LlmRemediation: who let a command go                                    *)

\* A stored suggestion: its fields, and that a patch which is said to have passed is valid
RowOf(type, confidence, review, asset, verdict, patch) ==
    [type |-> type, confidence |-> confidence, review |-> review, asset |-> asset,
     status |-> verdict, patch |-> patch]
RowFits(row) ==
    /\ row = RowOf(row.type, row.confidence, row.review, row.asset, row.status, row.patch)
    /\ row.review \in {NotReviewed, "approved", "rejected"} /\ row.status \in {"passed", "failed"}
    /\ row.status = "passed" => PatchIsValid(row.patch)

\* A request to apply a suggestion
ApplierOf(at, row, id) == [at |-> at, row |-> row, id |-> id]

\* The stored suggestions are well formed.
RowsFit ==
    /\ suggestion = [s \in Suggestions |-> suggestion[s]]
    /\ \A s \in Suggestions : suggestion[s] # NoRow => RowFits(suggestion[s])

\* The governor runs for stored suggestions only.
RunsFit ==
    /\ autoRun \in [Suggestions -> {"none", "new", "authorized", "over"}]
    /\ \A s \in Suggestions : autoRun[s] # "none" => suggestion[s] # NoRow

\* A request that has read a suggestion holds a well formed one.
AppliersFit ==
    /\ applier = [c \in Appliers |-> applier[c]]
    /\ \A c \in Appliers :
         /\ applier[c] = ApplierOf(applier[c].at, applier[c].row, applier[c].id)
         /\ applier[c].at \in {"idle", "read", "over"}
         /\ applier[c].at = "idle" => applier[c].row = NoRow
         /\ applier[c].at # "idle" => RowFits(applier[c].row) /\ applier[c].id \in Suggestions

\* The governor admits what this suggestion is.
Admitted(s) ==
    /\ governor.enabled /\ suggestion[s].type \in governor.types
    /\ suggestion[s].confidence >= governor.minConfidence

\* A command that the governor issued, and a grant of its budget
Autonomous(i) == issued[i].mode = "autonomous"
HasGrant(s) == \E e \in granted : e.by = s

\* A run that was authorized was admitted and has its grant.
RunsAuthorized ==
    \A s \in Suggestions : autoRun[s] = "authorized" => Admitted(s) /\ HasGrant(s)

\* A command of the governor comes from a suggestion it is done with.
CommandsFit ==
    \A i \in 1 .. Len(issued) : Autonomous(i) =>
        /\ issued[i].id \in Suggestions /\ autoRun[issued[i].id] = "over" /\ HasGrant(issued[i].id)
        /\ \A k \in 1 .. Len(issued) : Autonomous(k) /\ issued[k].id = issued[i].id => k = i

\* q is a sequence, of whatever it contains.
IsSequence(q) == q \in Seq({q[i] : i \in 1 .. Len(q)})

\* Clock, reviews and governor, and the queue of commands
ClockFits == remNow \in 0 .. MaxRemNow /\ reviews \in 0 .. MaxReviews /\ governor \in Governors
             /\ IsSequence(issued)

\* A command is governed because of what happened before it was issued: the grant of an
\* autonomous one is older than the command, and a request still holds the row that was
\* approved when it read it.
RemInv ==
    /\ RowsFit /\ RunsFit /\ AppliersFit /\ RunsAuthorized /\ CommandsFit /\ ClockFits
    /\ IssuedWithAuthority
    /\ BudgetFits(autoEvents, granted, governor.maxPerHour, AutoHour, remNow)

\* The governors' budgets are numbers, and an absent suggestion is not an approved one.
LEMMA RemConstants == /\ MaxRemNow \in Nat /\ MaxReviews \in Nat /\ AutoHour \in Nat \ {0} /\ AutoHour \in Int
                      /\ \A g \in Governors : g.maxPerHour \in Int
                      /\ NoRow.status = "none" /\ NoRow.review # "approved" /\ NotReviewed # "approved"
<1>1. NotReviewed # "approved"
  BY DEF NotReviewed
<1>. QED  BY <1>1, RemediationAssumption DEF AutoHour, NoRow

\* Nothing has been proposed.
LEMMA RemInitInv == RemediationInit => RemInv
<1>. SUFFICES ASSUME RemediationInit PROVE RemInv
  OBVIOUS
<1>1. RowsFit /\ RunsFit /\ RunsAuthorized
  BY DEF RemediationInit, RowsFit, RunsFit, RunsAuthorized
<1>2. AppliersFit
  BY DEF RemediationInit, AppliersFit, ApplierOf
<1>3. issued = <<>> /\ Len(issued) = 0
  BY DEF RemediationInit
<1>4. CommandsFit /\ IssuedWithAuthority
  BY <1>3 DEF CommandsFit, IssuedWithAuthority
<1>5. ClockFits
  BY <1>3, RemConstants DEF RemediationInit, ClockFits, IsSequence
<1>6. BudgetFits(autoEvents, granted, governor.maxPerHour, AutoHour, remNow)
  <2>1. governor.maxPerHour \in Int
    BY RemConstants DEF RemediationInit
  <2>. QED  BY <2>1, BudgetStarts, RemConstants DEF RemediationInit
<1>. QED  BY <1>1, <1>2, <1>4, <1>5, <1>6 DEF RemInv

\* A proposal is stored with the verdict of its checks.
LEMMA GenerateInv ==
    ASSUME RemInv, NEW s \in Suggestions, NEW a \in Proposals, GenerateRemediation(s, a)
    PROVE  RemInv'
<1>. DEFINE n == Checked(a)
<1>0. RowsFit /\ RunsFit /\ AppliersFit /\ RunsAuthorized /\ CommandsFit /\ ClockFits /\ IssuedWithAuthority
  BY DEF RemInv
<1>1. /\ suggestion[s] = NoRow /\ suggestion' = [suggestion EXCEPT ![s] = n]
      /\ autoRun' = [autoRun EXCEPT ![s] = "new"]
      /\ UNCHANGED <<governor, granted, autoEvents, applier, issued, remNow, reviews>>
  BY DEF GenerateRemediation
<1>2. RowFits(n)
  <2>1. n = RowOf(a.type, a.confidence, NotReviewed, a.asset,
                  IF PatchIsValid(a.patch) THEN "passed" ELSE "failed",
                  IF PatchIsValid(a.patch) THEN a.patch ELSE NoPatch)
    BY DEF Checked, RowOf
  <2>. HIDE DEF n
  <2>2. /\ n.type = a.type /\ n.confidence = a.confidence /\ n.review = NotReviewed /\ n.asset = a.asset
        /\ n.status = IF PatchIsValid(a.patch) THEN "passed" ELSE "failed"
        /\ n.patch = IF PatchIsValid(a.patch) THEN a.patch ELSE NoPatch
    BY <2>1 DEF RowOf
  <2>3. n = RowOf(n.type, n.confidence, n.review, n.asset, n.status, n.patch)
    BY <2>1, <2>2
  <2>4. n.status = "passed" => PatchIsValid(n.patch)
    BY <2>2
  <2>. QED  BY <2>2, <2>3, <2>4 DEF RowFits
<1>3. n # NoRow
  BY <1>2, RemConstants DEF RowFits
<1>. HIDE DEF n
<1>4. suggestion'[s] = n /\ (\A q \in Suggestions \ {s} : suggestion'[q] = suggestion[q])
      /\ suggestion' = [q \in Suggestions |-> suggestion'[q]]
  BY <1>0, <1>1 DEF RowsFit
<1>5. autoRun'[s] = "new" /\ \A q \in Suggestions \ {s} : autoRun'[q] = autoRun[q]
  BY <1>0, <1>1 DEF RunsFit
<1>6. autoRun[s] = "none"
  BY <1>0, <1>1 DEF RunsFit
<1>7. RowsFit' /\ RunsFit'
  BY <1>0, <1>1, <1>2, <1>3, <1>4, <1>5 DEF RowsFit, RunsFit, RowFits
<1>8. AppliersFit' /\ ClockFits'
  BY <1>0, <1>1 DEF AppliersFit, ClockFits, RowFits
<1>9. RunsAuthorized'
  BY <1>0, <1>1, <1>4, <1>5 DEF RunsAuthorized, Admitted, HasGrant
<1>10. CommandsFit'
  BY <1>0, <1>1, <1>5, <1>6 DEF CommandsFit, Autonomous, HasGrant
<1>11. \A i \in 1 .. Len(issued) : Autonomous(i) => suggestion'[issued[i].id] = suggestion[issued[i].id]
  BY <1>0, <1>4, <1>6 DEF CommandsFit
<1>12. IssuedWithAuthority'
  BY <1>0, <1>1, <1>11 DEF IssuedWithAuthority, Autonomous
<1>13. BudgetFits(autoEvents, granted, governor.maxPerHour, AutoHour, remNow)'
  BY <1>1 DEF RemInv
<1>. QED  BY <1>7, <1>8, <1>9, <1>10, <1>12, <1>13 DEF RemInv

\* A review changes the stored row only.
LEMMA ReviewInv ==
    ASSUME RemInv, NEW s \in Suggestions, NEW d \in {"approved", "rejected"}, ReviewSuggestion(s, d)
    PROVE  RemInv'
<1>. DEFINE old == suggestion[s]
            n == [old EXCEPT !.review = d]
<1>0. RowsFit /\ RunsFit /\ AppliersFit /\ RunsAuthorized /\ CommandsFit /\ ClockFits /\ IssuedWithAuthority
  BY DEF RemInv
<1>1. /\ suggestion[s] # NoRow /\ suggestion' = [suggestion EXCEPT ![s].review = d]
      /\ reviews < MaxReviews /\ reviews' = reviews + 1
      /\ UNCHANGED <<governor, granted, autoEvents, autoRun, applier, issued, remNow>>
  BY DEF ReviewSuggestion
<1>2. suggestion'[s] = n /\ (\A q \in Suggestions \ {s} : suggestion'[q] = suggestion[q])
      /\ suggestion' = [q \in Suggestions |-> suggestion'[q]]
  BY <1>0, <1>1 DEF RowsFit
<1>3. RowFits(old)
  BY <1>0, <1>1 DEF RowsFit
<1>. HIDE DEF old
<1>4. n = RowOf(old.type, old.confidence, d, old.asset, old.status, old.patch)
  BY <1>3 DEF RowFits, RowOf
<1>. HIDE DEF n
<1>5. /\ n.type = old.type /\ n.confidence = old.confidence /\ n.review = d /\ n.asset = old.asset
      /\ n.status = old.status /\ n.patch = old.patch
  BY <1>4 DEF RowOf
<1>6. RowFits(n)
  <2>1. n = RowOf(n.type, n.confidence, n.review, n.asset, n.status, n.patch)
    BY <1>4, <1>5
  <2>2. n.review \in {NotReviewed, "approved", "rejected"} /\ n.status \in {"passed", "failed"}
        /\ (n.status = "passed" => PatchIsValid(n.patch))
    BY <1>3, <1>5 DEF RowFits
  <2>. QED  BY <2>1, <2>2 DEF RowFits
<1>7. n # NoRow
  BY <1>6, RemConstants DEF RowFits
<1>8. \A q \in Suggestions :
        suggestion'[q].type = suggestion[q].type /\ suggestion'[q].confidence = suggestion[q].confidence
  BY <1>2, <1>5 DEF old
<1>9. RowsFit' /\ RunsFit'
  BY <1>0, <1>1, <1>2, <1>6, <1>7 DEF RowsFit, RunsFit, RowFits
<1>10. AppliersFit'
  BY <1>0, <1>1 DEF AppliersFit, RowFits
<1>11. ClockFits'
  BY <1>0, <1>1, RemConstants DEF ClockFits
<1>12. RunsAuthorized'
  BY <1>0, <1>1, <1>8 DEF RunsAuthorized, Admitted, HasGrant
<1>13. CommandsFit'
  BY <1>0, <1>1 DEF CommandsFit, Autonomous, HasGrant
<1>14. \A i \in 1 .. Len(issued) : Autonomous(i) => issued[i].id \in Suggestions
  BY <1>0 DEF CommandsFit
<1>15. IssuedWithAuthority'
  BY <1>0, <1>1, <1>8, <1>14 DEF IssuedWithAuthority, Autonomous
<1>16. BudgetFits(autoEvents, granted, governor.maxPerHour, AutoHour, remNow)'
  BY <1>1 DEF RemInv
<1>. QED  BY <1>9, <1>10, <1>11, <1>12, <1>13, <1>15, <1>16 DEF RemInv

\* What the governor looks at is the suggestion as it was stored.
LEMMA OwnRow ==
    ASSUME NEW row, RowFits(row)
    PROVE  LET own == [row EXCEPT !.review = NotReviewed]
           IN  /\ own.type = row.type /\ own.confidence = row.confidence /\ own.status = row.status
               /\ own.patch = row.patch /\ own.asset = row.asset
<1>1. [row EXCEPT !.review = NotReviewed] =
        RowOf(row.type, row.confidence, NotReviewed, row.asset, row.status, row.patch)
  BY DEF RowFits, RowOf
<1>. QED  BY <1>1 DEF RowOf

\* The governor admits a suggestion and spends its budget, or is done with it.
LEMMA AuthorizeInv ==
    ASSUME RemInv, NEW s \in Suggestions, Authorize(s)
    PROVE  RemInv'
<1>. DEFINE own == [suggestion[s] EXCEPT !.review = NotReviewed]
            allows == Allows(autoEvents, governor.maxPerHour, AutoHour, remNow)
            next == AfterRequest(autoEvents, governor.maxPerHour, AutoHour, s, remNow)
<1>0. RowsFit /\ RunsFit /\ AppliersFit /\ RunsAuthorized /\ CommandsFit /\ ClockFits /\ IssuedWithAuthority
  BY DEF RemInv
<1>1. /\ autoRun[s] = "new"
      /\ autoRun' = [autoRun EXCEPT ![s] = IF Admissible(own) /\ allows THEN "authorized" ELSE "over"]
      /\ autoEvents' = IF Admissible(own) THEN next ELSE autoEvents
      /\ granted' = IF Admissible(own) /\ allows THEN granted \cup {Event(s, remNow)} ELSE granted
      /\ UNCHANGED <<governor, suggestion, applier, issued, remNow, reviews>>
  BY DEF Authorize
<1>2. RowFits(suggestion[s])
  BY <1>0, <1>1 DEF RowsFit, RunsFit
<1>3. own.type = suggestion[s].type /\ own.confidence = suggestion[s].confidence
  BY <1>2, OwnRow
<1>4. Admissible(own) => Admitted(s)
  BY <1>3 DEF Admissible, Admitted
<1>. HIDE DEF own
<1>5. BudgetFits(autoEvents', granted', governor.maxPerHour, AutoHour, remNow)
  <2>1. BudgetFits(autoEvents, granted, governor.maxPerHour, AutoHour, remNow)
    BY DEF RemInv
  <2>2. governor.maxPerHour \in Int /\ remNow \in Int
    BY <1>0, RemConstants DEF ClockFits
  <2>3. CASE ~ Admissible(own)
    BY <1>1, <2>1, <2>3
  <2>4. CASE Admissible(own) /\ allows
    BY <1>1, <2>1, <2>2, <2>4, BudgetSpends, RemConstants
  <2>5. CASE Admissible(own) /\ ~ allows
    BY <1>1, <2>1, <2>2, <2>5, BudgetRefuses, RemConstants
  <2>. QED  BY <2>3, <2>4, <2>5
<1>. HIDE DEF allows, next
<1>6. /\ autoRun'[s] = IF Admissible(own) /\ allows THEN "authorized" ELSE "over"
      /\ \A q \in Suggestions \ {s} : autoRun'[q] = autoRun[q]
  BY <1>0, <1>1 DEF RunsFit
<1>7. RowsFit' /\ AppliersFit' /\ ClockFits'
  BY <1>0, <1>1 DEF RowsFit, AppliersFit, ClockFits, RowFits
<1>8. RunsFit'
  BY <1>0, <1>1, <1>6 DEF RunsFit
<1>9. granted \subseteq granted'
  BY <1>1
<1>10. ASSUME Admissible(own), allows PROVE HasGrant(s)'
  <2>1. Event(s, remNow) \in granted'
    BY <1>1, <1>10
  <2>2. Event(s, remNow).by = s
    BY DEF Event
  <2>. QED  BY <2>1, <2>2 DEF HasGrant
<1>11. RunsAuthorized'
  <2>1. \A q \in Suggestions : Admitted(q)' <=> Admitted(q)
    BY <1>1 DEF Admitted
  <2>2. \A q \in Suggestions : HasGrant(q) => HasGrant(q)'
    BY <1>9 DEF HasGrant
  <2>. QED  BY <1>0, <1>4, <1>6, <1>10, <2>1, <2>2 DEF RunsAuthorized
<1>12. CommandsFit'
  <2>1. \A i \in 1 .. Len(issued) : Autonomous(i) => issued[i].id # s
    BY <1>0, <1>1 DEF CommandsFit
  <2>2. \A q : HasGrant(q) => HasGrant(q)'
    BY <1>9 DEF HasGrant
  <2>. QED  BY <1>0, <1>1, <1>6, <2>1, <2>2 DEF CommandsFit, Autonomous
<1>13. IssuedWithAuthority'
  BY <1>0, <1>1 DEF IssuedWithAuthority
<1>14. BudgetFits(autoEvents, granted, governor.maxPerHour, AutoHour, remNow)'
  BY <1>1, <1>5
<1>. QED  BY <1>7, <1>8, <1>11, <1>12, <1>13, <1>14 DEF RemInv

\* A sequence with one more element
LEMMA OneMore ==
    ASSUME NEW q, IsSequence(q), NEW x
    PROVE  LET r == Append(q, x)
           IN  /\ IsSequence(r) /\ Len(q) \in Nat /\ Len(r) = Len(q) + 1 /\ r[Len(r)] = x
               /\ \A i \in 1 .. Len(q) : r[i] = q[i]
<1>. DEFINE T == {q[i] : i \in 1 .. Len(q)} \cup {x}
            r == Append(q, x)
<1>1. q \in Seq(T) /\ x \in T /\ Len(q) \in Nat
  BY DEF IsSequence
<1>. HIDE DEF T
<1>2. r \in Seq(T) /\ Len(r) = Len(q) + 1 /\ r[Len(r)] = x /\ \A i \in 1 .. Len(q) : r[i] = q[i]
  BY <1>1
<1>. HIDE DEF r
<1>3. DOMAIN r = 1 .. Len(r) /\ Len(r) \in Nat /\ r = [i \in 1 .. Len(r) |-> r[i]]
  BY <1>2
<1>4. r \in [1 .. Len(r) -> {r[i] : i \in 1 .. Len(r)}]
  BY <1>3
<1>5. IsSequence(r)
  BY <1>3, <1>4 DEF IsSequence
<1>. QED  BY <1>1, <1>2, <1>5 DEF r

\* A command added to the queue: what it must satisfy, given who issued it.  The
\* applier and the run of the suggestion may move on in the same step.
LEMMA EnqueueInv ==
    ASSUME RowsFit, CommandsFit, IssuedWithAuthority, IsSequence(issued), NEW cmd,
           issued' = Append(issued, cmd),
           UNCHANGED <<governor, granted, suggestion>>,
           \A q \in Suggestions : autoRun[q] = "over" => autoRun'[q] = "over",
           \A c \in Appliers : applier'[c].id = applier[c].id /\ applier'[c].row = applier[c].row,
           cmd.patch # NoPatch, PatchIsValid(cmd.patch),
           PatchTargetPath(cmd.patch) \in {"config", "sshd_config"},
           cmd.mode = "manual" =>
             \E c \in Appliers : applier[c].id = cmd.id /\ applier[c].row.review = "approved",
           cmd.mode = "autonomous" =>
             /\ cmd.id \in Suggestions /\ autoRun[cmd.id] # "over" /\ autoRun'[cmd.id] = "over"
             /\ HasGrant(cmd.id) /\ Admitted(cmd.id) /\ (~ cmd.dryRun => ~ governor.dryRunOnly)
    PROVE  CommandsFit' /\ IssuedWithAuthority' /\ IsSequence(issued)'
<1>1. /\ IsSequence(issued') /\ Len(issued) \in Nat /\ Len(issued') = Len(issued) + 1
      /\ issued'[Len(issued')] = cmd /\ \A i \in 1 .. Len(issued) : issued'[i] = issued[i]
  BY OneMore
<1>. DEFINE n == Len(issued)
<1>2. n \in Nat /\ Len(issued') = n + 1 /\ issued'[n + 1] = cmd /\ \A i \in 1 .. n : issued'[i] = issued[i]
  BY <1>1
<1>3. \A i \in 1 .. Len(issued') : i = n + 1 \/ i \in 1 .. n
  BY <1>2
<1>4. CommandsFit'
  <2>. SUFFICES ASSUME NEW i \in 1 .. Len(issued'), issued'[i].mode = "autonomous"
                PROVE  /\ issued'[i].id \in Suggestions /\ autoRun'[issued'[i].id] = "over"
                       /\ \E e \in granted : e.by = issued'[i].id
                       /\ \A k \in 1 .. Len(issued') :
                            issued'[k].mode = "autonomous" /\ issued'[k].id = issued'[i].id => k = i
    BY DEF CommandsFit, Autonomous, HasGrant
  <2>1. \A m \in 1 .. n : issued[m].mode = "autonomous" =>
          /\ issued[m].id \in Suggestions /\ autoRun[issued[m].id] = "over"
          /\ \E e \in granted : e.by = issued[m].id
          /\ \A k \in 1 .. n : issued[k].mode = "autonomous" /\ issued[k].id = issued[m].id => k = m
    BY DEF CommandsFit, Autonomous, HasGrant
  <2>. HIDE DEF n
  <2>2. CASE i = n + 1
    <3>1. \A k \in 1 .. n : issued[k].mode = "autonomous" => issued[k].id # cmd.id
      BY <2>1, <2>2, <1>2
    <3>2. issued'[i] = cmd /\ cmd.mode = "autonomous"
      BY <2>2, <1>2
    <3>3. \E e \in granted : e.by = cmd.id
      BY <3>2 DEF HasGrant
    <3>4. \A k \in 1 .. Len(issued') : issued'[k].mode = "autonomous" /\ issued'[k].id = cmd.id => k = i
      BY <2>2, <3>1, <1>2, <1>3
    <3>. QED  BY <3>2, <3>3, <3>4
  <2>3. CASE i \in 1 .. n
    <3>1. issued'[i] = issued[i] /\ issued[i].mode = "autonomous"
      BY <2>3, <1>2
    <3>2. issued[i].id \in Suggestions /\ autoRun'[issued[i].id] = "over"
          /\ \E e \in granted : e.by = issued[i].id
      BY <2>1, <2>3, <3>1
    <3>3. ASSUME NEW k \in 1 .. Len(issued'), issued'[k].mode = "autonomous", issued'[k].id = issued'[i].id
          PROVE  k = i
      <4>1. CASE k = n + 1
        BY <4>1, <3>1, <3>3, <1>2, <2>1, <2>3
      <4>2. CASE k \in 1 .. n
        BY <4>2, <3>1, <3>3, <1>2, <2>1, <2>3
      <4>. QED  BY <4>1, <4>2, <1>3
    <3>. QED  BY <3>1, <3>2, <3>3
  <2>. QED  BY <2>2, <2>3, <1>3
<1>5. IssuedWithAuthority'
  <2>. SUFFICES ASSUME NEW i \in 1 .. Len(issued')
                PROVE  /\ issued'[i].patch # NoPatch /\ PatchIsValid(issued'[i].patch)
                       /\ PatchTargetPath(issued'[i].patch) \in {"config", "sshd_config"}
                       /\ issued'[i].mode = "manual" =>
                            \E c \in Appliers : applier'[c].id = issued'[i].id
                                               /\ applier'[c].row.review = "approved"
                       /\ issued'[i].mode = "autonomous" =>
                            /\ governor'.enabled /\ (~ issued'[i].dryRun => ~ governor'.dryRunOnly)
                            /\ suggestion'[issued'[i].id].type \in governor'.types
                            /\ suggestion'[issued'[i].id].confidence >= governor'.minConfidence
    BY DEF IssuedWithAuthority
  <2>1. CASE i = n + 1
    <3>1. issued'[i] = cmd
      BY <2>1, <1>2
    <3>2. cmd.mode = "manual" =>
            \E c \in Appliers : applier'[c].id = cmd.id /\ applier'[c].row.review = "approved"
      OBVIOUS
    <3>3. cmd.mode = "autonomous" =>
            /\ governor'.enabled /\ (~ cmd.dryRun => ~ governor'.dryRunOnly)
            /\ suggestion'[cmd.id].type \in governor'.types
            /\ suggestion'[cmd.id].confidence >= governor'.minConfidence
      BY DEF Admitted
    <3>. QED  BY <3>1, <3>2, <3>3
  <2>2. CASE i \in 1 .. n
    <3>1. issued'[i] = issued[i]
      BY <2>2, <1>2
    <3>2. /\ issued[i].patch # NoPatch /\ PatchIsValid(issued[i].patch)
          /\ PatchTargetPath(issued[i].patch) \in {"config", "sshd_config"}
          /\ issued[i].mode = "manual" =>
               \E c \in Appliers : applier[c].id = issued[i].id /\ applier[c].row.review = "approved"
          /\ issued[i].mode = "autonomous" =>
               /\ governor.enabled /\ (~ issued[i].dryRun => ~ governor.dryRunOnly)
               /\ suggestion[issued[i].id].type \in governor.types
               /\ suggestion[issued[i].id].confidence >= governor.minConfidence
      BY <2>2 DEF IssuedWithAuthority
    <3>. QED  BY <3>1, <3>2
  <2>. QED  BY <2>1, <2>2, <1>3
<1>. QED  BY <1>1, <1>4, <1>5 DEF IsSequence

\* The command about an actionable suggestion carries a patch that passed the check.
LEMMA CommandIsChecked ==
    ASSUME NEW s, NEW row, NEW mode, NEW dryRun, Actionable(row, mode),
           row.status = "passed" => PatchIsValid(row.patch)
    PROVE  LET cmd == Command(s, row, mode, dryRun)
           IN  /\ cmd.id = s /\ cmd.mode = mode /\ cmd.dryRun = dryRun
               /\ cmd.patch # NoPatch /\ PatchIsValid(cmd.patch)
               /\ PatchTargetPath(cmd.patch) \in {"config", "sshd_config"}
<1>. DEFINE cmd == Command(s, row, mode, dryRun)
<1>1. cmd.id = s /\ cmd.mode = mode /\ cmd.dryRun = dryRun /\ cmd.patch = row.patch
  BY DEF Command
<1>2. row.status = "passed" /\ row.patch # NoPatch
      /\ PatchTargetPath(row.patch) \in {"config", "sshd_config"}
  BY DEF Actionable, AgentWillApplyPatch
<1>. HIDE DEF cmd
<1>3. cmd.patch # NoPatch /\ PatchIsValid(cmd.patch) /\ PatchTargetPath(cmd.patch) \in {"config", "sshd_config"}
  BY <1>1, <1>2
<1>. QED  BY <1>1, <1>3 DEF cmd

\* Nothing is added to the queue.
LEMMA QueueStays ==
    ASSUME CommandsFit, IssuedWithAuthority, IsSequence(issued), issued' = issued,
           UNCHANGED <<governor, granted, suggestion>>,
           \A q \in Suggestions : autoRun[q] = "over" => autoRun'[q] = "over",
           \A c \in Appliers : applier'[c].id = applier[c].id /\ applier'[c].row = applier[c].row
    PROVE  CommandsFit' /\ IssuedWithAuthority' /\ IsSequence(issued)'
<1>1. CommandsFit'
  BY DEF CommandsFit, Autonomous, HasGrant
<1>2. IssuedWithAuthority'
  BY DEF IssuedWithAuthority
<1>. QED  BY <1>1, <1>2 DEF IsSequence

\* The governor issues the command that it authorized.
LEMMA AutoApplyInv ==
    ASSUME RemInv, NEW s \in Suggestions, AutoApply(s)
    PROVE  RemInv'
<1>. DEFINE own == [suggestion[s] EXCEPT !.review = NotReviewed]
            cmd == Command(s, own, "autonomous", governor.dryRunOnly)
<1>0. RowsFit /\ RunsFit /\ AppliersFit /\ RunsAuthorized /\ CommandsFit /\ ClockFits /\ IssuedWithAuthority
      /\ IsSequence(issued)
  BY DEF RemInv, ClockFits
<1>1. /\ autoRun[s] = "authorized" /\ autoRun' = [autoRun EXCEPT ![s] = "over"]
      /\ issued' = IF Actionable(own, "autonomous") /\ s \in hostKnown THEN Append(issued, cmd) ELSE issued
      /\ UNCHANGED <<governor, granted, autoEvents, suggestion, applier, remNow, reviews>>
  BY DEF AutoApply, Enqueue
<1>2. RowFits(suggestion[s])
  BY <1>0, <1>1 DEF RowsFit, RunsFit
<1>3. own.status = "passed" => PatchIsValid(own.patch)
  BY <1>2, OwnRow DEF RowFits
<1>. HIDE DEF own
<1>4. autoRun'[s] = "over" /\ \A q \in Suggestions \ {s} : autoRun'[q] = autoRun[q]
  BY <1>0, <1>1 DEF RunsFit
<1>5. CommandsFit' /\ IssuedWithAuthority' /\ IsSequence(issued)'
  <2>1. CASE Actionable(own, "autonomous") /\ s \in hostKnown
    <3>1. issued' = Append(issued, cmd)
      BY <1>1, <2>1
    <3>2. /\ cmd.id = s /\ cmd.mode = "autonomous" /\ cmd.dryRun = governor.dryRunOnly
          /\ cmd.patch # NoPatch /\ PatchIsValid(cmd.patch)
          /\ PatchTargetPath(cmd.patch) \in {"config", "sshd_config"}
      BY <1>3, <2>1, CommandIsChecked
    <3>. HIDE DEF cmd
    <3>3. HasGrant(cmd.id) /\ Admitted(cmd.id)
      BY <1>0, <1>1, <3>2 DEF RunsAuthorized
    <3>4. ~ cmd.dryRun => ~ governor.dryRunOnly
      BY <3>2, Zenon
    <3>. QED  BY <1>0, <1>1, <1>4, <3>1, <3>2, <3>3, <3>4, EnqueueInv
  <2>2. CASE ~ (Actionable(own, "autonomous") /\ s \in hostKnown)
    BY <1>0, <1>1, <1>4, <2>2, QueueStays
  <2>. QED  BY <2>1, <2>2
<1>6. RowsFit' /\ AppliersFit'
  BY <1>0, <1>1 DEF RowsFit, AppliersFit, RowFits
<1>7. RunsFit'
  BY <1>0, <1>1, <1>4 DEF RunsFit
<1>8. RunsAuthorized'
  BY <1>0, <1>1, <1>4 DEF RunsAuthorized, Admitted, HasGrant
<1>9. ClockFits'
  BY <1>0, <1>1, <1>5 DEF ClockFits
<1>10. BudgetFits(autoEvents, granted, governor.maxPerHour, AutoHour, remNow)'
  BY <1>1 DEF RemInv
<1>. QED  BY <1>5, <1>6, <1>7, <1>8, <1>9, <1>10 DEF RemInv

\* A request to apply reads the row.
LEMMA ReadSuggestionInv ==
    ASSUME RemInv, NEW c \in Appliers, NEW s \in Suggestions, ReadSuggestion(c, s)
    PROVE  RemInv'
<1>. DEFINE n == ApplierOf("read", suggestion[s], s)
<1>0. RowsFit /\ RunsFit /\ AppliersFit /\ RunsAuthorized /\ CommandsFit /\ ClockFits /\ IssuedWithAuthority
  BY DEF RemInv
<1>1. /\ applier[c].at = "idle" /\ suggestion[s] # NoRow /\ applier' = [applier EXCEPT ![c] = n]
      /\ UNCHANGED <<governor, granted, autoEvents, suggestion, autoRun, issued, remNow, reviews>>
  BY DEF ReadSuggestion, ApplierOf
<1>2. n.at = "read" /\ n.row = suggestion[s] /\ n.id = s /\ n = ApplierOf(n.at, n.row, n.id)
  BY DEF ApplierOf
<1>. HIDE DEF n
<1>3. applier'[c] = n /\ (\A q \in Appliers \ {c} : applier'[q] = applier[q])
      /\ applier' = [q \in Appliers |-> applier'[q]]
  BY <1>0, <1>1 DEF AppliersFit
<1>4. AppliersFit'
  <2>1. RowFits(n.row) /\ n.id \in Suggestions
    BY <1>0, <1>1, <1>2 DEF RowsFit
  <2>2. ASSUME NEW q \in Appliers
        PROVE  /\ applier'[q] = ApplierOf(applier'[q].at, applier'[q].row, applier'[q].id)
               /\ applier'[q].at \in {"idle", "read", "over"}
               /\ applier'[q].at = "idle" => applier'[q].row = NoRow
               /\ applier'[q].at # "idle" => RowFits(applier'[q].row) /\ applier'[q].id \in Suggestions
    <3>1. CASE q = c
      BY <1>2, <1>3, <2>1, <3>1
    <3>2. CASE q # c
      BY <1>0, <1>3, <3>2 DEF AppliersFit
    <3>. QED  BY <3>1, <3>2
  <2>. QED  BY <2>2, <1>3 DEF AppliersFit
<1>5. applier[c].row.review # "approved"
  BY <1>0, <1>1, RemConstants DEF AppliersFit
<1>6. IssuedWithAuthority'
  <2>1. \A q \in Appliers : applier[q].row.review = "approved" => applier'[q] = applier[q]
    BY <1>3, <1>5
  <2>2. \A i \in 1 .. Len(issued) : issued[i].mode = "manual" =>
          \E q \in Appliers : applier'[q].id = issued[i].id /\ applier'[q].row.review = "approved"
    BY <1>0, <2>1 DEF IssuedWithAuthority
  <2>. QED  BY <1>0, <1>1, <2>2 DEF IssuedWithAuthority
<1>7. RowsFit' /\ RunsFit' /\ RunsAuthorized' /\ CommandsFit' /\ ClockFits'
  BY <1>0, <1>1 DEF RowsFit, RowFits, RunsFit, RunsAuthorized, Admitted, HasGrant, CommandsFit, Autonomous,
                    ClockFits, IsSequence
<1>8. BudgetFits(autoEvents, granted, governor.maxPerHour, AutoHour, remNow)'
  BY <1>1 DEF RemInv
<1>. QED  BY <1>4, <1>6, <1>7, <1>8 DEF RemInv

\* The request issues a command from the row that it read, or is refused.
LEMMA ApplySuggestionInv ==
    ASSUME RemInv, NEW c \in Appliers, NEW body \in Bodies, ApplySuggestion(c, body)
    PROVE  RemInv'
<1>. DEFINE seen == applier[c].row
            simulated == body # "live"
            sent == Command(applier[c].id, seen, "manual", simulated)
<1>0. RowsFit /\ RunsFit /\ AppliersFit /\ RunsAuthorized /\ CommandsFit /\ ClockFits /\ IssuedWithAuthority
      /\ IsSequence(issued)
  BY DEF RemInv, ClockFits
<1>1. /\ applier[c].at = "read" /\ applier' = [applier EXCEPT ![c].at = "over"]
      /\ issued' = IF Actionable(seen, "manual") /\ applier[c].id \in hostKnown
                     THEN Append(issued, sent) ELSE issued
      /\ UNCHANGED <<governor, granted, autoEvents, suggestion, autoRun, remNow, reviews>>
  BY DEF ApplySuggestion, Enqueue
<1>. HIDE DEF simulated
<1>2. RowFits(seen)
  BY <1>0, <1>1 DEF AppliersFit
<1>3. applier'[c] = ApplierOf("over", applier[c].row, applier[c].id)
      /\ (\A q \in Appliers \ {c} : applier'[q] = applier[q])
      /\ applier' = [q \in Appliers |-> applier'[q]]
  <2>1. applier'[c] = [applier[c] EXCEPT !.at = "over"]
        /\ (\A q \in Appliers \ {c} : applier'[q] = applier[q])
        /\ applier' = [q \in Appliers |-> applier'[q]]
    BY <1>0, <1>1 DEF AppliersFit
  <2>2. applier[c] = ApplierOf(applier[c].at, applier[c].row, applier[c].id)
    BY <1>0 DEF AppliersFit
  <2>3. [applier[c] EXCEPT !.at = "over"] = ApplierOf("over", applier[c].row, applier[c].id)
    <3>. DEFINE o == applier[c]
    <3>1. o = ApplierOf(o.at, o.row, o.id)
      BY <2>2
    <3>. HIDE DEF o
    <3>2. [o EXCEPT !.at = "over"] = ApplierOf("over", o.row, o.id)
      BY <3>1 DEF ApplierOf
    <3>. QED  BY <3>2 DEF o
  <2>. QED  BY <2>1, <2>3
<1>4. applier'[c].at = "over" /\ applier'[c].row = applier[c].row /\ applier'[c].id = applier[c].id
  <2>1. applier'[c] = ApplierOf("over", applier[c].row, applier[c].id)
    BY <1>3
  <2>. QED  BY <2>1 DEF ApplierOf
<1>5. \A q \in Appliers : applier'[q].id = applier[q].id /\ applier'[q].row = applier[q].row
  BY <1>3, <1>4
<1>6. AppliersFit'
  <2>1. ASSUME NEW q \in Appliers
        PROVE  /\ applier'[q] = ApplierOf(applier'[q].at, applier'[q].row, applier'[q].id)
               /\ applier'[q].at \in {"idle", "read", "over"}
               /\ applier'[q].at = "idle" => applier'[q].row = NoRow
               /\ applier'[q].at # "idle" => RowFits(applier'[q].row) /\ applier'[q].id \in Suggestions
    <3>1. CASE q = c
      BY <1>0, <1>1, <1>2, <1>3, <1>4, <3>1 DEF AppliersFit
    <3>2. CASE q # c
      BY <1>0, <1>3, <3>2 DEF AppliersFit
    <3>. QED  BY <3>1, <3>2
  <2>. QED  BY <2>1, <1>3 DEF AppliersFit
<1>7. CommandsFit' /\ IssuedWithAuthority' /\ IsSequence(issued)'
  <2>1. CASE Actionable(seen, "manual") /\ applier[c].id \in hostKnown
    <3>1. issued' = Append(issued, sent)
      BY <1>1, <2>1
    <3>2. seen.status = "passed" => PatchIsValid(seen.patch)
      BY <1>2 DEF RowFits
    <3>3. seen.review = "approved"
      BY <2>1 DEF Actionable
    <3>4. Actionable(seen, "manual")
      BY <2>1
    <3>. HIDE DEF seen
    <3>5. /\ sent.id = applier[c].id /\ sent.mode = "manual"
          /\ sent.patch # NoPatch /\ PatchIsValid(sent.patch)
          /\ PatchTargetPath(sent.patch) \in {"config", "sshd_config"}
      BY <3>2, <3>4, CommandIsChecked
    <3>. HIDE DEF sent
    <3>6. \E q \in Appliers : applier[q].id = sent.id /\ applier[q].row.review = "approved"
      BY <3>3, <3>5 DEF seen
    <3>. QED  BY <1>0, <1>1, <1>5, <3>1, <3>5, <3>6, EnqueueInv
  <2>2. CASE ~ (Actionable(seen, "manual") /\ applier[c].id \in hostKnown)
    BY <1>0, <1>1, <1>5, <2>2, QueueStays
  <2>. QED  BY <2>1, <2>2
<1>8. RowsFit' /\ RunsFit' /\ RunsAuthorized'
  BY <1>0, <1>1 DEF RowsFit, RowFits, RunsFit, RunsAuthorized, Admitted, HasGrant
<1>9. ClockFits'
  BY <1>0, <1>1, <1>7 DEF ClockFits
<1>10. BudgetFits(autoEvents, granted, governor.maxPerHour, AutoHour, remNow)'
  BY <1>1 DEF RemInv
<1>. QED  BY <1>6, <1>7, <1>8, <1>9, <1>10 DEF RemInv

\* Only the clock, and what the invariant does not speak of
LEMMA RemElsewhere ==
    ASSUME RemInv, UNCHANGED <<governor, granted, autoEvents, suggestion, autoRun, applier, issued, reviews>>,
           remNow' = remNow \/ (remNow < MaxRemNow /\ remNow' = remNow + 1)
    PROVE  RemInv'
<1>0. RowsFit /\ RunsFit /\ AppliersFit /\ RunsAuthorized /\ CommandsFit /\ ClockFits /\ IssuedWithAuthority
  BY DEF RemInv
<1>1. RowsFit' /\ RunsFit' /\ AppliersFit'
  BY <1>0 DEF RowsFit, RowFits, RunsFit, AppliersFit
<1>2. RunsAuthorized' /\ CommandsFit' /\ IssuedWithAuthority'
  BY <1>0 DEF RunsAuthorized, Admitted, HasGrant, CommandsFit, Autonomous, IssuedWithAuthority
<1>3. ClockFits'
  BY <1>0, RemConstants DEF ClockFits, IsSequence
<1>4. governor.maxPerHour \in Int /\ remNow \in Int
      /\ BudgetFits(autoEvents, granted, governor.maxPerHour, AutoHour, remNow)
  BY <1>0, RemConstants DEF ClockFits, RemInv
<1>5. BudgetFits(autoEvents, granted, governor.maxPerHour, AutoHour, remNow)'
  BY <1>4, BudgetAges, RemConstants
<1>. QED  BY <1>1, <1>2, <1>3, <1>5 DEF RemInv

\* Every step of the remediation preserves the invariant.
LEMMA RemStep == RemInv /\ [RemediationNext]_remediationVars => RemInv'
<1>. SUFFICES ASSUME RemInv, [RemediationNext]_remediationVars PROVE RemInv'
  OBVIOUS
<1>1. ASSUME NEW s \in Suggestions, NEW a \in Proposals, GenerateRemediation(s, a) PROVE RemInv'
  BY <1>1, GenerateInv
<1>2. ASSUME NEW s \in Suggestions, NEW d \in {"approved", "rejected"}, ReviewSuggestion(s, d) PROVE RemInv'
  BY <1>2, ReviewInv
<1>3. ASSUME NEW s \in Suggestions, NEW c \in Appliers, ReadSuggestion(c, s) PROVE RemInv'
  BY <1>3, ReadSuggestionInv
<1>4. ASSUME NEW s \in Suggestions, Authorize(s) PROVE RemInv'
  BY <1>4, AuthorizeInv
<1>5. ASSUME NEW s \in Suggestions, AutoApply(s) PROVE RemInv'
  BY <1>5, AutoApplyInv
<1>6. ASSUME NEW s \in Suggestions, FindingGoes(s) PROVE RemInv'
  BY <1>6, RemElsewhere DEF FindingGoes
<1>7. ASSUME NEW c \in Appliers, NEW body \in Bodies, ApplySuggestion(c, body) PROVE RemInv'
  BY <1>7, ApplySuggestionInv
<1>8. CASE RemediationTick
  BY <1>8, RemElsewhere DEF RemediationTick
<1>9. CASE UNCHANGED remediationVars
  BY <1>9, RemElsewhere DEF remediationVars
<1>. QED  BY <1>1, <1>2, <1>3, <1>4, <1>5, <1>6, <1>7, <1>8, <1>9 DEF RemediationNext

\* Suggestions, runs and requests stay well formed.
THEOREM RemediationTypeCorrect == RemediationSpec => []RemediationTypeOK
<1>1. RemInv => RemediationTypeOK
  BY DEF RemInv, RowsFit, RowFits, RunsFit, AppliersFit, ClockFits, RemediationTypeOK
<1>. QED  BY RemInitInv, RemStep, <1>1, PTL DEF RemediationSpec

\* A command about a suggestion was approved by an operator or admitted by the governor
\* and within its budget per hour, its patch passed the check, and the governor changes
\* a host for real only if it may apply live.
THEOREM RemediationGoverned == RemediationSpec => []RemediationIsGoverned
<1>1. RemInv => AutoBudget
  BY DEF RemInv, BudgetFits, CommandsFit, Autonomous, HasGrant, AutoBudget
<1>2. RemInv => RemediationIsGoverned
  BY <1>1 DEF RemInv, RemediationIsGoverned
<1>. QED  BY RemInitInv, RemStep, <1>2, PTL DEF RemediationSpec

-----------------------------------------------------------------------------
(* MutationEngine: for any commands, edits, errors and crashes             *)

\* The patches in a content that replaced another one can be taken out again.
Undoable(content) ==
    \A c \in content : c \in Cmds =>
        c \notin dry /\ backup[c] # None /\ c \notin backup[c]

\* A content no command that has not begun is in, nor, while the file system has
\* not failed, any that has failed.
Settled(content) ==
    \A c \in Cmds :
        /\ status[c] \in {"new", "issued"} => c \notin content
        /\ ioErrors = 0 /\ status[c] = "Failed" => c \notin content

\* What the engine has read is as good as the file was.
ReadIsSound ==
    pc # "idle" =>
        /\ status[cur] = "executing" /\ cur \notin dry /\ cur \notin original
        /\ Undoable(original) /\ Settled(original)
        /\ Applied \subseteq original /\ quiet \subseteq original

\* What each step of execute_inner relies on
StepInv ==
    /\ pc \in Steps \ {"backup"} => backup[cur] = original
    /\ pc \in {"validate", "reload", "verify"} => cur \in file
    /\ pc = "verify" => cur \in running
    /\ ioErrors = 0 /\ pc \in {"backup", "write", "reloadRestored"} => cur \notin file

NotBegunIsOut ==
    \A c \in Cmds : status[c] \in {"new", "issued"} => c \notin file \cup running

IndInv ==
    /\ TypeOK /\ UndoIsPossible /\ SuccessSticks /\ QuietEditsKept
    /\ FailedIsUndone /\ NotBegunIsOut /\ ReadIsSound /\ StepInv

\* The inductive invariant holds at the start.
LEMMA InitInv == Init => IndInv
  BY MutationAssumption
     DEF Init, IndInv, TypeOK, UndoIsPossible, SuccessSticks, QuietEditsKept,
         FailedIsUndone, NotBegunIsOut, ReadIsSound, StepInv, Applied, Content,
         Steps

\* Every step preserves the inductive invariant.
LEMMA NextInv == IndInv /\ [Next]_vars => IndInv'
  <1> SUFFICES ASSUME IndInv, [Next]_vars PROVE IndInv'
    OBVIOUS
  <1> USE MutationAssumption DEF IndInv, Content, Steps, history, orders
  <1>1. ASSUME NEW c \in Cmds, Issue(c) PROVE IndInv'
    <2> USE <1>1 DEF Issue
    <2>1. TypeOK'
      BY DEF TypeOK
    <2>2. UndoIsPossible'
      BY DEF TypeOK, UndoIsPossible, ReadIsSound, StepInv, NotBegunIsOut, Undoable
    <2>3. SuccessSticks'
      BY DEF TypeOK, SuccessSticks, Applied, ReadIsSound, StepInv
    <2>4. QuietEditsKept'
      BY DEF TypeOK, QuietEditsKept, ReadIsSound, StepInv
    <2>5. FailedIsUndone'
      BY DEF TypeOK, FailedIsUndone, NotBegunIsOut, ReadIsSound, StepInv, Settled
    <2>6. NotBegunIsOut'
      BY DEF TypeOK, NotBegunIsOut, ReadIsSound, StepInv, Settled
    <2>7. ReadIsSound'
      BY DEF TypeOK, ReadIsSound, StepInv, Undoable, Settled, Applied, UndoIsPossible,
                SuccessSticks, QuietEditsKept, FailedIsUndone, NotBegunIsOut
    <2>8. StepInv'
      BY DEF TypeOK, StepInv, ReadIsSound, NotBegunIsOut
    <2> QED
      BY <2>1, <2>2, <2>3, <2>4, <2>5, <2>6, <2>7, <2>8
  <1>2. ASSUME NEW e \in Edits, AdminEdits(e) PROVE IndInv'
    <2> USE <1>2 DEF AdminEdits
    <2>1. TypeOK'
      BY DEF TypeOK
    <2>2. UndoIsPossible'
      BY DEF TypeOK, UndoIsPossible, ReadIsSound, StepInv, NotBegunIsOut, Undoable
    <2>3. SuccessSticks'
      BY DEF TypeOK, SuccessSticks, Applied, ReadIsSound, StepInv
    <2>4. QuietEditsKept'
      BY DEF TypeOK, QuietEditsKept, ReadIsSound, StepInv
    <2>5. FailedIsUndone'
      BY DEF TypeOK, FailedIsUndone, NotBegunIsOut, ReadIsSound, StepInv, Settled
    <2>6. NotBegunIsOut'
      BY DEF TypeOK, NotBegunIsOut, ReadIsSound, StepInv, Settled
    <2>7. ReadIsSound'
      BY DEF TypeOK, ReadIsSound, StepInv, Undoable, Settled, Applied, UndoIsPossible,
                SuccessSticks, QuietEditsKept, FailedIsUndone, NotBegunIsOut
    <2>8. StepInv'
      BY DEF TypeOK, StepInv, ReadIsSound, NotBegunIsOut
    <2> QED
      BY <2>1, <2>2, <2>3, <2>4, <2>5, <2>6, <2>7, <2>8
  <1>3. CASE ServiceReloads
    BY <1>3
       DEF ServiceReloads, TypeOK, UndoIsPossible, SuccessSticks, QuietEditsKept, FailedIsUndone,
           NotBegunIsOut, ReadIsSound, StepInv, Undoable, Settled, Applied
  <1>4. ASSUME NEW c \in Cmds, Refuse(c) PROVE IndInv'
    BY <1>4
       DEF Refuse, Report, TypeOK, UndoIsPossible, SuccessSticks, QuietEditsKept, FailedIsUndone,
           NotBegunIsOut, ReadIsSound, StepInv, Undoable, Settled, Applied
  <1>5. ASSUME NEW c \in Cmds, DetectDrift(c) PROVE IndInv'
    BY <1>5
       DEF DetectDrift, Report, TypeOK, UndoIsPossible, SuccessSticks, QuietEditsKept, FailedIsUndone,
           NotBegunIsOut, ReadIsSound, StepInv, Undoable, Settled, Applied
  <1>6. ASSUME NEW c \in Cmds, AcceptDryRun(c) PROVE IndInv'
    BY <1>6
       DEF AcceptDryRun, Report, TypeOK, UndoIsPossible, SuccessSticks, QuietEditsKept, FailedIsUndone,
           NotBegunIsOut, ReadIsSound, StepInv, Undoable, Settled, Applied
  <1>7. ASSUME NEW c \in Cmds, ReadConfig(c) PROVE IndInv'
    <2> USE <1>7 DEF ReadConfig
    <2>1. TypeOK'
      BY DEF TypeOK
    <2>2. UndoIsPossible'
      BY DEF TypeOK, UndoIsPossible, ReadIsSound, StepInv, NotBegunIsOut, Undoable
    <2>3. SuccessSticks'
      BY DEF TypeOK, SuccessSticks, Applied, ReadIsSound, StepInv
    <2>4. QuietEditsKept'
      BY DEF TypeOK, QuietEditsKept, ReadIsSound, StepInv
    <2>5. FailedIsUndone'
      BY DEF TypeOK, FailedIsUndone, NotBegunIsOut, ReadIsSound, StepInv, Settled
    <2>6. NotBegunIsOut'
      BY DEF TypeOK, NotBegunIsOut, ReadIsSound, StepInv, Settled
    <2>7. ReadIsSound'
      BY DEF TypeOK, ReadIsSound, StepInv, Undoable, Settled, Applied, UndoIsPossible,
                SuccessSticks, QuietEditsKept, FailedIsUndone, NotBegunIsOut
    <2>8. StepInv'
      BY DEF TypeOK, StepInv, ReadIsSound, NotBegunIsOut
    <2> QED
      BY <2>1, <2>2, <2>3, <2>4, <2>5, <2>6, <2>7, <2>8
  <1>8. CASE WriteBackup
    <2> USE <1>8 DEF WriteBackup, AtomicWrite, Goto, Report, IOError
    <2>1. TypeOK'
      BY DEF TypeOK, StepInv, ReadIsSound
    <2>2. UndoIsPossible'
      BY DEF TypeOK, UndoIsPossible, ReadIsSound, StepInv, NotBegunIsOut, Undoable
    <2>3. SuccessSticks'
      BY DEF TypeOK, SuccessSticks, Applied, ReadIsSound, StepInv
    <2>4. QuietEditsKept'
      BY DEF TypeOK, QuietEditsKept, ReadIsSound, StepInv
    <2>5. FailedIsUndone'
      BY DEF TypeOK, FailedIsUndone, NotBegunIsOut, ReadIsSound, StepInv, Settled
    <2>6. NotBegunIsOut'
      BY DEF TypeOK, NotBegunIsOut, ReadIsSound, StepInv, Settled
    <2>7. ReadIsSound'
      BY DEF TypeOK, ReadIsSound, StepInv, Undoable, Settled, Applied, UndoIsPossible,
                SuccessSticks, QuietEditsKept, FailedIsUndone, NotBegunIsOut
    <2>8. StepInv'
      BY DEF TypeOK, StepInv, ReadIsSound, NotBegunIsOut
    <2> QED
      BY <2>1, <2>2, <2>3, <2>4, <2>5, <2>6, <2>7, <2>8
  <1>9. CASE WriteConfig
    <2> USE <1>9 DEF WriteConfig, AtomicWrite, Goto, Report, IOError
    <2>1. TypeOK'
      BY DEF TypeOK, StepInv, ReadIsSound
    <2>2. UndoIsPossible'
      BY DEF TypeOK, UndoIsPossible, ReadIsSound, StepInv, NotBegunIsOut, Undoable
    <2>3. SuccessSticks'
      BY DEF TypeOK, SuccessSticks, Applied, ReadIsSound, StepInv
    <2>4. QuietEditsKept'
      BY DEF TypeOK, QuietEditsKept, ReadIsSound, StepInv
    <2>5. FailedIsUndone'
      BY DEF TypeOK, FailedIsUndone, NotBegunIsOut, ReadIsSound, StepInv, Settled
    <2>6. NotBegunIsOut'
      BY DEF TypeOK, NotBegunIsOut, ReadIsSound, StepInv, Settled
    <2>7. ReadIsSound'
      BY DEF TypeOK, ReadIsSound, StepInv, Undoable, Settled, Applied, UndoIsPossible,
                SuccessSticks, QuietEditsKept, FailedIsUndone, NotBegunIsOut
    <2>8. StepInv'
      BY DEF TypeOK, StepInv, ReadIsSound, NotBegunIsOut
    <2> QED
      BY <2>1, <2>2, <2>3, <2>4, <2>5, <2>6, <2>7, <2>8
  <1>10. CASE Validate
    BY <1>10
       DEF Validate, Goto, TypeOK, UndoIsPossible, SuccessSticks, QuietEditsKept, FailedIsUndone,
           NotBegunIsOut, ReadIsSound, StepInv, Undoable, Settled, Applied
  <1>11. CASE Reload
    <2> USE <1>11 DEF Reload, Reloaded, Goto, Report, ReloadFails
    <2>1. TypeOK'
      BY DEF TypeOK
    <2>2. UndoIsPossible'
      BY DEF TypeOK, UndoIsPossible, ReadIsSound, StepInv, NotBegunIsOut, Undoable
    <2>3. SuccessSticks'
      BY DEF TypeOK, SuccessSticks, Applied, ReadIsSound, StepInv
    <2>4. QuietEditsKept'
      BY DEF TypeOK, QuietEditsKept, ReadIsSound, StepInv
    <2>5. FailedIsUndone'
      BY DEF TypeOK, FailedIsUndone, NotBegunIsOut, ReadIsSound, StepInv, Settled
    <2>6. NotBegunIsOut'
      BY DEF TypeOK, NotBegunIsOut, ReadIsSound, StepInv, Settled
    <2>7. ReadIsSound'
      BY DEF TypeOK, ReadIsSound, StepInv, Undoable, Settled, Applied, UndoIsPossible,
                SuccessSticks, QuietEditsKept, FailedIsUndone, NotBegunIsOut
    <2>8. StepInv'
      BY DEF TypeOK, StepInv, ReadIsSound, NotBegunIsOut
    <2> QED
      BY <2>1, <2>2, <2>3, <2>4, <2>5, <2>6, <2>7, <2>8
  <1>12. CASE VerifyPostMigration
    BY <1>12
       DEF VerifyPostMigration, Goto, Report, TypeOK, UndoIsPossible, SuccessSticks, QuietEditsKept, FailedIsUndone,
           NotBegunIsOut, ReadIsSound, StepInv, Undoable, Settled, Applied
  <1>13. CASE Rollback
    <2> USE <1>13 DEF Rollback, AtomicWrite, Goto, Report, IOError
    <2>1. TypeOK'
      BY DEF TypeOK, StepInv, ReadIsSound
    <2>2. UndoIsPossible'
      BY DEF TypeOK, UndoIsPossible, ReadIsSound, StepInv, NotBegunIsOut, Undoable
    <2>3. SuccessSticks'
      BY DEF TypeOK, SuccessSticks, Applied, ReadIsSound, StepInv
    <2>4. QuietEditsKept'
      BY DEF TypeOK, QuietEditsKept, ReadIsSound, StepInv
    <2>5. FailedIsUndone'
      BY DEF TypeOK, FailedIsUndone, NotBegunIsOut, ReadIsSound, StepInv, Settled
    <2>6. NotBegunIsOut'
      BY DEF TypeOK, NotBegunIsOut, ReadIsSound, StepInv, Settled
    <2>7. ReadIsSound'
      BY DEF TypeOK, ReadIsSound, StepInv, Undoable, Settled, Applied, UndoIsPossible,
                SuccessSticks, QuietEditsKept, FailedIsUndone, NotBegunIsOut
    <2>8. StepInv'
      BY DEF TypeOK, StepInv, ReadIsSound, NotBegunIsOut
    <2> QED
      BY <2>1, <2>2, <2>3, <2>4, <2>5, <2>6, <2>7, <2>8
  <1>14. CASE ReloadRestored
    BY <1>14
       DEF ReloadRestored, Report, ReloadFails, TypeOK, UndoIsPossible, SuccessSticks, QuietEditsKept, FailedIsUndone,
           NotBegunIsOut, ReadIsSound, StepInv, Undoable, Settled, Applied
  <1>15. CASE Crash
    BY <1>15
       DEF Crash, Report, TypeOK, UndoIsPossible, SuccessSticks, QuietEditsKept, FailedIsUndone,
           NotBegunIsOut, ReadIsSound, StepInv, Undoable, Settled, Applied
  <1>16. CASE UNCHANGED vars
    BY <1>16
       DEF vars, TypeOK, UndoIsPossible, SuccessSticks, QuietEditsKept, FailedIsUndone,
           NotBegunIsOut, ReadIsSound, StepInv, Undoable, Settled, Applied
  <1> QED
    BY <1>1, <1>2, <1>3, <1>4, <1>5, <1>6, <1>7, <1>8, <1>9, <1>10,
       <1>11, <1>12, <1>13, <1>14, <1>15, <1>16 DEF Next, Environment, Engine

\* The state of the engine always has its type: in particular the engine holds a
\* command exactly between its read and its report, through errors and crashes.
THEOREM TypeCorrect == Spec => []TypeOK
  <1>1. IndInv => TypeOK
    BY DEF IndInv
  <1> QED
    BY <1>1, InitInv, NextInv, PTL DEF Spec

\* At every instant the configuration a patch replaced is on disk as a backup
\* without the patch, whatever write fails and wherever the agent dies.
THEOREM UndoAlwaysPossible == Spec => []UndoIsPossible
  <1>1. IndInv => UndoIsPossible
    BY DEF IndInv
  <1> QED
    BY <1>1, InitInv, NextInv, PTL DEF Spec

\* A succeeded migration stays in the file and in the service: neither the rollback
\* nor the crash of a later one takes it out.
THEOREM SuccessIsPermanent == Spec => []SuccessSticks
  <1>1. IndInv => SuccessSticks
    BY DEF IndInv
  <1> QED
    BY <1>1, InitInv, NextInv, PTL DEF Spec

\* No write and no rollback of the engine loses an edit made between migrations.
THEOREM QuietEditsSurvive == Spec => []QuietEditsKept
  <1>1. IndInv => QuietEditsKept
    BY DEF IndInv
  <1> QED
    BY <1>1, InitInv, NextInv, PTL DEF Spec

\* While the file system works, a failed migration leaves the file as it was.
THEOREM FailureIsUndone == Spec => []FailedIsUndone
  <1>1. IndInv => FailedIsUndone
    BY DEF IndInv
  <1> QED
    BY <1>1, InitInv, NextInv, PTL DEF Spec

-----------------------------------------------------------------------------
(* MCGovernance: the sum of the components                                 *)

\* A step of the sum is a step of one component, and leaves the others as they are.
LEMMA OneServiceSteps ==
    ASSUME MCNext
    PROVE  \/ In("llm", LlmNext) \/ In("remediation", RemediationNext) \/ In("agility", AgilityNext)
           \/ In("policy", PolicyNext) \/ In("assessment", PolicyNext) \/ In("fleet", FleetNext)
           \/ In("engine", Next)
BY DEF MCNext, In, LlmNext, RemediationNext, AgilityNext, PolicyNext, FleetNext, Next, Environment,
       Engine

\* In the eyes of each component it is a step of that component, or no step.
LEMMA ServicesStep ==
    ASSUME [MCNext]_<<llmVars, remediationVars, agilityVars, policyVars, fleetVars, vars, focus>>
    PROVE  /\ [LlmNext]_llmVars /\ [RemediationNext]_remediationVars /\ [AgilityNext]_agilityVars
           /\ [PolicyNext]_policyVars /\ [FleetNext]_fleetVars /\ [Next]_vars /\ UNCHANGED focus
<1>1. CASE In("llm", LlmNext)
  BY <1>1 DEF In
<1>2. CASE In("remediation", RemediationNext)
  BY <1>2 DEF In
<1>3. CASE In("agility", AgilityNext)
  BY <1>3 DEF In
<1>4. CASE In("policy", PolicyNext) \/ In("assessment", PolicyNext)
  BY <1>4 DEF In
<1>5. CASE In("fleet", FleetNext)
  BY <1>5 DEF In
<1>6. CASE In("engine", Next)
  BY <1>6 DEF In
<1>7. CASE UNCHANGED <<llmVars, remediationVars, agilityVars, policyVars, fleetVars, vars, focus>>
  BY <1>7
<1>. QED  BY <1>1, <1>2, <1>3, <1>4, <1>5, <1>6, <1>7, OneServiceSteps

\* The sum that the runs explore implements every one of its components: whatever is
\* proved of a component holds of it while the others run beside it.
THEOREM GovernanceComposes ==
    MCSpec => /\ LlmSpec /\ RemediationSpec /\ AgilitySpec /\ PolicySpec /\ FleetSpec /\ Spec
              /\ [](focus \in {"llm", "remediation", "agility", "policy", "assessment", "fleet", "engine"})
<1>. DEFINE Chosen == focus \in {"llm", "remediation", "agility", "policy", "assessment", "fleet", "engine"}
<1>1. MCInit => /\ LlmInit /\ RemediationInit /\ AgilityInit /\ PolicyInit /\ FleetInit /\ Init
                /\ Chosen
  BY DEF MCInit
<1>2. [MCNext]_<<llmVars, remediationVars, agilityVars, policyVars, fleetVars, vars, focus>>
        => /\ [LlmNext]_llmVars /\ [RemediationNext]_remediationVars /\ [AgilityNext]_agilityVars
           /\ [PolicyNext]_policyVars /\ [FleetNext]_fleetVars /\ [Next]_vars
           /\ (Chosen => Chosen')
  BY ServicesStep
<1>. QED  BY <1>1, <1>2, PTL
             DEF MCSpec, LlmSpec, RemediationSpec, AgilitySpec, PolicySpec, FleetSpec, Spec

\* The state of the component that runs stays well formed.
THEOREM GovernanceTypeCorrect == MCSpec => []GovernanceTypeOK
<1>1. /\ focus \in {"llm", "remediation", "agility", "policy", "assessment", "fleet", "engine"}
      /\ LlmTypeOK /\ RemediationTypeOK /\ AgilityTypeOK /\ PolicyTypeOK /\ FleetTypeOK /\ TypeOK
      => GovernanceTypeOK
  BY Zenon DEF GovernanceTypeOK
<1>. QED  BY <1>1, GovernanceComposes, LlmTypeCorrect, RemediationTypeCorrect, AgilityTypeCorrect,
             PolicyTypeCorrect, FleetTypeCorrect, TypeCorrect, PTL

\* What the runs check of the sum, for every value of the constants.
THEOREM GovernanceHolds ==
    MCSpec => []( /\ JobsAreAccountedFor /\ RemediationIsGoverned /\ ExerciseIsConsistent
                  /\ ProfilesArePersistent /\ AssessmentIsMonotone /\ FleetKeyIsKept
                  /\ UndoIsPossible /\ SuccessSticks /\ QuietEditsKept /\ FailedIsUndone )
<1>. QED  BY GovernanceComposes, JobsAddUp, RemediationGoverned, ExercisesConsistent, ProfilesPersist,
             AssessmentHolds, FleetKeyStays, UndoAlwaysPossible, SuccessIsPermanent,
             QuietEditsSurvive, FailureIsUndone, PTL
=============================================================================
