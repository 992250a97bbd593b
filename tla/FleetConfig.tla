---------------------------- MODULE FleetConfig ----------------------------
(***************************************************************************)
(* The configuration the agents fetch: the fleet's, and named profiles     *)
(* that hosts are mapped to (httpapi/server.go fleetConfig, fleetProfiles, *)
(* fleetProfileMapping; store.go).  The stored LLM key leaves the          *)
(* controller masked, so an operator who saves the form sends the mask     *)
(* back, and the handler puts the stored key in its place: a read, and     *)
(* then a write, outside any transaction.                                  *)
(*                                                                         *)
(* A configuration is its key and its other settings; the latter are one   *)
(* value.                                                                  *)
(***************************************************************************)
EXTENDS Naturals, FiniteSets

CONSTANTS
    LlmKeys,            \* keys an operator may type
    FleetSettings,      \* the other fields
    Operators,          \* forms open, or being saved, at the same time
    ConfigHosts, ConfigProfiles,
    MaxFleetSaves, MaxFleetErrors

Empty == ""             \* no key, no profile
Mask == "********"
NoConfig == [key |-> Empty, settings |-> "absent"]
DefaultConfig == [key |-> Empty, settings |-> "default"]

\* No key is the mask, and no profile is unnamed.
ASSUME FleetAssumption ==
    /\ MaxFleetSaves \in Nat /\ MaxFleetErrors \in Nat
    /\ Mask \notin LlmKeys /\ Empty \notin ConfigProfiles /\ "absent" \notin FleetSettings

VARIABLES
    fleet,              \* the row of fleet_configs
    configProfile,      \* config_profiles
    mapping,            \* agent_profile_mappings, Empty without a row
    operator,           \* forms: where, what they hold, and if the key is the operator's
    typedKey,           \* history: the fleet key that an operator typed last
    unsettled,          \* history: did a lookup fail, two saves of the fleet overlap, or a
                        \* save send an empty key field that nobody had touched?
    fleetSaves, fleetErrors

fleetVars == <<fleet, configProfile, mapping, operator, typedKey, unsettled, fleetSaves, fleetErrors>>

NoForm == [at |-> "none", form |-> NoConfig, typed |-> "no"]

FleetInit ==
    /\ fleet = NoConfig /\ configProfile = [p \in ConfigProfiles |-> NoConfig]
    /\ mapping = [h \in ConfigHosts |-> Empty] /\ operator = [o \in Operators |-> NoForm]
    /\ typedKey = Empty /\ unsettled = FALSE /\ fleetSaves = 0 /\ fleetErrors = 0

Masked(c) == IF c.key = Empty THEN c ELSE [key |-> Mask, settings |-> c.settings]

\* GetFleetConfig: without a row the defaults are inserted.
Fleet == IF fleet = NoConfig THEN DefaultConfig ELSE fleet

\* GetConfigForAgent: the profile of the host's mapping, or the fleet's configuration
ConfigFor(h) == IF mapping[h] # Empty THEN configProfile[mapping[h]] ELSE Fleet

-----------------------------------------------------------------------------
(* The configuration of the fleet                                          *)

\* GET /api/config, also with host_uuid
OpenForm(o, h) ==
    /\ operator[o] = NoForm /\ fleet' = Fleet
    /\ operator' = [operator EXCEPT ![o] = [at |-> "editing", form |-> Masked(ConfigFor(h)),
                                                typed |-> "no"]]
    /\ UNCHANGED <<configProfile, mapping, typedKey, unsettled, fleetSaves, fleetErrors>>

\* POST: the operator leaves the key alone, or types another or none.  A form that was
\* opened before the key was stored, or for a host whose profile has no key, shows an empty
\* field, and the handler takes that for the fleet's key.
SubmitForm(o, key, settings) ==
    LET form    == [key |-> key, settings |-> settings]
        touched == key # operator[o].form.key
    IN  /\ operator[o].at = "editing" /\ key \in {operator[o].form.key, Empty} \cup LlmKeys
        /\ fleetSaves < MaxFleetSaves /\ fleetSaves' = fleetSaves + 1
        /\ operator' = [operator EXCEPT ![o] =
                          [at |-> IF key = Mask THEN "looking" ELSE "writing", form |-> form,
                           typed |-> IF touched THEN "yes" ELSE "no"]]
        /\ unsettled' = (\/ unsettled \/ (~ touched /\ key = Empty /\ fleet.key # Empty)
                         \/ \E q \in Operators : operator[q].at \in {"looking", "writing"})
        /\ UNCHANGED <<fleet, configProfile, mapping, typedKey, fleetErrors>>

\* the mask is written like any other key
KeepKey_Skipped(o, ok) ==
    /\ operator[o].at = "looking" /\ ok
    /\ operator' = [operator EXCEPT ![o].at = "writing"]
    /\ UNCHANGED <<fleet, configProfile, mapping, typedKey, unsettled, fleetSaves, fleetErrors>>

\* The mask is replaced by the stored key; when that cannot be read the mask stays.
KeepKey(o, ok) ==
    /\ operator[o].at = "looking"
    /\ IF ok THEN /\ operator' = [operator EXCEPT ![o] = [at |-> "writing", typed |-> "no",
                         form |-> [key |-> Fleet.key, settings |-> @.form.settings]]]
                  /\ fleet' = Fleet /\ UNCHANGED <<unsettled, fleetErrors>>
             ELSE /\ fleetErrors < MaxFleetErrors /\ fleetErrors' = fleetErrors + 1
                  /\ operator' = [operator EXCEPT ![o].at = "writing"] /\ unsettled' = TRUE
                  /\ UNCHANGED fleet
    /\ UNCHANGED <<configProfile, mapping, typedKey, fleetSaves>>

\* UpdateFleetConfig writes all columns, or fails.
UpdateFleetConfig(o, ok) ==
    LET form == operator[o].form
    IN  /\ operator[o].at = "writing" /\ operator' = [operator EXCEPT ![o] = NoForm]
        /\ IF ok THEN /\ fleet' = form
                      /\ typedKey' = IF operator[o].typed = "yes" THEN form.key ELSE typedKey
                      /\ UNCHANGED fleetErrors
                 ELSE /\ fleetErrors < MaxFleetErrors /\ fleetErrors' = fleetErrors + 1
                      /\ UNCHANGED <<fleet, typedKey>>
        /\ UNCHANGED <<configProfile, mapping, unsettled, fleetSaves>>

-----------------------------------------------------------------------------
(* Profiles                                                                *)

\* POST /api/config/profiles: the mask is not kept as a key, and the key is gone.
SaveConfigProfile(p, key, settings) ==
    /\ fleetSaves < MaxFleetSaves /\ fleetSaves' = fleetSaves + 1
    /\ key \in {Masked(configProfile[p]).key, Empty} \cup LlmKeys
    /\ configProfile' = [configProfile EXCEPT ![p] =
                           [key |-> IF key = Mask THEN Empty ELSE key, settings |-> settings]]
    /\ UNCHANGED <<fleet, mapping, operator, typedKey, unsettled, fleetErrors>>

\* the mappings stay
Unmapped_NoCascade(p) == mapping

\* ON DELETE CASCADE of agent_profile_mappings
Unmapped(p) == [h \in ConfigHosts |-> IF mapping[h] = p THEN Empty ELSE mapping[h]]

DeleteConfigProfile(p) ==
    /\ configProfile[p] # NoConfig
    /\ configProfile' = [configProfile EXCEPT ![p] = NoConfig] /\ mapping' = Unmapped(p)
    /\ UNCHANGED <<fleet, operator, typedKey, unsettled, fleetSaves, fleetErrors>>

\* MapAgentToProfile: the profile exists (a foreign key), or the mapping is dropped.
MapAgentToProfile(h, p) ==
    /\ mapping[h] # p /\ (p # Empty => configProfile[p] # NoConfig)
    /\ mapping' = [mapping EXCEPT ![h] = p]
    /\ UNCHANGED <<fleet, configProfile, operator, typedKey, unsettled, fleetSaves, fleetErrors>>

-----------------------------------------------------------------------------
FleetNext ==
    \/ \E o \in Operators :
         \/ \E h \in ConfigHosts : OpenForm(o, h)
         \/ \E key \in LlmKeys \cup {Empty, Mask}, s \in FleetSettings : SubmitForm(o, key, s)
         \/ \E ok \in BOOLEAN : KeepKey(o, ok) \/ UpdateFleetConfig(o, ok)
    \/ \E p \in ConfigProfiles :
         \/ \E key \in LlmKeys \cup {Empty, Mask}, s \in FleetSettings : SaveConfigProfile(p, key, s)
         \/ DeleteConfigProfile(p)
    \/ \E h \in ConfigHosts, p \in ConfigProfiles \cup {Empty} : MapAgentToProfile(h, p)

FleetSpec == FleetInit /\ [][FleetNext]_fleetVars

-----------------------------------------------------------------------------
(* Properties                                                              *)

\* Type invariant.
FleetTypeOK ==
    /\ fleet.key \in LlmKeys \cup {Empty, Mask} /\ typedKey \in LlmKeys \cup {Empty}
    /\ \A o \in Operators : operator[o].at \in {"none", "editing", "looking", "writing"}
    /\ \A p \in ConfigProfiles : configProfile[p].key \in LlmKeys \cup {Empty}
    /\ \A h \in ConfigHosts : mapping[h] # Empty => configProfile[mapping[h]] # NoConfig

\* The fleet's key is the one an operator typed last (typing none included), although every
\* operator who saves the form without touching the key sends the mask, and although the
\* form may show the mask of a profile's key instead.  Three things excuse a loss: the stored
\* key could not be read back, two saves overlapped, or a form with an empty key field,
\* older than the key or of a host whose profile has none, was saved untouched: its operator
\* erases a key that another one typed.
FleetKeyIsKept == ~ unsettled => fleet.key = typedKey
=============================================================================
