------------------------- MODULE CompositionProofs -------------------------
(***************************************************************************)
(* The thirteen components of MC_Components next to each other, for any    *)
(* values of the constants: the component that runs keeps the invariants   *)
(* of its own proofs, and the others rest.                                 *)
(***************************************************************************)
EXTENDS MC_Components, ComponentProofs, AgentProofs, InterfaceProofs

\* The invariants of the single components, with the types of the four whose
\* invariants do not imply them.
AllInv ==
  /\ AgentInv
  /\ VoiceInv /\ VoiceTypeOK
  /\ SpeechInv /\ SpeechTypeOK
  /\ TabletInv
  /\ AnimatorInv
  /\ NetworkInv
  /\ MemoryInv
  /\ ChatInv /\ ChatTypeOK
  /\ SpotifyInv
  /\ AudioInv
  /\ DeviceInv
  /\ LifeInv /\ LifeBounds
  /\ PlanningInv

allVars == <<component, agentVars, voiceVars, speechVars, tabletVars, animatorVars, networkVars,
             memoryVars, chatVars, spotifyVars, audioVars, deviceVars, lifecycleVars, planningVars>>

LEMMA AllInitially == ComponentsInit => AllInv
  BY AgentInitially, VoiceInitially, VoiceInitiallyTyped, SpeechInitially, SpeechInitiallyTyped,
     TabletInitially, AnimatorInitially, NetworkInitially, MemoryInitially, ChatInitially,
     ChatInitiallyTyped, SpotifyInitially, AudioInitially, DeviceInitially, LifeInitially,
     LifeInitiallyBounded, PlanningInitially
     DEF ComponentsInit, AllInv

\* A component takes a step of its own or none.
LEMMA EachMovesOrRests ==
  ASSUME [ComponentsNext]_allVars
  PROVE  /\ [AgentNext]_agentVars
         /\ [VoiceNext]_voiceVars
         /\ [SpeechNext]_speechVars
         /\ [TabletNext]_tabletVars
         /\ [AnimatorNext]_animatorVars
         /\ [NetworkNext]_networkVars
         /\ [MemoryNext]_memoryVars
         /\ [ChatNext]_chatVars
         /\ [SpotifyNext]_spotifyVars
         /\ [AudioNext]_audioVars
         /\ [DeviceNext]_deviceVars
         /\ [LifecycleNext]_lifecycleVars
         /\ [PlanningNext]_planningVars
  <1>1. CASE UNCHANGED allVars
    BY <1>1 DEF allVars
  <1>2. CASE ComponentsNext
    BY <1>2, Zenon DEF ComponentsNext, OthersRest
  <1> QED  BY <1>1, <1>2

LEMMA AllPreserved == AllInv /\ [ComponentsNext]_allVars => AllInv'
  <1> SUFFICES ASSUME AllInv, [ComponentsNext]_allVars PROVE AllInv'
    OBVIOUS
  <1>1. AgentInv' /\ PlanningInv'
    BY EachMovesOrRests, AgentPreserved, PlanningPreserved DEF AllInv
  <1>2. VoiceInv' /\ VoiceTypeOK'
    BY EachMovesOrRests, VoicePreserved, VoiceTypesKept DEF AllInv
  <1>3. SpeechInv' /\ SpeechTypeOK' /\ AudioInv'
    BY EachMovesOrRests, SpeechPreserved, SpeechTypesKept, AudioPreserved DEF AllInv
  <1>4. TabletInv' /\ AnimatorInv'
    BY EachMovesOrRests, TabletPreserved, AnimatorPreserved DEF AllInv
  <1>5. NetworkInv' /\ DeviceInv' /\ SpotifyInv' /\ MemoryInv'
    BY EachMovesOrRests, NetworkPreserved, DevicePreserved, SpotifyPreserved, MemoryPreserved
       DEF AllInv
  <1>6. ChatInv' /\ ChatTypeOK'
    BY EachMovesOrRests, ChatPreserved, ChatTypesKept DEF AllInv
  <1>7. LifeInv' /\ LifeBounds'
    BY EachMovesOrRests, LifePreserved, LifeBoundsKept DEF AllInv
  <1> QED  BY <1>1, <1>2, <1>3, <1>4, <1>5, <1>6, <1>7 DEF AllInv

LEMMA AllInvariant == ComponentsSpec => []AllInv
  <1>1. ComponentsSpec => ComponentsInit /\ [][ComponentsNext]_allVars
    BY DEF ComponentsSpec, allVars
  <1> QED  BY <1>1, AllInitially, AllPreserved, PTL

\* Every variable of every component stays within its type, whichever of them runs:
\* none of the threads leaves a record, a queue or a counter in a state that the
\* code has no name for, and no queue exceeds its capacity.
THEOREM TypesAreKept == ComponentsSpec => []TypesOK
  <1>1. ASSUME AllInv PROVE TypesOK
    <2>1. /\ AgentTypeOK /\ VoiceTypeOK /\ SpeechTypeOK /\ TabletTypeOK /\ ChatTypeOK
          /\ NetworkTypeOK /\ MemoryTypeOK /\ SpotifyTypeOK /\ DeviceTypeOK
      BY <1>1 DEF AllInv, AgentInv, TabletInv, NetworkInv, MemoryInv, SpotifyInv, DeviceInv
    <2>2. AnimatorTypeOK
      BY <1>1 DEF AllInv, AnimatorInv
    <2>3. AudioTypeOK
      BY <1>1, AudioIsTyped DEF AllInv
    <2>4. PlanningTypeOK
      BY <1>1, PlanningIsTyped DEF AllInv
    <2>5. LifecycleTypeOK
      BY <1>1, LifeTyped DEF AllInv
    <2> QED  BY <2>1, <2>2, <2>3, <2>4, <2>5 DEF TypesOK
  <1> QED  BY <1>1, AllInvariant, PTL
=============================================================================
