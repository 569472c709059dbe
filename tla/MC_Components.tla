--------------------------- MODULE MC_Components ---------------------------
(***************************************************************************)
(* The components that share no state, each checked on its own in one run: *)
(* a behaviour picks one of them and is a behaviour of that component,     *)
(* with the variables of the others at rest.                               *)
(***************************************************************************)
EXTENDS AgentService, VoiceService, SpeechOutput, TabletLink, FaceAnimator, NetworkService,
        MemoryService, ChatService, SpotifyClient, AudioCapture, DeviceControl,
        Lifecycle, PromptPlanning

VARIABLE component

Components == {"agent", "voice", "speech", "tablet", "face", "network", "memory", "chat",
               "spotify", "audio", "devices", "lifecycle",
               "planner"}

(* The variables of every component but the one named.                     *)
OthersRest(c) ==
    /\ c # "agent" => UNCHANGED agentVars
    /\ c # "voice" => UNCHANGED voiceVars
    /\ c # "speech" => UNCHANGED speechVars
    /\ c # "tablet" => UNCHANGED tabletVars
    /\ c # "face" => UNCHANGED animatorVars
    /\ c # "network" => UNCHANGED networkVars
    /\ c # "memory" => UNCHANGED memoryVars
    /\ c # "chat" => UNCHANGED chatVars
    /\ c # "spotify" => UNCHANGED spotifyVars
    /\ c # "audio" => UNCHANGED audioVars
    /\ c # "devices" => UNCHANGED deviceVars
    /\ c # "lifecycle" => UNCHANGED lifecycleVars
    /\ c # "planner" => UNCHANGED planningVars

(* What the environment chooses at the start is chosen for the component     *)
(* that runs.                                                                *)
ComponentsInit ==
    /\ component \in Components
    /\ AgentInit
    /\ VoiceInit
    /\ SpeechInit
    /\ TabletInit
    /\ AnimatorInit
    /\ NetworkInit
    /\ MemoryInit
    /\ ChatInit
    /\ SpotifyInit
    /\ AudioInit
    /\ DeviceInit
    /\ LifecycleInit
    /\ PlanningInit
    /\ component # "memory" => drive
    /\ component # "spotify" => service.rotates
    /\ component # "devices" => hardware = [volume |-> 0, brightness |-> 0, muted |-> FALSE]
    /\ component # "planner" => planning.saying = CHOOSE s \in Sayings : TRUE

ComponentsNext ==
    /\ UNCHANGED component
    /\ OthersRest(component)
    /\ \/ component = "agent" /\ AgentNext
       \/ component = "voice" /\ VoiceNext
       \/ component = "speech" /\ SpeechNext
       \/ component = "tablet" /\ TabletNext
       \/ component = "face" /\ AnimatorNext
       \/ component = "network" /\ NetworkNext
       \/ component = "memory" /\ MemoryNext
       \/ component = "chat" /\ ChatNext
       \/ component = "spotify" /\ SpotifyNext
       \/ component = "audio" /\ AudioNext
       \/ component = "devices" /\ DeviceNext
       \/ component = "lifecycle" /\ LifecycleNext
       \/ component = "planner" /\ PlanningNext

ComponentsSpec ==
    ComponentsInit /\ [][ComponentsNext]_<<component, agentVars, voiceVars, speechVars, tabletVars,
                                            animatorVars, networkVars, memoryVars, chatVars,
                                            spotifyVars, audioVars, deviceVars, lifecycleVars,
                                            planningVars>>

(* Every variable of the component that runs stays within its type: none of  *)
(* its threads leaves a record, a queue or a counter in a state that the     *)
(* code has no name for, and no queue exceeds its capacity.                  *)
TypesOK ==
    /\ component = "agent" => AgentTypeOK
    /\ component = "voice" => VoiceTypeOK
    /\ component = "speech" => SpeechTypeOK
    /\ component = "tablet" => TabletTypeOK
    /\ component = "face" => AnimatorTypeOK
    /\ component = "network" => NetworkTypeOK
    /\ component = "memory" => MemoryTypeOK
    /\ component = "chat" => ChatTypeOK
    /\ component = "spotify" => SpotifyTypeOK
    /\ component = "audio" => AudioTypeOK
    /\ component = "devices" => DeviceTypeOK
    /\ component = "lifecycle" => LifecycleTypeOK
    /\ component = "planner" => PlanningTypeOK

-----------------------------------------------------------------------------
\* Values of the constants.

OneThenTwo == <<1, 2>>
DownAndUp == {-2, 1}

\* "The next one", "open it again", something only the model understands, two
\* steps in one prompt, too many, time and date at once, and ordinary talk;
\* a song at either provider, and an opened thing.
SomeSayings == {[shape |-> "command", parts |-> <<"media">>],
                [shape |-> "order", parts |-> <<"open">>],
                [shape |-> "command", parts |-> <<"free">>],
                [shape |-> "request", parts |-> <<"pause", "media">>],
                [shape |-> "order", parts |-> <<"fixed", "pause", "open">>],
                [shape |-> "order", parts |-> <<"refused">>],
                [shape |-> "talk", parts |-> <<"free">>]}
SomeDeeds == {[media |-> "spotify", open |-> "none"], [media |-> "windows", open |-> "none"],
              [media |-> "none", open |-> "notepad"]}
=============================================================================
