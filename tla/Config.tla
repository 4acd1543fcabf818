------------------------------- MODULE Config -------------------------------
(* The settings of a command, from its options, the environment and the   *)
(* configuration file.  crates/runtime/src/config.rs; the options are      *)
(* those of command_overrides in crates/cli/src/main.rs.                   *)
EXTENDS Media

CONSTANT Cores   \* available_parallelism

(* A layer maps the fields that it sets to their values; a bitrate is a    *)
(* number and its unit, or Bad.  A file is what is found at its path, and  *)
(* for a regular one that is TOML its version, a layer and its profiles:   *)
(* names to [unknown, codecs], where codecs map families to [max, layouts]. *)

-----------------------------------------------------------------------------
Over(first, second) ==
  [field \in DOMAIN first \cup DOMAIN second |->
     IF field \in DOMAIN first THEN first[field] ELSE second[field]]

Defaults == [profile |-> "generic-tv", codec |-> "ac3", bitrate |-> <<640, "k">>,
             channels |-> "keep-up-to-5.1", mode |-> "add", storage |-> "balanced",
             directory |-> Null]

DefaultJobs(storage) ==
  LET half == Cores \div 2 IN
    IF storage = "hdd" THEN 1
    ELSE IF half < 1 THEN 1 ELSE IF half > 4 THEN 4 ELSE half

(* Options come before the environment, that before the file.              *)
Merged(options, environment, file) ==
  LET chosen == Over(options, Over(environment, Over(file, Defaults)))
  IN Over(chosen, [jobs |-> DefaultJobs(chosen.storage)])

-----------------------------------------------------------------------------
(* The file.                                                               *)
BuiltInProfiles == {"generic-tv", "samsung", "lg", "dlna"}

RuleValid(family, rule) ==
  /\ family \in Families
  /\ rule.max # 0
  /\ rule.layouts # {}

ProfilesValid(profiles) ==
  /\ DOMAIN profiles \cap BuiltInProfiles = {}
  /\ \A name \in DOMAIN profiles :
       \A family \in DOMAIN profiles[name].codecs :
         RuleValid(family, profiles[name].codecs[family])

EmptyFile == [kind |-> "absent", version |-> Null, layer |-> <<>>, profiles |-> <<>>]

(* A file that was asked for has to be there; `config validate` asks.      *)
FileLoads(file, required) ==
  \/ file.kind = "absent" /\ ~ required
  \/ /\ file.kind = "toml"
     /\ file.version \in {Null, 1}
     /\ ProfilesValid(file.profiles)

-----------------------------------------------------------------------------
(* What the values mean.                                                   *)
JobsValid(jobs) == jobs # Bad /\ jobs \in 1 .. 64

Units == [k |-> 1000, m |-> 1000000, none |-> 1]
Bitrate(text) == text[1] * Units[text[2]]

Ac3Bitrates == {32000, 40000, 48000, 56000, 64000, 80000, 96000, 112000, 128000,
                160000, 192000, 224000, 256000, 320000, 384000, 448000, 512000,
                576000, 640000}
Eac3Bitrates == {rate \in Nat : 32000 <= rate /\ rate <= 6144000}
AacBitrates  == {rate \in Nat : 8000 <= rate /\ rate <= 1024000}

BitrateValid(codec, text) ==
  /\ text # Bad
  /\ CASE codec = "ac3"  -> Bitrate(text) \in Ac3Bitrates
       [] codec = "eac3" -> Bitrate(text) \in Eac3Bitrates
       [] codec = "aac"  -> Bitrate(text) \in AacBitrates
       [] OTHER          -> FALSE

SettingsValid(merged, profiles) ==
  /\ merged.storage \in {"hdd", "balanced", "nvme"}
  /\ merged.profile \in BuiltInProfiles \cup DOMAIN profiles
  /\ merged.channels \in {"keep-up-to-5.1", "stereo", "5.1"}
  /\ BitrateValid(merged.codec, merged.bitrate)
  /\ merged.mode \in {"add", "replace", "only-new"}
  /\ JobsValid(merged.jobs)

(* load_effective_config has no error.                                     *)
ConfigLoads(options, environment, file, required) ==
  /\ FileLoads(file, required)
  /\ "jobs" \in DOMAIN environment => JobsValid(environment.jobs)
  /\ SettingsValid(Merged(options, environment, file.layer), file.profiles)

-----------------------------------------------------------------------------
(* A configured profile starts from the built-in rules.                    *)
PolicyNamed(name, profiles) ==
  IF name \in BuiltInProfiles
  THEN BuiltInPolicy
  ELSE [rules   |-> Over(profiles[name].codecs, BuiltInRules),
        unknown |-> profiles[name].unknown]

CodecLabels == [ac3 |-> "AC-3", eac3 |-> "E-AC-3", aac |-> "AAC"]

Settings(options, environment, file) ==
  LET merged == Merged(options, environment, file.layer)
  IN [compat    |-> PolicyNamed(merged.profile, file.profiles),
      target    |-> [codec   |-> CodecLabels[merged.codec],
                     layout  |-> merged.channels,
                     bitrate |-> Bitrate(merged.bitrate)],
      mode      |-> merged.mode,
      directory |-> merged.directory,
      jobs      |-> merged.jobs]
=============================================================================
