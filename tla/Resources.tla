----------------------------- MODULE Resources -------------------------------
(***************************************************************************)
(* The resources of one object, side by side: "kind" says which one a       *)
(* behaviour is about. Each module is instantiated with the constants of    *)
(* its name and its own configurations.                                     *)
(***************************************************************************)
EXTENDS Terraform

CONSTANTS
  Names, OrgQuotas, Default, None,                \* of organizations
  Groups, Everywhere, Elsewhere,                  \* of spaces
  SpaceQuotas, Places,
  Rules,                                          \* of security groups
  Orgs,                                           \* of domains and segments
  RouteSpaces, RouteServices, RouteParams,        \* of routes
  Keys, Values,                                   \* of environment variables
  Known, Custom, Defaults, Served, Unnamed,       \* of feature flags
  Amounts, Written,                               \* of quotas
  Paths, FileOf, Options, DefaultOptions,         \* of buildpacks
  Segments                                        \* of the space of a segment

VARIABLE kind

all == <<vars, kind>>

-----------------------------------------------------------------------------
(* "Configs" is a function here: the configurations of each kind.           *)
Or == INSTANCE Organizations     WITH Configs <- Configs["organization"]
Sp == INSTANCE Spaces            WITH Configs <- Configs["space"]
Sg == INSTANCE SecurityGroups    WITH Configs <- Configs["security_group"]
Do == INSTANCE Domains           WITH Configs <- Configs["domain"]
Ro == INSTANCE Routes            WITH Configs <- Configs["route"]
En == INSTANCE EnvVarGroups      WITH Configs <- Configs["env_var_group"]
Ff == INSTANCE FeatureFlags      WITH Configs <- Configs["feature_flags"]
Qu == INSTANCE Quotas            WITH Configs <- Configs["quota"]
Bu == INSTANCE Buildpacks        WITH Configs <- Configs["buildpack"]
Is == INSTANCE IsolationSegments WITH Configs <- Configs["segment"]
Ss == INSTANCE SegmentSpaces     WITH Configs <- Configs["segment_space"]

(* What the modules assume of these constants. *)
ASSUME ResourcesAssumption ==
  /\ Or!OrganizationsAssumption /\ Sp!SpacesAssumption /\ Sg!SecurityGroupsAssumption
  /\ Do!DomainsAssumption /\ Ro!RoutesAssumption /\ En!EnvVarGroupsAssumption
  /\ Ff!FeatureFlagsAssumption /\ Qu!QuotasAssumption /\ Bu!BuildpacksAssumption
  /\ Is!IsolationSegmentsAssumption /\ Ss!SegmentSpacesAssumption

-----------------------------------------------------------------------------
Init ==
  /\ kind \in DOMAIN Configs
  /\ \/ kind = "organization"    /\ Or!Init
     \/ kind = "space"           /\ Sp!Init
     \/ kind = "security_group"  /\ Sg!Init
     \/ kind = "domain"          /\ Do!Init
     \/ kind = "route"           /\ Ro!Init
     \/ kind = "env_var_group"   /\ En!Init
     \/ kind = "feature_flags"   /\ Ff!Init
     \/ kind = "quota"           /\ Qu!Init
     \/ kind = "buildpack"       /\ Bu!Init
     \/ kind = "segment"         /\ Is!Init
     \/ kind = "segment_space"   /\ Ss!Init

Run ==
  /\ UNCHANGED kind
  /\ \/ kind = "organization"    /\ Or!Run
     \/ kind = "space"           /\ Sp!Run
     \/ kind = "security_group"  /\ Sg!Run
     \/ kind = "domain"          /\ Do!Run
     \/ kind = "route"           /\ Ro!Run
     \/ kind = "env_var_group"   /\ En!Run
     \/ kind = "feature_flags"   /\ Ff!Run
     \/ kind = "quota"           /\ Qu!Run
     \/ kind = "buildpack"       /\ Bu!Run
     \/ kind = "segment"         /\ Is!Run
     \/ kind = "segment_space"   /\ Ss!Run

Operate ==
  /\ UNCHANGED kind
  /\ \/ kind = "organization"    /\ Or!Operate
     \/ kind = "space"           /\ Sp!Operate
     \/ kind = "security_group"  /\ Sg!Operate
     \/ kind = "domain"          /\ Do!Operate
     \/ kind = "route"           /\ Ro!Operate
     \/ kind = "env_var_group"   /\ En!Operate
     \/ kind = "feature_flags"   /\ Ff!Operate
     \/ kind = "quota"           /\ Qu!Operate
     \/ kind = "buildpack"       /\ Bu!Operate
     \/ kind = "segment"         /\ Is!Operate
     \/ kind = "segment_space"   /\ Ss!Operate

Disturb ==
  /\ UNCHANGED kind
  /\ \/ kind = "organization"    /\ Or!Disturb
     \/ kind = "space"           /\ Sp!Disturb
     \/ kind = "security_group"  /\ Sg!Disturb
     \/ kind = "domain"          /\ Do!Disturb
     \/ kind = "route"           /\ Ro!Disturb
     \/ kind = "env_var_group"   /\ En!Disturb
     \/ kind = "feature_flags"   /\ Ff!Disturb
     \/ kind = "quota"           /\ Qu!Disturb
     \/ kind = "buildpack"       /\ Bu!Disturb
     \/ kind = "segment"         /\ Is!Disturb
     \/ kind = "segment_space"   /\ Ss!Disturb

Next == Run \/ Operate \/ Disturb

Spec == Init /\ [][Next]_all

(* Terraform runs again and again, and its calls return. *)
FairSpec == Spec /\ WF_all(Run) /\ WF_all(Operate)

-----------------------------------------------------------------------------
TypeOK ==
  /\ kind = "organization"   => Or!TypeOK
  /\ kind = "space"          => Sp!TypeOK
  /\ kind = "security_group" => Sg!TypeOK
  /\ kind = "domain"         => Do!TypeOK
  /\ kind = "route"          => Ro!TypeOK
  /\ kind = "env_var_group"  => En!TypeOK
  /\ kind = "feature_flags"  => Ff!TypeOK
  /\ kind = "quota"          => Qu!TypeOK
  /\ kind = "buildpack"      => Bu!TypeOK
  /\ kind = "segment"        => Is!TypeOK
  /\ kind = "segment_space"  => Ss!TypeOK

Refreshes == pc = "idle" /\ pc' = "plan"

(* Whatever failed or was killed before, a refresh that leaves nothing to   *)
(* do leaves nothing wrong, but for what is said where AsAsked and its kin  *)
(* are defined: an empty plan is the operator's only view of the platform.  *)
PlansAreTrue ==
  [][Refreshes =>
       /\ kind = "organization"   => Or!OnlyDefaultHides'
       /\ kind = "space"          => Sp!AsAsked'
       /\ kind = "security_group" => Sg!AsAsked'
       /\ kind = "domain"         => Do!AsAsked'
       /\ kind = "route"          => Ro!AsAsked'
       /\ kind = "env_var_group"  => En!OnlyStagedValuesHide'
       /\ kind = "feature_flags"  => Ff!AsAsked'
       /\ kind = "quota"          => Qu!AsAsked'
       /\ kind = "buildpack"      => Bu!AsAsked'
       /\ kind = "segment"        => Is!AsAsked'
       /\ kind = "segment_space"  => Ss!AsAsked']_all

(* An operation that reports success has made its object what Terraform     *)
(* will remember, whichever of its calls there were and whatever the object *)
(* was before, but for what is said where Truthful is defined.              *)
SuccessIsTrue ==
  /\ kind = "organization"   => Or!Truthful
  /\ kind = "space"          => Sp!Truthful
  /\ kind = "security_group" => Sg!Truthful
  /\ kind = "domain"         => Do!Truthful
  /\ kind = "route"          => Ro!Truthful
  /\ kind = "env_var_group"  => En!Truthful
  /\ kind = "feature_flags"  => Ff!Truthful
  /\ kind = "quota"          => Qu!Truthful
  /\ kind = "buildpack"      => Bu!Truthful
  /\ kind = "segment"        => Is!Truthful
  /\ kind = "segment_space"  => Ss!Truthful

(* See KeepsGroups of Spaces and KeepsShares of Domains.                    *)
SpaceKeepsGroups    == [][kind = "space" /\ pc = "call" => Sp!KeepsGroups]_all
DomainKeepsShares   == [][kind = "domain" /\ pc = "call" => Do!KeepsShares]_all

Recovers ==
  CASE kind = "organization"   -> Or!Recovers
    [] kind = "route"          -> Ro!Recovers
    [] kind = "quota"          -> Qu!Recovers
    [] kind = "buildpack"      -> Bu!Recovers
    [] kind = "segment"        -> Is!Recovers
    [] OTHER -> TRUE

InSync ==
  CASE kind = "organization"   -> Or!InSync
    [] kind = "space"          -> Sp!InSync
    [] kind = "security_group" -> Sg!InSync
    [] kind = "domain"         -> Do!InSync
    [] kind = "route"          -> Ro!InSync
    [] kind = "env_var_group"  -> En!InSync
    [] kind = "feature_flags"  -> Ff!InSync
    [] kind = "quota"          -> Qu!InSync
    [] kind = "buildpack"      -> Bu!InSync
    [] kind = "segment"        -> Is!InSync
    [] kind = "segment_space"  -> Ss!InSync

(* Once nobody edits and nothing fails any more, runs of Terraform come to  *)
(* an empty plan and stay there, but for what each module's Recovers        *)
(* excepts.                                                                 *)
Converges == <>[]Recovers => []<>(pc = "plan") /\ <>[](pc = "plan" => InSync)
=============================================================================
