# A verification of terraform-provider-cloudfoundry

TLA+ models of the parts of this Terraform provider whose behaviour is hard to
test: operations of many calls to the Cloud Controller, any of which may fail,
lose its answer or be cut short, and after which the next run of Terraform has
to find its way from whatever was left. TLC checks the models on small
instances. TLAPS proves, for instances of any size, every safety property
that TLC finds to hold, of every resource, and that a blue-green update is an
execution of the list of actions in `rewind/rewind.go`.

## 1. The system

The provider (`src/provider.go`) is a plugin of Terraform: a table of resources
and data sources, one per file of `src/resources/`. Terraform calls `Exists`,
`Read`, `Create`, `Update` and `Delete` of a resource with its
`schema.ResourceData`, keeps what they leave in it as its state, and compares
that with the configuration in the next plan. Each function makes a sequence of
requests to the Cloud Controller through the repositories of the Cloud Foundry
CLI. There is no transaction and, but for applications, no undo.

| component | state | operations | interacts with |
|---|---|---|---|
| applications, `resources/apps.go` | the application; `path_sha1`, `remote_sha1`, `bits_has_changed` in Terraform's state | create, blue-green deployment and restage, four updates in place, delete | rewind, bits manager, Cloud Controller |
| rewind, `rewind/rewind.go` | a list of actions with `Forward` and `ReversePrevious` | `Execute` | applications |
| bits manager, `bitsmanager/` | the archive behind a path (a directory, a zip, a git repository, a URL), temporary files, a pipe and the goroutine that fills it, the package of an application | upload, copy, checksums | applications, Cloud Controller |
| services, `resources/services.go` | the instance; the space that `cf_client/terraform_repository.go` keeps for the whole process | create, update, unbind and delete, adopt by name | every operation that runs at the same time |
| service brokers, `resources/service_broker.go` | the broker, public plans and visibilities; `previous_password`, `catalog_sha1`, `catalog_has_changed` | create or adopt, update, reconcile access, delete | the broker's catalog, Cloud Controller |
| spaces, organizations, security groups | the object; bound quota, security groups, segments | create in several calls, update, delete | each other (a security group is bound from both sides) |
| routes and domains | routes, route services, shared domains | adopt by name, bind, share | applications, services |
| isolation segments, entitlements | a segment, its entitled organizations | entitle, set as default, revoke | organizations, spaces |
| quotas, buildpacks, env_var_group, feature_flags, stacks | one object each | create, update, delete | Cloud Controller |
| finder, client, gateways, `cf_client/` | read-only after the start but for the space | reads; construction | every resource |
| encryption, schema glue | none | pure conversions | resources |

What makes it hard, and what correctness means, by component:

* **Applications.** A blue-green update renames the original, makes a
  replacement call by call and deletes the original. It must keep the original
  until the replacement is complete, undo a failure without destroying anything
  that serves, and end in a state from which the next run recovers, also after
  a kill, a lost answer or a panic. What a refresh reports as up to date must be
  what is deployed. Waiting must end.
* **Services.** Terraform runs the operations of independent resources at once,
  in one process, and the CLI's repositories read the space from one shared
  setting. An instance must be in its resource's space, belong to one resource
  and never be forgotten.
* **Service brokers.** Who may use a plan is a set of visibilities that is
  changed one at a time and then folded back into entries of service, plan and
  organization. An update must not take away what stays asked for, must not give
  more than is asked for, and an empty plan must be true.
* **Uploads.** The caller, a goroutine that writes the body into a pipe, the
  HTTP client and the Cloud Controller run side by side, and errors are panics.
  The application must keep its old package or get the whole new one, never a
  part of it; the upload must leave nothing in the temporary directory; and the
  goroutine must not end a provider that has gone on.
* **Entitlements.** The resources of one organization run at once and share its
  default segment, which each of them sets or clears without looking. An empty
  plan must be true of it and runs must end in one.
* **The other resources** are of one object each: they adopt by name, create and
  then bind, share or set call by call, and some fold away what they read. After
  any failure in between an empty plan must be true, what an operation reports as
  done must be done, what stays asked for must not be taken away on the way, and
  runs must end in an empty plan.

`PROJECT.json` lists the hazards at their lines.

## 2. The modules

```
Apps <--- MCApps <--- AppsRewind ---> Rewind (abstract)
  ^                        ^
AppsProofs <------- AppsRewindProofs

Uploads ---> Deploying (abstract)     MCUploads, UploadsProofs
Services                              MCServices, ServicesProofs
Brokers                               MCBrokers, BrokersProofs
Entitlements                          MCEntitlements, EntitlementsProofs

Terraform <--- Organizations, Spaces, SecurityGroups, Domains, Routes,
   ^   ^       EnvVarGroups, FeatureFlags, Quotas, Buildpacks,
   |   |       IsolationSegments, SegmentSpaces
   |   |          ^ (one INSTANCE of each)
   |   '------ Resources <--- MCResources
   |              ^
TerraformProofs <-+-- ResourcesProofs
```

The modules of the resources have the same shape. `cfg` is what the operator
wrote, `tf` what Terraform's state says, one variable or more what the Cloud
Controller has, `d` the `ResourceData` of the operation under way and `pc` its
next call. A run of Terraform is `Refresh` (`Exists` and `Read`), then
`NothingToDo`, `Create`, `Update`, or a `Delete`; each call is an action, and
`EndOperation` stores the resource data. An action that is a call draws its
answer from `Answers`: `"ok"`; `"fail"`, without effect; `"lost"`, with the
effect but an error for the provider; `"rejected"` when the Cloud Controller
cannot do what is asked. `Failing` names where things may go wrong,
`MaxMishaps` bounds how often.

**Apps** (`apps.go`, `rewind.go` as apps.go uses it, the upload, copy and
checksums of `bitsmanager/repository.go`). `Branch` is the choice in
`createOrUpdate`; `kind` remembers it. The actions from `RenameOrig` to
`DeleteOrig` are the calls of the lists `rewindActionsBgDeploy` and
`rewindActionsBgRestage`, `ReverseDelete` and `ReverseRename` their
`ReversePrevious`; `Stop`, `UpdateParams`, `UpdateAttrs` belong to the branches
in place, and `BindRoutes` to both. An application of the platform is a record
with its package, what is staged and how its instances do (`up`); `Stage` and
`RunInstances` are the platform's steps. A name is a pair of a base and the
number of `-venerable` suffixes it has. An archive is a value that is also its
own checksum. (The code's checksum is the SHA-1 of the first 5 KiB and of
nothing else, bitsmanager/utils.go:29-41; README.md:748 calls it "a checksum from
a chunk of data". Two archives with the same beginning are one value here: a
change behind it is one that the code does not see.) Every parameter of an
application but those the code treats alone is one value, `par`.

**Rewind** is `Actions.Execute` without saying what the actions do, and
**AppsRewind** maps Apps to it: which list a kind of update runs, and which calls
make up the `Forward` of which action.

**Uploads** (`manager.go`, `repository.go`, the handlers). Four parties: the
caller (`main`: choose a handler, make the archive, `NewRequest`, send, poll the
job, return or panic), the `writer` goroutine of `UploadBits`, the HTTP client
(`pipe`, and the gateway's `SendAgain`), and the Cloud Controller with its job
(`cc`, `package`). The body is counted in pieces - the part `resources`, the
header of the archive, its pieces, the closing boundary - against the length that
the request announces, which is wrong when the size of the archive is not known.
`temps` is what lies in the temporary directory, and `alive` the process: a panic
in the caller runs the deferred calls first, a panic in the goroutine does not.
**Deploying** is what an upload promises; `Deploys` says that Uploads implements
it, liveness included.

**Services** (`services.go`, `SpaceFields` of `terraform_repository.go`). Every
variable but `space` and the instances is a function of the resource, and the
operations interleave call by call. `space` is set by `Create`, `Update`,
`Refresh` and `SetAgain`, and read by every call that looks for a name or
creates. `List` reads the bindings once, as `Delete` does, and `Unbind` deletes
one of those that were listed. A user-provided instance is made without tags,
whatever the configuration says (services.go:68).

**Brokers** (`service_broker.go`). `pub` and `vis` are the Cloud Controller's
public flags and visibilities. `Retrieved` folds them into entries, `Full`
expands an entry, and `Diff` subtracts one expansion from the other. The calls an
operation still has to make are `todo`, sets of calls one after the other,
because the code goes through its lists in a fixed order whose inside is
arbitrary (a `schema.Set`, the Cloud Controller's order of plans). `Perform`
makes one of them. A catalog is a value that is also its checksum; the user
name goes with the url, which the code treats alike: both are compared, neither
is sent (619).

**Terraform** is the skeleton of a resource of one object: `Refreshed`,
`Settled`, `Begin`, `Calling`, `Finish`, `EndOperation`, what others and the
operator do, and `Crash`. An operation is the sequence `todo` of the calls it
still has to make, computed where the code computes it from what it has just
read; `Calling` makes the next one and ends the operation at the first error,
unless the code drops that error. `Each` and `InTurn` say which part of the order
is the code's (first all that are unbound, then all that are bound) and which is
a Go map's or a `schema.Set`'s. Each of the eleven modules on it says what its
object is, what a refresh reads, which calls an operation makes, and what they
do:

| module | source | what it is about |
|---|---|---|
| Organizations | `organizations.go` | the quota in a call of its own; a refresh that is silent about the quota named `default` |
| Spaces | `spaces.go` | quota, ssh access and groups after the creation; which bindings are the resource's and which are others'; a name and an organization that are neither read nor sent again |
| SecurityGroups | `security_groups.go` | rules, and membership in the staging and running sets |
| Domains | `domains.go`, `finder_repository.go` | shared or private, adoption, sharing and unsharing one by one |
| Routes | `routes.go` | adoption from any space, binding of a route service with parameters that are sent with the binding only |
| EnvVarGroups | `env_var_group.go` | two maps that are folded into one set of entries |
| FeatureFlags | `feature_flags.go` | known and custom flags, set one by one in the order of a map |
| Quotas | `quotas.go`, `finder_repository.go` | two kinds of quota in one resource; memory that is read back rounded |
| Buildpacks | `buildpacks.go` | the upload behind the request; a path that is read back as a file name |
| IsolationSegments | `isolation_segments.go` | the deprecated `orgs_id`, never read back; a lookup that may find a segment of another name |
| SegmentSpaces | `isolation_segment_space.go` | the segment of a space |

**Resources** instantiates all of them over the same variables, with `kind` for
the one that a behaviour is about, so that one run and one proof ask the same
questions of each; **MCResources** gives them a small instance.

**Entitlements** (`isolation_segment_entitlement.go`) has one run per segment,
each with its own `pc`, over one organization: `entitled` and the one `default`.

The repositories of the CLI are vendored, under `src/vendor`. Where their control
matters it is translated from there: the gateway's three attempts and its polling
of jobs (`cf/net/gateway.go:286-432`, in Uploads), and what a user-provided
service is (`cf/models/service_instance.go:45`, in Services); any other request
is one call with one answer. Not in the repository, and modelled from how the
code uses them: the Cloud Controller, the platform, and Terraform's core, of
which only these rules are used: a plan compares attributes; an operation's
resource data is kept whether it fails or not; a failed `Create` with an id
taints; tainted and `ForceNew` resources are deleted and created; independent
resources run concurrently. `PROJECT.json` marks those definitions external.

## 3. The runs

`entitlements_apply` checks for deadlock. Every other configuration sets
`CHECK_DEADLOCK FALSE`: edits, mishaps and GUIDs are bounded, an upload ends, and
without fairness a model may stop when they are used up. Where a run must go on
is a liveness property of its own (`OperationReturns`, `Converges`, `Deploys`).

| run | properties | what it shows |
|---|---|---|
| `apps_bluegreen` | `TypeOK`, `ReplacementReady`, `RollbackRestores`, `DeployNeverShutsDown`, `ImplementsRewind` | creation, deployment and restage with two edits (an archive may change at any time) and two mishaps of any kind, kills and panics included: the original goes only when its replacement is complete; a rollback that reports success restored it; every update is an execution of Rewind |
| `apps_branches` | `DeployNeverShutsDown` | all seven branches with renames onto a name in use, a change of path, a scale to 0 and one mishap |
| `apps_recovery` | `UpdateDeploysBits`, `NoChangeIsDeployed`, `NoLeftovers`, `OperationReturns`, `Converges` | all branches but the one of `no_blue_green_deploy`, with one failure of the platform, of a refresh or of any call but the first and the last of a blue-green update and its reverse: operations return, runs come to an empty plan, and an empty plan is true of the package, the routes and of what is left in the space |
| `apps_shutdown` | `NeverShutdown` (violated) | blue-green updates of an application of one name, in which nothing fails: a restage deletes the running original before an instance of the replacement runs |
| `uploads_races` | `TypeOK`, `LeavesNothing`, `NeverKillsLater`, `Deploys` | every kind of path, two things that go wrong anywhere, and every interleaving of caller, writer, client and Cloud Controller: an upload implements Deploying, a request leaves no archive or clone behind, and the goroutine is harmless once the upload has returned |
| `services_race` | `TypeOK`, `OwnName`, `NotShared`, `NeverForgets` | two resources of two spaces at once, with one mishap and one edit or binding by others |
| `services_recovery` | `InItsSpace`, `Converges` | two resources of one space next to namesakes in this space and another, with an edit of tags, of a name or to another kind of service: runs come to an empty plan, but for what `Recovers` excepts |
| `services_space` | `InItsSpace` (violated) | a resource is created in the space of another that runs at the same time |
| `brokers_access` | `TypeOK`, `AccessIsTrue`, `PasswordIsSent`, `KeepsAccess`, `Converges` | every kind of entry, two urls and two passwords, two changes by the operator or others, one mishap or kill at any point |
| `brokers_orgs` | `NotBeyond` (violated) | an update to one plan in one organization grants it in all |
| `resources_recovery` | `TypeOK`, `SuccessIsTrue`, `PlansAreTrue`, `SpaceKeepsGroups`, `DomainKeepsShares`, `Converges` | eleven kinds of resource, from any state of the object, with one mishap or kill and two changes: what an operation reports and what an empty plan says is true, nothing that stays asked for is taken away, runs end in an empty plan |
| `entitlements_apply` | `TypeOK`, `PlansAreTrue`, `Converges` | two segments of one organization side by side, one mishap or kill and two changes: an empty plan is true of the default too, and runs end in one although the resources undo each other |

Each property of a passing run has a mutant in `PROJECT.json`, a plausible bug
of the code under which TLC finds that property violated.

**Bounds.** Three GUIDs are an original, a replacement and one more, which is
what a failed update can leave behind plus what the next one makes; `MaxVen = 1`
lets a run begin with one `-venerable` name and make a second. One instance
(0 and 1) is enough because the code only asks whether there are any and whether
one runs. Two archives and two values of `par` are what a comparison can tell
apart; two routes are what `BindRoutes` needs to bind one and unbind another.
Two edits let a second change arrive while the first is half done, and two
mishaps let a rollback fail as well (`apps_bluegreen`, the run about rollbacks);
the other runs have one, because a liveness check over two takes longer than it
is worth. Two services, of two plans and one, and two organizations tell every
case of `Retrieved` apart (a plan in all organizations, an organization with all
plans, neither). GUIDs are symmetric where
no liveness is checked. In `uploads_races` an archive has two pieces, so that it
can break off before, between and (as a whole) behind them; a request is sent
three times, which is what the gateway does, and two mishaps let the archive and
the connection break in the same upload. The instances of `resources_recovery`
are next to the constants in `MCResources`: two names, values or owners of each
thing, a third where an object of others matters (a group that applies
everywhere and is bound to another space, a space or an organization that no
configuration names), and amounts
of memory below, at and just above a gigabyte. One mishap and two edits of its
kind are a failure, what others do around it, and the change that follows. Two
segments are what is needed to take each other's default away.

**Fairness.** `Converges` and `OperationReturns` assume that Terraform is run
again and again (`WF` of its steps), that a request is answered or fails (`WF` of
the provider's steps; the CLI's gateways have time limits), and, for
applications, that the platform stages what it is asked to stage and that its
instances come up or crash. For `Uploads`: calls return, the goroutine is
scheduled, and jobs end; polling a job has a time limit in the code. For
`Entitlements` each operation goes on by itself (`WF` for each segment). Nothing
is assumed of the operator or of mishaps. `PollInstances` has no time limit in
the code: that it ends rests on the platform's fairness alone. The premise
"nobody edits and nothing fails any more" is not stated but comes from the
bounds. What else `Converges` does not speak of is a named premise of each
module: `Recovers` of Services and of the resources, and `UrlIsThere`,
`ReadAsWritten` and `NothingStuck` of Brokers; see below.

**What limits the passing properties.** `NoChangeIsDeployed` and `NoLeftovers`
are checked and proved for what a later run makes good (`Repairable`): every
failure but six. Each of the six alone, once, violates one of them. When the
renaming of the original fails, or the deletion of the replacement in the
reverse, when Terraform stops behind its refresh, or when it is killed, the
difference that the refresh saw and overwrote is forgotten (apps.go:548); when
the deletion of the original fails, or its renaming back, an application is left
that the state does not name. The two properties and `UpdateDeploysBits` also
need blue-green deployments, because an in-place deployment that fails before its
upload leaves the state with the checksum of what is not deployed, and an archive
that does not change during a run (apps.go:511). `UpdateDeploysBits` needs one
`path`: a new `path` alone copies the old package (apps.go:302). `NoLeftovers`
needs one name: the space may have an application of another configured name.
`DeployNeverShutsDown` leaves out restages
(`apps_shutdown`) and the reverse of a failed creation, where the resource data
still names the original and `ReverseDelete` deletes it (apps.go:264 - an
application that is running is lost there; the next run creates it again).
`InItsSpace` holds for one space and fails for two. `LeavesNothing` speaks of
uploads that got as far as their request.

`Converges` of Services speaks of creation, adoption, replacement and updates of
user-provided services. An update of a managed instance is refused, because it
is made as one of a user-provided service (services.go:191), and a new name is
never sent (171): after either edit the plan is never empty again, and `Recovers`
excepts them. Both edits occur in `services_recovery`.

`AccessIsTrue` speaks of services that are named with a plan or an organization.
`PasswordIsSent` speaks of updates that succeed: an update whose request fails
has already stored the new password as the one that was sent
(service_broker.go:611), the next plan has no difference, and the password is
never sent. `Converges` of Brokers excepts what no run settles, by what is so in
the end:

* `UrlIsThere`: a new url or user name is compared and never sent (619);
* `ReadAsWritten`: entries with a plan come back from `Retrieved` in another form
  than they were written in, and so does a service named both alone and with an
  organization. A service with two organizations is excepted as well: if a kill
  leaves one plan granted in each, or one in one and all in the other, the update
  takes every one of these for a plan in all organizations (79), and finds
  nothing to grant;
* `NothingStuck`: a plan stays public when the last entry of its service is
  removed (408), and a service whose plans are all visible in every organization
  is retrieved as the service alone (163-196), which stands for no visibility
  that an update could revoke (82).

`brokers_access` starts with both urls serving the same catalog (`StartInit`; an
edit can change what a url serves, within the bound of two). `brokers_access` has configurations of each of these kinds. The last two and the
kill between two organizations were found by TLC as counterexamples of
`Converges` without them.

The three questions of `resources_recovery` are asked of each resource with what
its code lets hold, and each exception names its line:

| resource | an empty plan is true (`PlansAreTrue`) | success is true (`SuccessIsTrue`) | runs converge |
|---|---|---|---|
| organization | but for the default quota (80) | yes | unless no quota is asked for and another than the default is set |
| space | but for the name and the organization once anybody has edited either: they are not read (125-151), and an edit is neither sent (152-184) nor a replacement (227-244); a group that applies everywhere needs no binding | a Create; an Update but for the name and the organization, which it takes into the state and does not send (152-184), for the ssh access that it may lose (169), and for a space that is gone (159) | yes, with the exceptions of the first column |
| security group | yes | but for rules that Update may lose (190); Create takes a found group into the sets and not out (84) | yes |
| domain | yes | of a domain that is owned as asked | yes |
| route | but for the parameters of its route service once anybody has made an edit: they are not read, and a change of them alone is not sent (149-152, 237) | Create may have adopted a route with another service, or the service with other parameters (133); Update sends parameters only to a service that it binds (149-152) | unless another service is bound (165) |
| env_var_group | but for the staging value of a variable that both groups have (33) | Create may have found more variables (59) | yes |
| feature_flags | of flags that the Cloud Controller has | the same | yes |
| quota | to within the tenth of a gigabyte that is shown (41) | Create may have found another amount | for amounts written as they are shown, while no quota of spaces is gone |
| buildpack | of those not left to the system; an archive is known by its file name, and another path of the same file name sends nothing | the same | unless the state got a file name for a path (138, 103) |
| isolation_segment | that the segment has the name; its entitlements only if nobody else acts and nothing fails (109, 132) | yes, of whichever segment Create took (157-170) | unless Create does not find the segment of the name, which it then cannot make (157-170) |
| isolation_segment_space | yes | yes | yes |

## 4. Disagreements

Shown by a run (`findings` in `PROJECT.json`): `apps_shutdown`, `services_space`,
`brokers_orgs`.

In the models, without a run of their own:

* Applications
  * A restage waits for the staging only; `startApp` gets no number of instances
    (apps.go:311, 402).
  * The branches in place ignore `started` and start a stopped application
    (apps.go:147, 163; README.md:803).
  * A change of `path` alone is a restage, which copies the old package
    (apps.go:302).
  * A change of the archive is forgotten when the update that saw it fails before
    its upload: the refresh has stored the new checksum (apps.go:548).
  * `SendBits` reads the archive twice, for the upload and for its checksum
    (apps.go:511-529): what changes in between is taken for deployed.
* Bits manager
  * A failed request or job, and an archive that breaks off, is a panic and not an
    error (repository.go:203-276): the reverse of the update is not run.
  * A download without a length can never be uploaded: its size is -1, and the
    announced length is wrong (http_handler.go:47, repository.go:270).
  * A handler that fails after it made its temporary file or its clone leaves it
    (git_handler.go:50), and the archive made for the checksum of a local path is
    never removed.
* Services
  * A change of `space_id` or of the name is accepted and not carried out
    (services.go:171; README.md:431). The tags of a user-provided service are not
    sent at its creation (services.go:68). The plan of an adopted instance is never applied
    (services.go:85; README.md:437). `update_params` never reach the broker
    (services.go:191; README.md:434).
* Service brokers
  * A change of a broker's url or user name is never sent: the request has those
    that the broker has (service_broker.go:619). A change of the catalog that a
    refresh found is not sent either, because the refresh stored the new checksum
    (569, 618).
  * A service whose plans were made public only in part is reported as public
    (service_broker.go:163). A service that leaves `service_access` stays public.
    When all plans of a service are visible in all organizations `Retrieved` is
    the service alone and `Full` of that is nothing, so that a later restriction
    revokes nothing (640); entries that name the plans or the organizations of
    such a service one by one never come to an empty plan.
  * A new password whose request failed is never sent (611).
  * An update from one plan in one organization to that plan in all organizations
    grants nothing (640; README.md:725), and so a plan that is to be visible
    everywhere and missed an organization is not repaired, nor is one that missed
    one of two organizations, when another plan has only the other. README.md:728
    ("BUG FOUND") takes the fault of `brokers_orgs` for one of Cloud Foundry.
* Routes and domains
  * A route of another space is adopted, and deleted with the resource
    (routes.go:133). A route service cannot be replaced by another (165).
  * `GetDomainFromCf` drops the error of its first request: a private domain is
    taken for gone and leaves the state (finder_repository.go:42); the Create
    that follows adopts it.
* Isolation segments
  * An entitlement that is not the default clears the default segment, whichever
    it is (isolation_segment_entitlement.go:116; README.md:616).
  * The deletion of an `isolation_segment_space` clears the segment that the space
    has, another's too (isolation_segment_space.go:38).
  * A failed update of `orgs_id` is never seen again (isolation_segments.go:109,
    132).
  * A segment is looked up with the v2 filter `q=name:` of an API whose filter is
    `names`, and the first of the answer is taken (isolation_segments.go:157-170).
    When that is a segment of another name the state has it, and the next run,
    which sees the name, replaces it: the segment of others is deleted.
* Other resources: the exceptions of the table above, and
  * A quota of spaces that is gone ends the provider with a panic in the refresh
    (quotas.go:141, 195; finder_repository.go:93).
  * A new name or organization of a space, and new `service_params` of a route
    whose service stays, are accepted, reported as done and never sent; the plan
    is empty from then on (spaces.go:152-184, routes.go:149-152).
  * A space or a security group reports success after a request that failed
    (spaces.go:169, security_groups.go:190); the next refresh sees it. An update
    of a space that does not change its groups unbinds those that others bound
    (spaces.go:171).

## 5. The proofs

The conventions are those of one argument: `IInv` is the inductive invariant,
`Inductive` has one lemma or step per action, `Invariance` is `Spec => []IInv`, and
the theorems follow from it. Sets are any sets and bounds any numbers; what is
assumed of them is the module's own assumption.

`AppsProofs` proves, for any sets of GUIDs, names, parameters, routes, services
and archives and any bounds, from `AppsAssumption` alone (the two empty values
are not values, the bounds are numbers, the configurations are configurations):

* `TypeCorrect`, `ReplacementIsReady`, `RollbackIsComplete`: `TypeOK`,
  `ReplacementReady` and `RollbackRestores` are invariants of `Spec`;
* `DeploymentKeepsService`: `Spec => DeployNeverShutsDown`;

and, from premises on what fails and is edited,

* `SuccessDeploys`, `EmptyPlanIsDeployed`, `EmptyPlanIsAlone`:
  `UpdateDeploysBits`, `NoChangeIsDeployed` and `NoLeftovers` are invariants of
  `Spec`.

None of the invariants is inductive. `IInv` adds what an operation knows at each
call: `TargetLive` (which application the operation is about: the original until
the replacement is created, then another one; and which calls belong to which
kind of update), `ReplacementGrows` (name, parameters, routes, services, package
and state of the replacement after each call; it becomes `ReplacementReady` at
the deletion), `ReplacementName` (what the reverse may leave has the configured
name, so that giving the original its name back either fails or leaves no second
application of that name) and `UpIsStarted` (instances come up only of what is
started and staged, so that a failed staging or a stop is what takes an
application out of service). `Inductive` has one lemma per action; `Invariance`
follows. `DeploymentKeepsService` goes through the actions once more under
`IInv`, because most calls change another application than the original.

The last three speak of what several runs of Terraform leave to each other.
`Recoverable` says: no `no_blue_green_deploy`, no archive that changes during a
run, and nothing of `Sure` (the six failures of section 3) among what may fail.
Everything else may fail any number of times, and configurations and archives may
change between runs. `SuccessDeploys` has the further premise `OnePath`,
`EmptyPlanIsAlone` `OneName`; section 3 says what is violated without each.
`apps_recovery` has all of these premises; that an empty plan is true of the
package also when names and paths are edited is the theorem's alone. `RInv` is
invariant next to `IInv`, and has three conjuncts:

* `NamesAreBack`: every application of the space has a configured name of its
  own, but for the original of a blue-green update, whose name nothing else has
  until it is given back (after a lost answer to the creation the original is
  deleted instead). That is why the calls that rename are never rejected, and
  why, with `OneName`, there is one application between two operations.
* `Branches`: what the kind of an update says of the id it began with, and which
  calls belong to it.
* `ChecksumIsTrue`: between two runs an untainted resource that is there has the
  package that `path_sha1` in Terraform's state is the checksum of; behind a
  refresh the same unless `bits_has_changed` is set; and an operation that leaves
  the package alone began with a true checksum.

The argument goes round the loop of runs. An operation ends with its archive
deployed, or with a package that it did not touch, or with a resource that is
tainted, or with one that is gone: the reverse deleted the application that the
resource data names, so the next refresh finds nothing and the next `Create`
adopts what has the name, as changed. So a refresh compares a true checksum, and
a plan that finds no difference is right. `RecoveryStep` has one lemma per action;
`TargetCallKeeps` is what the calls on the application that the operation is
about have in common, `NamesLeft` what the calls that end a blue-green update
have.

`AppsRewindProofs` proves `UpdatesRewind`: `Spec => ImplementsRewind`, the
refinement of section 2 for any instance. `Mapped` says of Rewind's state what the
next call of Apps determines; there is one lemma for each way in which a step of
Apps moves Rewind - `PartStutters`, `PartIsDone`, `PartFails`, `ReverseIsDone`,
`UpdateIsLeft`, `UpdateIsExecuted` - and the cases of `Next` are assigned to
them. `TargetLive` of `IInv` says which list a call belongs to. Rewind has no
fairness, so this is all of it.

`UploadsProofs`, from `UploadsAssumption`: `TypeCorrect`, `NothingIsLeft`,
`GoroutineIsHarmless`, and `DeploysSafely`, the safety half of the refinement to
Deploying (the liveness half is TLC's). `IInv` is `CallerAndWriter` (where caller,
writer and pipe can be together), `EndOfBody` (the end is written behind a whole
archive, or by a writer that is about to panic) and `AcceptedIsWhole`: the Cloud
Controller takes a body only at the announced length and with its end, and a body
that broke off has its end and is too short. The last is why the end that the
code writes after a broken archive does no harm.

`ServicesProofs`, for any number of resources: `TypeCorrect`, `InstancesAreKept`
(`NeverForgets`), and `NamesAreOwn`, `NothingIsShared`. `OperationKnows` is what
an operation has learned of its instance call by call, `SpaceIsSet` that some
resource's space is set when one is read - not whose, which is the race -, and
`NamesKept`. The last two theorems have premises, `OneName` and `OtherNames`: no
resource is ever renamed, and no two have the same name. The configurations of
`services_race` meet them. Without them there is nothing to prove: a new name is
not sent (services.go:171), and two resources of one name adopt one instance.

`InstancesAreAtHome` states `InItsSpace` under the premise `OneSpace(home)`: each
resource's configurations name one and the same space, `home`. Then whichever
operation sets the shared space sets it to `home`, and `AtHome` - the space once
it is set, and the space of every resource - needs nothing of the order of the
calls. `services_recovery` meets the premise; `services_space`, which does not,
violates the property.

`BrokersProofs`, for any services, plans, organizations and configurations:
`TypeCorrect`, `PasswordReaches`, `AccessIsKept` and `EmptyPlanIsTrue`.
`KnowsPassword` and `PasswordSent` follow the password through failures and kills.
`KeepsAccess` needs that the calls still to make are known to be harmless before
they are made: `CallsAreAsked` (what is to be revoked is not asked for),
`PublicIsAsked` and `PublicFirst` (flags before visibilities). `AccessIsTrue`
speaks of what Terraform remembers, so it is carried by what a refresh read:
`AccessIsRead` says that behind a refresh, while the broker is there, the entries
are those `Retrieved` of some services from the Cloud Controller as it still is
(of some, because an error ends the reading without being reported), and
`RetrievedIsTrue` that the entries of a service say exactly which of its plans
which organization sees. `ReadIsTrue` follows: a service that an empty plan names
has been read.

`EntitlementsProofs`, for any number of segments: `TypeCorrect`, and
`EmptyPlanIsTrue` by `RefreshIsTrue`: a refresh reads all resources in one state
of the organization, so that when each of them is as planned the default is the
configured one, and when none is configured it is none of theirs.

`ResourcesProofs`, for any constants that `ResourcesAssumption` and
`TerraformAssumption` admit, proves of `Spec` of Resources: `TypesHold` (`TypeOK`),
`SuccessHolds` (`SuccessIsTrue`), `PlansHold` (`PlansAreTrue`), `GroupsAreKept`
(`SpaceKeepsGroups`) and `SharesAreKept` (`DomainKeepsShares`) - every safety
property of `resources_recovery`, of all eleven resources. Each resource has its
invariant, of three parts with the resource's prefix:

* `Typed` (`SpTyped` of a space, and so on), the types, with the kinds of call
  that can be in `todo`;
* `Truthful`, the property itself, which speaks of an operation that has returned;
* `Promise`, which makes it inductive, by `Leads`: the object as it is now, with
  the calls still in `todo` made one after the other, becomes what the resource
  data says. It says so without executing the calls: everything that is asked for
  either is so already or is the work of a call in `todo`, and no call that
  follows takes it away.

`CreateStep` and `UpdateStep` show that the list of calls the code computes leads
there from any object; `PerformStep` that a call that is answered takes its own
part away from `Leads` and keeps the rest, and that one that fails ends the
operation as failed, or belongs to what the property excepts; `RefreshStep` that
an empty plan is true, from what the refresh has just read. `Does`, `Later` and
`Behind` - what a list does, does behind its first call, and does behind a call of
one kind - and the lemmas about them (`Cat`, `BehindCat`, `EachOf`) are in
`TerraformProofs`, with one lemma for each step of Terraform's core. They are what
takes the place of an induction over the list: the lists are sequences of any
length (one call for each member of a set, in any order) of a few segments.
`SpSteady`, `RoSteady` and `IsSteady` are the only further invariants: as long as
nobody edits, the space of the state has the name and the organization, and the
route service the parameters, that the resource gave it, though no refresh reads
them; and an isolation segment that nobody disturbs is what Terraform remembers.
The empty plans of these three rest on them, and what the two theorems say of
the three is limited as in the table of section 3.

While these invariants were sought, the model of spaces was corrected in two
places: `filterSecGroup` takes a group that applies everywhere only when it is
bound to some space (`Seen`; spaces.go:102), and an update of a space that is
gone reports success (159). The former is why an empty plan is true of such a
group without a binding.

With TLC only: everything that is liveness (`Converges`, `OperationReturns`, the
fair half of `Deploys`), which is out of the prover's reach, and the three
violations, which are counterexamples. The type invariants and safety properties
of the passing runs are all theorems.

## 6. Plan

1. Done: applications with Rewind, uploads, services, brokers, every resource of
   one object, entitlements; both refinements; the proofs of section 5.
2. The composition of a space and a security group that are bound from both
   sides. Here it is the `Others` of Spaces.

Not modelled, and why:

* The data sources and `stacks.go`: one read each, no state. The parts of
  resource functions that serve data sources only (the search for an application
  without a space) are left out with them.
* `finder_repository.go` but for `GetDomainFromCf` and `GetQuotaFromCf`: one read
  per function, which is part of a refresh in the modules.
* The accessors of `terraform_repository.go` other than those of the space,
  `client.go` and the gateways: set once at the start, read-only after it.
* `encryption/`: a pure conversion by a library. The fakes of
  `fake_cf_client` and `bitsmanagerfakes`: test doubles.
* `provider.go` and the schemas: tables. The formats of archives, and the copy of
  a tar entry whose error is ignored (http_handler.go:153): a full disk there
  would make an archive of part of the files. `UploadBitsTmp`: called by nothing.
* Router groups of domains and the limits of a quota other than memory: they are
  read and written like what is modelled.
* Attributes of a resource beside those of its module: names that are `ForceNew`;
  domain, hostname, path and port of a route, `ForceNew` too, which with the name
  of a domain make up what is looked up; its `protocol`, which only the computed
  `uri` shows; the name of a quota and the organization of one for spaces, which
  are sent and read; and `params` of a service, which are sent at its creation
  (and with an update of a user-provided one) and never read, so that no plan
  says whether the instance has them.
