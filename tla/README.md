# PolyGL verification

TLA+ specifications, TLC configurations and TLAPS proofs about PolyGL: the
compiler that turns Ruby, PHP and Perl sketches into JavaScript and GLSL, the
development server that rebuilds them while they are edited, and the browser
runtime that runs them. Paths below are relative to the repository.

Contents: [the system](#the-system), [the modules](#the-modules); the tools
around the compiler: [development server](#devserver),
[live reload](#livereload), [watch builds](#watchbuild),
[publication](#publish); the compiler: [source adapters](#source-adapters),
[type inference](#typeinference), [host and GPU](#hostgpusplit),
[code generation](#codegeneration); the runtime: [sessions](#session),
[scene resources](#sceneresources), [shader uniforms](#shaderuniforms);
[what is proved](#what-is-proved), [also noticed](#also-noticed),
[what is not modelled](#what-is-not-modelled), [running the checks](#running).

## The system

| Component | Source | State it keeps | Operations | Hard part |
|---|---|---|---|---|
| development server | `crates/polygl-cli/src/serve.rs` | active generation and diagnostic (two locks), watched paths and their fingerprint, connection permits, WebSocket clients, a channel to the broadcast worker | `serve` (watch loop), `Generation::build`, `accept_pending`, `serve_static`, `upgrade_websocket`, `reap_client`, `broadcast_now`; `watch_build` for `build --watch` | saves at any moment of a build, threads that serve a generation while it is replaced, retries, slow and vanishing clients |
| artifact publication | `crates/polygl-cli/src/artifact.rs` | the output directory, a staging and a backup directory | `publish`, `prepare_assets`, `prepare_public_directory`, `validate_paths` | two renames, failures and crashes between them, two builds at once |
| command line | `crates/polygl-cli/src/lib.rs` | none between commands | options, configuration, `build_with_package`, manifest | which inputs a build reports as watched |
| runtime sessions | `runtime/src/session.ts`, `runtime/src/index.ts` | lifecycle state, frame handles, context-lost flag, pending callbacks in the browser; the active session of the facade | `run`, `stop`, `fail`, frames, coalesced redraws, visibility, resize, context events; `start`, `createRuntimeSession` | a session may be stopped, hidden or lose its context at every await and between any two callbacks |
| retained scene | `runtime/src/scene.ts` | meshes, textures, nodes with reference counts and budgets, pending loads | create, dispose, `shaderSet`, `textureLoad`, `awaitSetupAssets`, `render` | late decodes, references against disposal, the startup barrier |
| shader registry | `runtime/src/shader.ts` | per program: global values and their dirty set, values of the last draw | `setUniform`, `updateAutomaticUniforms`, `bindForDraw`, `invalidateUniformState` | caches of what a program holds, shared by the nodes that use it |
| WebGL state cache | `runtime/src/webgl-state.ts` | what is believed to be bound | `bind*`, `useProgram`, `activateTexture`, `invalidate` | coherence with the context, deletion, outside calls |
| immediate-mode renderer | `runtime/src/renderer.ts` | a batch of vertices, transform stack | shapes, `flush`, `background`, `resize` | order of flushes |
| source adapters | `crates/polygl-adapter-*` | declared names, loops and temporaries of a function | `lower_statement`, `lower_expression`, implicit returns | scopes, truth, order and results differ between four languages |
| type inference | `crates/polygl-types/src` | substitutions, fixed and numeric variables, types by address, instances | `fresh`, `join`, `assign`, `equal`, `reassign`, `require_numeric`; inference, annotation, `finish_instance` | termination, cyclic types, widening, types that change after they were used |
| low-level IR | `crates/polygl-lir/src` | dependency graph, allowed domains, uses | `lower`, `resolve_domains`, `split`, `optimize` | fixpoints over mutual recursion, two programs out of one, folding |
| code generators | `crates/polygl-backend-*` | names of the bindings in scope | `emit_javascript`, `emit_glsl` | a statement means the same in three languages: order, integers, scopes |
| compiler pipeline | `crates/polygl-core/src` | the list of passes and their trace | `analyze`, `compile`, adapter registry, budgets | which checks run before which pass |

How they interact. `polygl serve` calls the compiler on a thread of its own
main loop and publishes what it makes into a private directory, a *generation*.
Connection threads answer from the active generation; a broadcast worker tells
the pages that are open to reload or to show a diagnostic. A page runs the
generated module in a runtime session, which owns the renderer, the scene and
the shader registry; these three share one cache of WebGL state. The browser
calls the session back: animation frames, events, decoded images, lost and
restored contexts.

What makes each correct:

* server: what is served is the last good build and no older than the watcher
  believes; a generation's directory is there as long as anybody uses it and no
  longer; every connection gives its permit back; saves are not missed; open
  pages learn of a new build.
* publication: the output directory is absent or complete, and a failure leaves
  what was there.
* sessions: at most one session of the facade is alive, nothing is rendered
  before setup or after the end, the animation loop neither dies nor doubles,
  the reported state is right whatever the order of events.
* scene: no resource goes while a node refers to it, none leaks, budgets hold,
  no late upload, no frame before the assets of setup.
* shaders and state cache: what a draw uses is what the program was told.
* compiler: what an adapter accepts means the same in Common Core; accepted
  programs are typed throughout; domains are what their definition says; the host
  and the GPU get what they need and can run; what is generated does what the
  program says, on either target.
* watch builds: the output ends up made from the files as they are; a name with a
  content hash has one content for ever.

## The modules

| Module | Models | Run | Proofs |
|---|---|---|---|
| `DevServer`, `LastGoodBuild` | `serve`: watch loop, generations, connections; what it promises | `dev_server` | `DevServerProofs` |
| `LiveReload` | clients, broadcast worker, pages | `live_reload` | `LiveReloadProofs` |
| `WatchBuild` | `build --watch`: settings, inputs, files, fingerprints | `watch_build` | `WatchBuildProofs` |
| `Publish` | `publish`: two renames, failures, crashes | `publish` | `PublishProofs` |
| `CoreOperators`, `CommonCore` | the meaning of operators and of programs in Common Core, JavaScript and GLSL | | |
| `SourceLanguages` | the meaning of programs in Ruby, PHP and Perl | | |
| `Lowering`, `RubyAdapter`, `PhpAdapter`, `PerlAdapter`, `SourceAdapters` | the adapters | `source_adapters` | |
| `TypeInference` | solver, inference, annotation, instances | `type_inference`; `type_inference_recursive` | |
| `HostGpuSplit` | domains, dependencies, split and validation | `host_gpu_split` | `CompilerProofs` |
| `OperatorTranslation` | what folding and the emitters make of operators | `code_generation` | `CompilerProofs` |
| `CodeGeneration` | lowering, optimization, both emitters | `code_generation` | |
| `Session`, `SessionLifecycle` | sessions and the facade; what they promise | `session` | `SessionProofs` |
| `SceneResources` | meshes, nodes, textures, decodes, budgets | `scene_resources` | `SceneResourcesProofs` |
| `ShaderUniforms` | uniform and state caches | `shader_uniforms` | `ShaderUniformsProofs` |

The run `type_inference_recursive` *fails*: it states what a document of the repository says
and shows that the code does something else. Where another property makes an exception for
something that the code does against its documents, the section of its module says which and
why, and the property says nothing of that case.

`MC<module>` instantiates a module for TLC. `CodeGeneration`, `Lowering` and
`SourceLanguages` are built on `CommonCore`, so that adapters and generators are
held to one meaning; `SourceAdapters` is composed of the three adapters. Where two
modules touch, one has the detail and the other a choice of outcomes: `DevServer`
has builds and `LiveReload` their outcomes; `WatchBuild` writes a directory in one
step that `Publish` takes apart; `SceneResources` has the life of a texture and
`ShaderUniforms` where it is bound; `Session` awaits assets that `SceneResources`
loads.

What is left to do, in this order: a module of the
immediate-mode renderer's batch; strings, maps and structs in `CommonCore`; classes in the adapters.

## DevServer

`DevServer.tla` is `serve` in `serve.rs`. Three kinds of actors interleave: an
editor that saves files at any moment, the main thread and the connection
threads. The main thread's program counter is `loop`:

| `loop` | code |
|---|---|
| `source`, `assets` | `Generation::build`: `load_source`, then `prepare_assets`, each file read once and in turn |
| `install` | first build done, `ServerState` not yet created |
| `baseline` | the watched paths of the new build are fingerprinted |
| `recheck` | the source is compared with the fingerprint from before the first build |
| `idle` | the loop: `accept_pending`, then a watch tick |
| `activate`, `clear` | the generation, then the diagnostic, each under its own lock |
| `exited` | startup failed without `--watch` |

A generation is an identity; `meta` says what it was built from, `strong` is
the count of its `Arc`, `dirs` are the directories on disk. Sequence numbers
only tell directories apart, so an identity whose directory is gone may be used
again. A connection thread goes `accepted`, `cloned` (it has the `Arc`),
`respond` (it has read the diagnostic as well), and gives back its permit and
its `Arc` on every way out.

Abstractions. Contents are model values; distinct trees are assumed to have
distinct fingerprints (`DefaultHasher` has 64 bits). A modification time is
what makes a save visible in `path_fingerprint`, so `touched` stands for it;
a path that does not exist has the fingerprint `None`. A request for the page
and one for any other file do the same with the generation; what they answer
is not modelled. The output a generation consists of is written in one step: no
other thread sees it before `Arc::new`.

`LastGoodBuild.tla` is the promise of `docs/cli.md:122-126`: successful rebuilds
switch what is served, failed ones change nothing but the diagnostic, and a
diagnostic is withdrawn only after a later build has replaced it. `DevServer`
implements it with `served` the inputs of the active generation, `diagnostic`
the error, and `settling` the moment between the two locks.

### Runs

| run | question | result |
|---|---|---|
| `dev_server` | `TypeOK`, `ResourcesExact`, `NoStaleGeneration`, `ServesLastGoodBuild`, `EventuallyServesTheFiles` | hold |

* `ResourcesExact` is `GenerationsLive` and `PermitsExact`.
* `GenerationsLive`: the count of an `Arc` is exactly the number of its holders,
  and the directories on disk are exactly those with a holder or under
  construction: no thread answers from a removed directory, none leaks.
* `PermitsExact`: the counter is the number of threads and never above the limit.
* `NoStaleGeneration`: when the watcher is content, the active generation was
  built from the files as they are, except paths saved after the build in
  progress had read them (`raced`).
* `EventuallyServesTheFiles`: once saves stop, and unless one raced, the server
  ends up serving the files or showing a diagnostic.

The exception is real: after a successful build the fingerprint is taken from the
files as they are *then* (`serve.rs:225`), so a save made after the build has read
the file becomes the new baseline. The first build checks the source for that
(`serve.rs:200`), later ones and assets do not. So what `NoStaleGeneration` adds is about
all other saves, those between the first build and that check among them. The excepted saves
are swallowed, although the comment at `serve.rs:217-219` says that a concurrent save "cannot
be swallowed as the new baseline".

What one answer is made of is not in these properties either: `serve_static` reads the
generation and the diagnostic under two locks ([also noticed](#also-noticed)), while
`LastGoodBuild` is about what the server has.

### Bounds

One asset, a program that uses it, one that does not and one that does not
compile: enough for every way a build can fail and for the watched paths to
grow and shrink. Two saves: one to start a rebuild, one to race with it. Two
connections and one permit: the limit is reached. Three identities of
generations: the active one, one under construction and one held by a thread
only. One failed write. The run checks liveness too, so it uses no symmetry.

### Fairness

The main thread and the threads are scheduled by the operating system, reads
are bounded by `HTTP_READ_TIMEOUT`, and the retry interval is a clock: weak
fairness of `Main`, of each `Thread(c)` and of `RetryInterval`. Saves, faults
and new connections need not happen.

### Proofs

`DevServerProofs.tla` proves all the safety properties for any files, assets,
generations, connections and bounds, from `NamesAssumption` (the special values
are distinct from the data) and `BoundsAssumption` (finitely many connections,
natural bounds).

`TypeInt /\ Phases` is inductive: the types with counters that might be
negative, and which phases have a generation under construction. On it rest

* `GenInv`: the exact count of holders. It gives both `GenerationsLive` and that
  `strong` never falls below zero, which `TypeOK` needs;
* `PermitsExact`, inductive by itself, with the cardinality of `Busy`;
* `Fresh`: what `NoStaleGeneration` becomes in the other phases: what the build
  in progress has read is still what is on disk unless raced, and the
  fingerprint kept is that of what the active generation was built from;
* `Complete`: a generation's inputs are complete from `WriteGeneration` on, which
  the refinement needs.

The refinement `ServerImplementsLastGoodBuild` maps `Activate` to `Succeed`,
`ClearError` after a diagnostic to `Settle`, and a failing build to `Fail`; every
other step stutters.

`SettlesOnTheFiles` is the half of `EventuallyServesTheFiles` that is safety: a server
that waits for changes, has no diagnostic to retry, sees no difference and has missed no
save serves the files as they are. Besides `NoStaleGeneration` it needs that what is
watched after a build is exactly what the active generation was built from (`Watches`):
a file that is used but not watched would show here. That the server does come to rest
is left to TLC.

## LiveReload

`LiveReload.tla` is the other half of `serve.rs`: what the main loop tells the
broadcast worker, what the worker writes to which client, and what the script in
every page (`DEV_CLIENT`) makes of it. Builds are reduced to their outcomes, which
`DevServer` has in detail; a write to standard error that fails ends the server
there and is left out here.

| state | code |
|---|---|
| `main`, `active`, `error` | the main loop between its locks; the two shared fields |
| `channel`, `taken`, `worker` | the `mpsc` channel; the message and the snapshot `broadcast_now` is busy with, and whose writes have failed |
| `clients` | the list of registered clients |
| `conn` | a connection: what is in flight to the browser, and whether it is open, gone (the browser has left, `reap_client` has not noticed) or cut (removed from the list after a failed write, while its reaper waits on) |
| `page` | a tab: waiting for its HTML, answered in part, loaded, connected; what it shows |

Messages carry a number that is not sent, so that "the next one" can be said;
`asOf`, `late` and `heard` are for the properties. `ClientsSound` is the type
invariant and `ClientsExact`, `MessagesArrive` the next two. What a tab and a connection do
by themselves (`OpenPage`, `ClosePage`, `Break`) is external.

| property | what it says |
|---|---|
| `ClientsExact` | never more clients than the limit; every open connection is registered and belongs to one page |
| `NothingSkipped` | a registered client gets every message taken after it registered, once and in order |
| `TimelyPagesCatchUp` | a page that connected before the worker took what is news to it shows what the server has, or something is on its way to it |
| `EventuallyConnected` | clients that went away do not keep pages out: every page ends up connected, within the limit |

Pages that connect late: a page asks for its HTML while a build is running, the
build fails, the worker takes the diagnostic, then the page's script connects. `upgrade_websocket`
does not tell a new client the current diagnostic, and an unchanged one is not
broadcast again. The same happens to reloads, which is why `TimelyPagesCatchUp` has
its premise, which goes against `docs/cli.md:125-126` ("A page opened during a failing build
receives the same current diagnostic"): of such a page the property says nothing. A client whose write times out is a similar case: it is taken off the
list, but its connection stays open, so the page neither hears more nor connects again.

Bounds of `live_reload`: two pages, three connections and two clients, so that the
limit is reached and a connection can be gone while another takes its place; two
builds, two opened pages, one fault. The run checks liveness too, so it uses no
symmetry. Fairness: `Server` and `Worker` are
threads of the server, `Reap(c)` a thread that is woken when its connection ends,
`Browser(p)` a page that is loading or has messages. Builds, faults and tabs need
not happen.

Proofs (`LiveReloadProofs.tla`): `ClientsSound` and `MessagesArrive` for any pages,
connections, diagnostics and bounds. Neither is inductive as it stands. `NothingSkipped`
needs that a connection is used again only when the worker is done with it;
`TimelyPagesCatchUp` needs to know where news can be. For diagnostics, the message
sent last is the one there is (`LastTold`), and a page that is as of it shows it
(`OverlayRight`); a page that is not late is never behind what its connection has
heard (`NotAhead`), so with nothing on its way it is as of the last. For reloads
(`GenRight`), a page that is out of date has a reload before it, in the main loop, in
the channel, with the worker or in its inbox; or the worker has taken one already, and
the page has lost its connection or has none yet: then it is late when it connects. That
a client whose write failed has not received the message being written (`InboxOK`) is
what carries this over a cut connection.

`RestIsInOrder` is the half of `EventuallyConnected` that is safety: where nothing is left
to do for the main loop, the worker, the reapers and the pages (`AtRest`), pages that
registered in time are current, and a page that waits for a connection does so because
open pages hold as many clients as there may be. That everything comes to rest is left to
TLC.

## WatchBuild

`WatchBuild.tla` is `watch_build` of `serve.rs` with what it calls in `lib.rs`: how the
command line and the configuration make a plan, how the inputs of the plan become the
files of the output directory, and how the watcher keeps that directory up to date while
an editor saves what it reads.

| state | code |
|---|---|
| `files`, `saves` | what is at each path; how often the editor has changed it |
| `request`, `plan` | the command line; `BuildPlan`, which is resolved again before every rebuild |
| `pc` | `start`, the steps of `build_with_package` (`source`, `textures`, `page`, `public`, `publish`), `built` or `failed`, `idle`, `resolve` |
| `read`, `built` | what the running build, and the last successful one, read, by path and by what it was read as: a template may be a texture as well, and is then read twice |
| `watched`, `fingerprint` | `watched_paths` and what they held when last looked at |
| `failed` | the last attempt failed, so another is due after the retry interval |
| `outputs` | the files, each with its name, in each output directory |

A build reads its inputs one by one, and the editor may save between any two reads. The
names of files are translated as `prepare_generated_files` makes them, with the content
hash that stands for the contents; so are the checks that no two files have one path and
that the output holds no input.

| property | what it says |
|---|---|
| `EventuallyUpToDate` | once saves stop, the output is for good what a build of the files as they are makes under the configuration as it is, or a failure is remembered if they do not build; only a save during a build that succeeded may be missed |
| `HashedNamesHold` | two builds that publish one hashed name publish the same contents under it |

The exception of `EventuallyUpToDate` is the same as in `DevServer`: the fingerprint is
taken after the build. It goes against
`docs/cli.md:148-149` ("Changes observed while a build is running are not swallowed"): a file
saved between its reading and the end of a successful build is, and the property says nothing of it.
A failing build needs none, because it is tried again whether or
not anything has changed.

Abstractions. Fingerprints of different contents differ, and so do hashes; modification
times are not modelled, so a save that restores the old contents is none. A value of the
configuration that is out of range, an unknown language and a syntax error are all
`Garbled`. Case folding and nesting of colliding paths, HTML and the text of options are
left out. `Publish` has the replacement of the directory.

Run `watch_build`: a command line with settings and one without, six paths with 20 things
an editor may save there (a change of code, a comment, a missing or broken file, a
configuration that names other inputs, one that clashes with them, one that contradicts
itself), three saves: one to break, one to race with the rebuild and one to repair.
Fairness: `watch_build` keeps running (`WF_vars(Watch)`); saves need not happen.

Proofs (`WatchBuildProofs.tla`), for any files, saves, command lines and configurations:

* In everything published a hash in a name is that of the contents (`AllFaithful`, which
  is inductive), hence `HashedNamesHold`.
* `TheWatcherMissesNothing` is the half of `EventuallyUpToDate` that is safety: whenever
  the watcher rests (no failed build is due, and nothing it watches looks different), the
  output is that of the files and the configuration as they are, save for
  `SavedDuringBuild`. The invariant `BuildInv` says of every place of the build what it
  has read and found right there (`FollowsTheConfiguration` up to `ArtifactIsThere`), and
  of the watcher at rest that `built` has every input of an artifact that is in its
  directory, and that those inputs are what it watches (`Rest`). A rest without a
  difference then makes `built` equal to the files at every input, and `SameInputs` says
  that a build depends on nothing else: this is where an input that is read but not
  watched would show. That the watcher does come to rest is left to TLC.

Assumed are that the configuration is one of the project's paths and that a directory a
build may write to is one that `Inside` describes.

## Publish

`Publish.tla` is `publish` in `artifact.rs`, by any number of processes. Each goes
`write` (files are written to its staging directory one by one), `preserve` (the
output is moved into its backup directory), `install` (the staging directory is
moved into place), `installed`, or `restore` (the backup is moved back), and `idle`
again when `publish` returns. A directory is a record of the build it belongs to
and the files written so far, so a mixture of two builds or half of one is a state
of the model.

Abstractions. What a build writes is a set of paths; whether they collide
(`validate_paths`) is a property of the build. Owners of temporary directories
remove them on every return; a removal that fails leaves a directory under a
name that nobody looks at and is not modelled, nor is what a dead process leaves
behind. Where the output may be (`safe_output_directory`) is checked before
anything is written and changes nothing.

An output path that is a link or a file (`Foreign`) is so from the start: nothing outside
of PolyGL puts one there between the check of its kind (`artifact.rs:191`) and the renames,
so that the check is made is shown, and not that it still holds when it is relied on.

`OutputSound` is the conjunction of the first two, `OutputKept` of the last two.

| property | what it says |
|---|---|
| `OutputComplete` | the output has all files of one build, or is not there |
| `FailuresLeaveNothing` | a publish that reported an error has left nothing of its build in place, and nobody holds it to bring it back |
| `ForeignIsKept` | a link or a file where the output should be is never replaced or removed |
| `OutputSurvives` | an output is lost only to a crash between the renames or to a restore that fails |

Run `publish`: two processes, three builds and one whose paths collide, two failing
calls (an install and its restore) and one crash. Two processes are enough: what
one process can do to another is to move the output away or to put one there.

Proofs (`PublishProofs.tla`): all five properties for any processes, builds, files
and bounds. `Structure` is inductive with `TypeOK`: nobody publishes while the
output is foreign, what is in place or set aside is complete, and a process
installs only when its staging directory is. `FailuresLeaveNothing` needs to know
who owns a build: `Ownership` says that a build is present anywhere only if it was
taken up, that no two processes publish the same one, and that a build whose
publication is failing is present nowhere. The assumptions are that a build has
files (an empty directory could be renamed onto) and that names are distinct.

## Source adapters

`CommonCore.tla` says what programs mean: an evaluator for the statements and expressions
of Common Core (`docs/common-core.md`), on the host and on the GPU, with an effect trace,
arrays, bounds errors, traps and a limit on iterations (`Fuel`). The operators are apart, in
`CoreOperators.tla`, without recursion and for integers from `-Half` to `Half - 1` (the code
has 2^31).
`SourceLanguages.tla` says what the same constructs mean in Ruby, PHP and Perl: scopes,
truth, the order of evaluation, loops whose bounds change, implicit results. They model
nothing of the repository's code but the meaning that it relies on, and are marked external.

`RubyAdapter`, `PhpAdapter` and `PerlAdapter` translate statements as the three adapters do
(`lowerer.rs`, `statement.rs`, `expression.rs`), over `Lowering.tla`, which has what they
share: declared names, the depth of loops, temporaries, implicit returns.
`SourceAdapters.tla` grows a function statement by statement, lowers each with what is
known after the ones before, and ends it.

`RubyMeansTheSame`, `PhpMeansTheSame`, `PerlMeansTheSame`: what an adapter accepts calls the
same builtins with the same arguments, ends the same way and returns the same (if its caller
can tell) in Common Core as in its language.

Nine constructs are accepted and mean something else. They are listed as `KnownGaps`, left
out of the programs, and each of them, put into `Admitted`, violates the property:

| gap | what happens |
|---|---|
| array copy | PHP copies an array that is assigned and iterates over a copy, Common Core shares it: after `$b = $a` or in `foreach ($a as $v)`, a write shows where PHP has the old element (`statement.rs:345`) |
| loop variable | a PHP `for` whose body assigns its variable is accepted (`statement.rs:236-314`), and Common Core's loop does not see the assignment |
| post increment | a Perl function that ends in `$x++` returns the new value (`lowerer.rs:1561`) |
| index order | of `a[f()] = g()` with effects on both sides: Perl evaluates the right side first; Ruby and PHP evaluate it before they look whether the index is in bounds, Common Core after |
| constant | a PHP variable with the name of a constant: `$C` and `C` become one |
| unless | a Perl `unless` is lowered as `if` |
| decrement | a Perl `--` is lowered as `++` |
| if result | a Perl function that ends in an `if` without `else` returns nothing, in Perl the value of the condition |
| temporary | a Ruby local called `__pgl_times_index_0` |

The first three go against `docs/common-core.md:148-150`: "If the fixed HIR cannot
preserve a source construct, the adapter must reject it rather than approximate it." What
becomes of `unless` and `--` rests on how the third-party grammar names their nodes, which
the model takes from how `lowerer.rs` looks at them.

Run `source_adapters`: for every language two families of about fourteen statements each,
functions of up to four of them (six levels of nesting are in the statements themselves), as
an entry and as a function with a result, for four arguments. The families are made to meet:
names are written in a block and read after it, adapters' own temporaries are used, a loop
changes what it loops over, a function ends in every kind of statement. Four bits and twelve
iterations are enough to overflow and to tell a loop that ends from one that does not.

Abstractions: floats, strings, maps, vectors, classes and fields, annotations and uniforms,
calls of user functions, and the wording of diagnostics. Arrays hold numbers and are not
passed to functions; Ruby shares them, PHP copies them wherever they are assigned or iterated
over, and in Perl they are only literals and what is subscripted; `%` rounds as the table at `docs/common-core.md:124` says. Ruby's `&&` of
things that are no booleans is left to the type checker. A loop up to the largest integer is
the code generators' concern.

## TypeInference

`TypeInference.tla` is `polygl-types`: the solver (`solver.rs`), inference with its
environments (`expr.rs`, `mod.rs`), the two annotation passes (`annotate.rs`) and the
instances of functions. A behaviour grows a body statement by statement, infers it, and
may close it: then it is annotated twice and accepted, or rejected with a diagnostic.

| state | code |
|---|---|
| `body`, `phase` | the statements so far; infer, first or second pass, accepted, rejected, overflow (`resolve` does not end) |
| `analyzer.substitutions`, `.numeric`, `.fixed`, `.next` | the fields of `TypeSolver` |
| `analyzer.environment`, `.bindings`, `.expressions` | scopes, and the provisional types by address |
| `analyzer.types`, `.callees` | what annotation has written into the tree |
| `analyzer.pending`, `.instances` | calls to be specialized, instances made |

| property | what it says |
|---|---|
| `ProgramsWellTyped` | in an accepted program every read, assignment, operation, index and call has the types it takes, in the body and in every instance, although types change while constraints come in |
| `SolverSound` | types, among them: no address without a concrete type once annotation has begun; and what arithmetic has asked to be a number remains one, whatever it has been unified with before and since |
| `TypesAreFinite` | resolving a type ends |

Run `type_inference`: bodies of up to five statements over declarations with and without
annotations, arrays and elements, arithmetic, branches, loops and calls of generic and
recursive functions, with at most two instances of a function. Five statements are enough
for a type to be provisional, used, widened and used again. Run
`type_inference_recursive` has nested arrays and *fails*: `constrain_variable`
(`solver.rs:298`) binds a variable without looking whether the type contains it, so
`x = [[]]; x[0] = x[0][0]` makes a type that contains itself and `resolve` does not end.
`docs/errors.md:28` promises E0312.

`ProgramsWellTyped` excepts one kind of call, `Outdated`: that of a generic function whose
argument is a variable that became a float after the call was annotated. Of
`x = 1; y = 1; z = twice(y); y = x; sin(x)` the first annotation pass makes the
instance of `twice` for an integer and writes its name into the call; `sin(x)` has made `x` a
float, `y = x` then makes `y` one, and the second pass keeps the call as it is
(`annotate.rs:231`), so that a float goes to a function of integers. `docs/type-system.md:75`
says that a call is specialized "by its concrete argument-type tuple", and
`docs/type-system.md:6` that the result is fully typed. The run has such programs; without
the exception the property fails of them.

Abstractions: structs, vectors, matrices and handles unify like `bool`, maps like arrays;
functions have one parameter; analysis ends with the first diagnostic.

## HostGpuSplit

`HostGpuSplit.tla` is the middle of the compiler: `resolve_domains` (dependency graph,
strongly connected components in reverse order, allowed domains and uses) and `split`
(shader pairs, host reachability, references to materials and assets, the inspection of
what the GPU entries reach, cycles). Of a body the model keeps what the passes look at: what
it refers to, which operations it has, the types in it, by what it divides.

| property | what it says |
|---|---|
| `DomainsAreTheirDefinition` | the domain of a symbol follows from what it reaches and what reaches it, and not from the order of declarations or visits |
| `PartsAreWhatIsNeeded` | both programs have what their entries refer to and are closed under reference; nothing is in the GPU's that an entry does not need, and nothing in the host's that neither an entry nor an effectful initializer needs; the assets are those the host program loads |
| `RunsWhereItIs` | nothing is emitted for a target that cannot run it |
| `ReportsAreRight` | what is accepted for the GPU has a finite form and divides by no zero; what is rejected is flawed; W0401 is reported for exactly the functions on both targets |

Run `host_gpu_split`, over four families of modules, each exhaustive in what it varies: all
graphs of references among three symbols, with an operation of one target anywhere; types
through two structs; shader pairs, materials and textures; divisors through constants. Two
functions and two constants: a cycle of two, and something outside of it.

`docs/architecture-tutorial.md:47` says "Effectful initializers survive Host reachability
pruning" (`docs/improvement-resolution.md:67` too), but `resolve_host_reachability`
(`split.rs:383`) starts from entries alone: a constant whose initializer does something that
only the host can do is dropped if no entry refers to it.
`PartsAreWhatIsNeeded` leaves open whether such constants are there, so that it says the same
of the code as it is and of one that keeps them.

Abstractions: adapters leave the domain of a function open, so it is not varied; the order
of diagnostics and the paths they show, and warnings about loops.

Proofs (`CompilerProofs.tla`, up to its last section): for any numbers of functions and constants and any
modules whose references are declared.

- *Recursion.* The search, the list of components and the two passes over it are recursive
  functions on numbers. `Iteration` says that such a function exists when its steps are
  typed, `InductUpTo` is induction; both come from the fact that a set of numbers has a
  least element (`WFMin`).
- *Components.* `ComponentsInOrder` says what `graph.rs` returns, for every finite graph:
  the classes of symbols that are on a cycle together, each once, none referring to a later
  one. `SearchInv` is the invariant of the search: from a finished symbol one gets only to
  finished ones, the last of which is on a cycle with it, unless a symbol on the stack is.
  Hence what leads to the next root and is left over is on a cycle with the root
  (`LeadsToRoot`), and what is taken is closed under dependents (`CollectInv`).
- *Domains.* After n components, what is allowed is right for their symbols (`AllowedInv`);
  after n components from the other end, what is used is (`UsageInv`). Together they give
  `DomainsRight`, whatever the cycles and the order of declarations.
- *Passes.* `HostInv` (what is reached is needed, and what it refers to is reached or
  pending), `GpuInv`, `WarnedInv`, `AssetsInv` and `FiniteInv` are inductive, each for a
  pass; from them follow `PartsExact` (`HostMinimal`, `GpuMinimal` and `AssetsExact`), `EachWhereItRuns`, `BothReported` and `FormIsFinite`.
- *Rejections.* `ReasonInv`: whatever has been reported has a reason in the module. A call
  of something that only the other target has is one because of the domains: a symbol is
  resolved against a target that needs it only if it leads to an operation which that target
  does not have (`DomainReason`).

## CodeGeneration

`CodeGeneration.tla` takes a function from the typed program to code: lowering (`lower.rs`:
locals and constants, default arguments), optimization (`optimize.rs`: folding, statements
without effect), and the two emitters (fresh names, loops, checked integer operations,
indices; GLSL's operators and its loops). What is emitted is not text but the statements
that the text says, with the operations of its language, and `CommonCore` says what they do.
What becomes of a single operator, folded or written, is `OperatorTranslation.tla`.

`LirMeansTheSame`, `JsMeansTheSame`, `GlslMeansTheSame`: for every argument, the builtins are
called in the same order with the same arguments, the function returns the same, and fails
where it failed; with the floats of the GPU on the GPU, and without bounds checks in release
builds.

Run `code_generation`: functions of up to three statements of one of five families (scopes
and names, loops, effects, arithmetic, floats), in every domain and mode, for six arguments
among them the smallest and largest integer. Four bits are enough for all overflows; floats
are numbers that the GPU rounds beyond four.

Two shapes are known to come out wrong and are left out (`KnownGaps`):

* `minus minus`, a negated negative literal, is left out of programs for the host as well as
  of those for the GPU: both emitters write a `-` before the literal's
  own, and `--` is no negation in either language. Folding removes all of them but the
  negation of the smallest integer, which has no literal to be folded to:
  `-(-2147483647 - 1)`. Put into `Admitted`, it violates `JsMeansTheSame`, against
  `docs/js-backend.md:12-14`, and `GlslMeansTheSame`.
* `mixed`, an integer that becomes a float by itself (`docs/common-core.md:68-70`), is left
  out of programs that run on the GPU: GLSL's
  operators are printed with their operands as they are, which GLSL reads as integers or
  refuses. Put into `Admitted`, it violates `GlslMeansTheSame`.

Abstractions: strings, maps, structs, vectors, source maps, the encoding of names as
identifiers, calls of user functions and the signatures of entries, uniforms, float division. Remainders
of floats and all four orders of numbers are in.

Proofs (`CompilerProofs.tla`, last section): four bits show that an overflow is handled, not
that 32 behave like them. For integers of every width and any operands,

- what folding puts in place of an operator of literals is what Common Core makes of them on
  every side the expression runs on (`FoldingKeepsTheMeaning`, `FoldedUnaryKeepsTheMeaning`).
  Of the program it is assumed that the sum, difference or product of two integers has the
  type of one, as the analysis gives it;
- the JavaScript of an operator gives what Common Core does, traps included
  (`JsIntegersKeepTheMeaning`, `JsFloatsKeepTheMeaning`, `JsComparisonsKeepTheMeaning`,
  `JsUnaryKeepsTheMeaning`);
- so does the GLSL, for the divisors that split lets through
  (`GlslIntegersKeepTheMeaning`, `GlslFloatsKeepTheMeaning`, `GlslNegationKeepsTheMeaning`).

The argument about division: of two quotients whose remainders are smaller than the divisor
and have its sign, none differs (`QuotientUnique`), hence truncating division, corrected the
way both preludes do it, is the one that floors (`FloorFromTrunc`); and every quotient and
remainder fits, the quotient of the smallest integer by -1 apart (`QuotientFits`,
`RemaindersFit`), which GLSL's helpers treat on their own. Comparisons take operands of one
type (`docs/common-core.md:100`); what a remainder of floats by zero is, Common Core does not
say; the negated literals are the gap above. JavaScript's numbers are taken to be exact, which
53 bits are for what 32-bit operands give outside of `Math.imul`. That whole bodies keep their
meaning is model-checked: it is an induction over trees.

## Session

`Session.tla` is `runtime/src/session.ts` with `start` and `createRuntimeSession`
of `runtime/src/index.ts`. JavaScript runs one turn at a time, so an action is a
turn: what runs from one await, event or callback to the next. A session is a
record; the methods that handlers call (`stop`, `fail`, `pauseAnimation`,
`scheduleAnimation`, `scheduleRender`) are operators from record to record,
composed as the handlers compose them.

| state | code |
|---|---|
| `run` | where the asynchronous `run` is: `loading` the module, in `setup`, waiting for `assets`, `done` |
| `state`, `contextLost`, `initialized`, `stopped` | the fields of the same names |
| `animationHandle`, `renderHandle` | whether the field is defined |
| `ticks`, `draws` | callbacks that the browser still has, which is not the same on a host that cannot cancel |
| `program` | whether the module exports `frame` |
| `pauses`, `cancels` | `visibilityPolicy = "pause"`; the host has `cancelAnimationFrame` |
| `facade` | made by `start` |
| `renderedFrames` | parity of the counter, to see when a frame is rendered |

Abstractions. The fixed-step simulation, pressed keys and pointer position do
not influence the lifecycle. A callback of the program returns, throws or stops
its own session; it is not modelled to stop another one. What it draws is not
modelled. The release of resources in `stop` is one step. `StartFails` stands
for a constructor that throws; the session it was making never existed.

`SessionLifecycle.tla` is what the documentation says of sessions: `starting`,
then `live`, perhaps `lost`, in the end `stopped`, and no way back; the facade
owns at most one that has not stopped.

### Runs

| run | question | result |
|---|---|---|
| `session` | `TypeOK`, `SessionsSound`, `RendersOnlyWhenReady`, `FollowsLifecycle`, `StartSettles`, `FramesKeepComing` | hold |

`SessionsSound` is the conjunction of the first five:

* `HandlesExact`: a handle is defined exactly while its callback is pending.
* `EndedIsQuiet`: nothing is scheduled for a session that stopped or lost its
  context.
* `LoopAlive`: a running program with a frame function has its next frame
  scheduled, however it got to be running.
* `PausedWhileHidden`: a session that pauses is paused exactly while the document
  is hidden, also if it was hidden during setup.
* `OneFacadeSession`: a session of the facade that has not stopped is the active one.
* `RendersOnlyWhenReady`: nothing is rendered before setup has finished, without a
  context or after stop, whatever callbacks the host leaves pending.
* `StartSettles`: `startInProgress` is always cleared. `FramesKeepComing`: a
  program that stays running gets frame after frame.

### Bounds

Two sessions: the facade replaces one by the other, or one of each kind. Two
pending callbacks of a kind: one more than a host that cancels can have. No
other bound: the run is exhaustive. It checks liveness too, so it uses no symmetry.

### Fairness

`Progress(s)`: the promises that `run` awaits are settled (the loader and the image
loaders are outside the program, but a load that hangs for ever is outside of what
it can promise). `~hidden /\ Tick(s)`: browsers run the animation frames of a
document that is shown. Events, visibility and context changes need not happen.

### Proofs

`SessionProofs.tla` proves all six invariants, `RendersOnlyWhenReady` and the
refinement, for any set of sessions and any bound on pending callbacks, from
`SessionsAssumption` (`NoSession` is no session) and `PendingAssumption` (the bound
is positive).

The invariant `Inv` is one of records: `Sound(r)` (types, handles against
callbacks, what is quiet, which fields a stage of `run` allows) and
`Lively(r, hidden)` (the loop and the pause). Each method has a lemma that says
which part of it it preserves and what it establishes (`Stopping`, `Scheduling`,
`Redrawing`, ...), each handler one that composes them (`TickTurn`, `EventTurn`,
`VisibilityGood`, ...), so a change to a method concerns one lemma.

`StartIsOne` is the half of `StartSettles` that is safety: `startInProgress` is set exactly
while a run begun by `start` has not ended, and there is one such run. Every way out of
`run` clears the flag of its own start and of no other (`RunIsOver`); everything else leaves
a session at its stage (`AsideTurns`), a stop or a lost context in the middle of `run`
included. That a run does end is left to TLC.

## SceneResources

`SceneResources.tla` is the life of what `scene.ts` owns. Between two callbacks the program
creates and removes meshes, nodes and textures or changes uniforms, an image arrives or
fails, a frame is drawn, or the session ends; `awaitSetupAssets` waits in between.

| state | code |
|---|---|
| `meshes`, `nodes`, `mesh`, `node` | the maps of handles |
| `texture`, `textures` | records with the state of their load; the cache by path and options |
| `refs`, `meshBytes`, `textureBytes` | reference counts and budgets |
| `pendingSetupAssets`, `awaited`, `phase` | the wait for the images of setup |
| `gl`, `arrays`, `cache` | the objects of the context, the index buffer of each vertex array, what is believed bound |

| property | what it says |
|---|---|
| `SceneExact` | types; nothing a node refers to is gone; counts and WebGL objects are exactly those of what is there; nothing is left at the end |
| `BudgetsKept` | the bytes counted against the limits are those of what is there, through overlapping loads, disposals and reloads of one image |
| `SetupAssetsReady` | when the program runs, every texture asked for before is there, also one asked for while others were loading |
| `NoLateUpload` | no image is uploaded after its texture was disposed of or the session ended |
| `DrawsOwnMesh` | a node is drawn with the vertex array of its mesh and layout, and that array holds its mesh's index buffer |

Run `scene_resources`: two of each kind, all symmetric, two image paths, images of three
sizes of which one is too large and two together exceed the budget. Two nodes share or do
not share; two textures of one path are a load and a reload. No other bound.

Abstractions: geometry, transforms, materials' values, WebGL errors. Handles are given out
once. A call that is refused changes nothing and is no step.

Proofs. `SceneResourcesProofs` has all five properties, for any number of handles, uniforms
and keys, any sizes and limits. `SceneExact` is not inductive: a new mesh starts with a count of zero
because unused handles have no references (`UsedOK`); deleting a mesh deletes its vertex
arrays and no others because each is of one mesh in the scene (`ArraysOK`), which also
tells why the right indices are drawn; the wait ends with every texture there because each
load that setup started is done, waited for or disposed of (`LoadsOK`); and a session that
has ended has an empty scene (`PhaseOK`). The sums in `BudgetsKept` are cardinalities, of
the bytes of what is there (`Bytes`), so that the lemmas `BytesAdded` and `BytesRemoved`
follow what a step adds or removes without induction; that an image adds its size and
not the difference to an earlier one needs that a load under way has no bytes yet
(`BudgetsOK`). Assumed are finitely many nodes and uniforms, limits that are natural numbers
(`optionalResourceLimit` takes no others) and distinct names. The lemmas `...Does` say what a call does to the table of textures, the
lemmas `...Keeps` that each call keeps the invariant; `PlacesCounted` counts what a removed
node referred to.

## ShaderUniforms

`ShaderUniforms.tla` relates three things: the context (`gl`: program, active unit,
textures bound, values that each program holds), what `WebGLStateCache` believes of
it (`cache`), and what `WebGL2ShaderRegistry` believes of each program (`shader`: the
values set globally and which are dirty, the values of the last draw, whether there
was a frame). A call that a cache thinks redundant is not made, so a wrong belief is
a wrong picture. Between frames a program sets uniforms, moves and replaces nodes,
draws shapes, loads textures; images are decoded; outside code uses the context. A
frame is `updateAutomaticUniforms` for every shader, then the nodes in some order; a
step is one turn of the loop over uniforms, and fails there in debug builds.

Abstractions. A `scene` says which nodes there are and what may be used with
them. Uniforms are of four kinds: clocks (`u_time`, `u_resolution`),
transforms, plain values and textures. Only active uniforms are listed; others
are skipped by the code. Values are compared by identity where the code compares
element by element. Textures are not disposed of (a `WebGLTexture` is never
reused, so a stale binding of one is harmless), and WebGL reports no errors.

| property | what it says |
|---|---|
| `CachesAreRight` | what the caches believe is so, in every frame, and always in the exclusive mode; what a shader believes of the last draw is what its program holds |
| `DrawsSeeTheirNode` | at every draw the program in use is the node's, with the node's values and textures |
| `UploadsReachTheirTexture` | pixels go to the texture they are meant for, whatever was bound |

`StateOK` is the type invariant and `CachesAreRight`.

Run `shader_uniforms`, over two kinds of scene. In one, two nodes share a shader with a
clock, a transform and a plain uniform: one node's values can be mistaken for another's
and the global surface's. In the other, a node has two textures on two units, which
loading and outside code bind as well. Debug and release builds, both policies; textures
are symmetric, and so are values. No other bound: the run is exhaustive. Two nodes and one
shader are enough because a cache belongs to one program and holds the values of one draw;
a third unit could only be bound by code that does not use the first two.

Two things are outside these properties, and both go wrong. `DrawsSeeTheirNode` is about what
a node, or the clock and the transforms, have set. Of the rest `docs/runtime.md:74-76` says
that release builds keep WebGL's default until one is set: when two nodes of one shader are
drawn and the first sets a value, the second, which does not, gets the first's
(`shader.ts:295`). And `UploadsReachTheirTexture` is about the exclusive policy; with the
other, which `docs/resource-lifecycle.md:34-36` offers instead of `invalidateWebGLState`, an
image that is decoded between frames goes through caches that outside code has made stale
(`scene.ts:895`).

Proofs. `ShaderUniformsProofs` has the three properties for any shaders with any uniforms,
any nodes, textures, values and numbers of units. None is inductive: that a draw sees its
node at the end of the loop over the bindings says nothing about the turns before. `DrawOK`
adds what the loop has seen to so far (`Passed`): the program holds what the node asks for
of every uniform before `frame.index`, and the units of the textures among them are below
`frame.unit`, so that the next texture cannot take one of them (`PassedStays`). `Believed`
and `DrawsKnown` are the two halves of `CachesAreRight`; `FrameOK` bounds `frame.unit` by the
number of textures passed, which keeps it within the units there are (`SlotCounted`). The
lemmas `UseDoes`, `ActivateDoes`, `BindDoes`, `SetDoes` and `UploadDoes` are about the
operators of the cache, the lemmas `...Keeps` about each action. Assumed are distinct names,
uniforms listed once in the bindings of a shader, and as many units as a shader has
textures, which `validateProgramReflection` checks of every linked program.

## What is proved

| Proofs | of | from | the argument |
|---|---|---|---|
| `DevServerProofs` | types, `ResourcesExact`, `NoStaleGeneration`, the refinement of `LastGoodBuild`, the safety of `EventuallyServesTheFiles` | distinct names, finitely many connections | above, under [DevServer](#devserver) |
| `LiveReloadProofs` | `ClientsSound`, `MessagesArrive`, the safety of `EventuallyConnected` | distinct names, finitely many connections, a positive limit | above, under [LiveReload](#livereload) |
| `SessionProofs` | types, `SessionsSound`, `RendersOnlyWhenReady`, the refinement of `SessionLifecycle`, the safety of `StartSettles` | `NoSession` is none, a positive bound | one lemma for each method |
| `PublishProofs` | types, `OutputSound`, `OutputKept` | builds have files, distinct names | what is installed is complete, and who owns a build |
| `SceneResourcesProofs` | `SceneExact`, `BudgetsKept`, `SetupAssetsReady`, `NoLateUpload`, `DrawsOwnMesh` | distinct names, finitely many nodes and uniforms, limits in `Nat` | above, under [SceneResources](#sceneresources) |
| `ShaderUniformsProofs` | `StateOK`, `DrawsSeeTheirNode`, `UploadsReachTheirTexture` | distinct names, uniforms listed once, enough units | above, under [ShaderUniforms](#shaderuniforms) |
| `CompilerProofs` | types, `DomainsAreTheirDefinition`, `PartsAreWhatIsNeeded`, `RunsWhereItIs`, `ReportsAreRight`, `ComponentsInOrder` | references are declared, a literal is no constant | above, under [HostGpuSplit](#hostgpusplit) |
| | operators keep their meaning, folded and written | `Half` is positive, operands have their types, no GLSL divisor is 0 | above, under [CodeGeneration](#codegeneration) |
| `WatchBuildProofs` | `HashedNamesHold`, the safety of `EventuallyUpToDate` | the directories written to are known | a hash stands for the contents; above, under [WatchBuild](#watchbuild) |

Only model-checked: liveness of every module, since the prover has no rule for fairness
over `ENABLED`; and `TypeInference`, `CodeGeneration`, `SourceAdapters` and the modules
under them, which evaluate trees with recursive operators, of which the prover knows
nothing (their operators apart, which are in modules of their own). Every safety property that a run checks of the other modules is a theorem.

## Also noticed

Disagreements met while modelling that no property of the project is about. The exceptions
that properties make are told with their modules: a save after the build has read the file
([DevServer](#devserver), [WatchBuild](#watchbuild)), a page that connects late
([LiveReload](#livereload)), the gaps of [adapters](#source-adapters) and
[generators](#codegeneration), a call whose instance is outdated
([TypeInference](#typeinference)), effectful initializers ([HostGpuSplit](#hostgpusplit)),
unset uniforms and uploads under the reset policy ([ShaderUniforms](#shaderuniforms)).


* `serve_static` reads the generation and the diagnostic under two locks; when the
  first good build replaces a diagnostic between the two, a page is given neither
  (`serve.rs:712`).
* `handleVisibilityChange` sets `paused` without looking at `contextLost`
  (`session.ts:675`), so hiding the document after a context loss changes what the
  handle reports, against the test at `runtime/test/runtime.test.mjs:1123`.
* On a host whose frames cannot be cancelled (`session.ts:939`), pausing and resuming
  leaves two callbacks pending that both reschedule themselves: two loops.
* Of two processes that build into one directory, a failed one may restore an output
  that the other has replaced in the meantime (`artifact.rs:306`).
* `globalAutomaticChanged` (`shader.ts:880`) uploads the identity once, while
  `docs/runtime.md:70` says before each frame.
* Textures set globally in different frames end up on one unit (`shader.ts:345`), against
  `docs/improvement-resolution.md:170`.
* A statement of arithmetic is removed although it may trap: `is_trivially_pure` against
  `docs/lir.md:42-44`. The model has what the code does where no trap is at stake.
* Perl's `%` truncates as `docs/common-core.md:124` says; `docs/improvement-resolution.md:113`
  says it floors. A Perl `for (1..3)` without a variable is dropped silently.
* The vertex entry's parameters are `in` attributes, so assigning one is no valid GLSL;
  `===` compares vectors and arrays by identity on the host and by value on the GPU.
* A variable with an annotation changes its type by use (`expr.rs:421`), against
  `docs/type-system.md:50-51`.

## What is not modelled

* `README.md:59` says that `serve` watches configuration, templates and public
  files as well. `Generation::build` passes no package options, so a served
  generation has none of these inputs; the model has what the code reads.
* Files of one page are separate requests and may come from different
  generations. A generation is one value here.
* The compiler pipeline (`polygl-core`): a straight line of passes over one value, whose
  order is the order of the modules above. HIR, spans and tables of built-ins are data.
* The immediate-mode renderer and the runtime's numeric kernels: tessellation, matrices and
  random numbers are numeric functions without interaction.
* Formatting of diagnostics, HTTP parsing, base64 and SHA-1, source maps: pure functions.
* Parsers of the three languages: third-party code.
* Packaging for npm, conformance runner, benchmarks and other tooling.

## Running

    tlc -config MCDevServer.cfg MCDevServer
    tlapm DevServerProofs.tla

`MC<module>.cfg` is the instance of a module that the table above names; the violation run
is `TypeInferenceRecursive.cfg` of `MCTypeInference`. Every run takes between a few seconds
and three minutes with two workers. `PROJECT.json` says which definition stands for which
lines of the source, which property is about which hazard, and for every property of a
run a mutant: a change of one definition, such as a plausible bug would make, that the run
finds.
