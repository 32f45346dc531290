# GAM, modelled and verified in TLA+

GAM is a header-only C++ library of *global memory smart pointers* for
programs that run as several *executors* (processes with a rank). This
directory holds TLA+ models of its protocols, configurations that check them
with TLC on small instances, and proofs checked by TLAPS.

    tlc -workers 2 -config private_pipeline.cfg MCPrivatePipeline.tla
    tlapm PrivatePtrProofs.tla            # about 4000 obligations, 10 minutes
    tlapm PublicPtrProofs.tla             # about 3100 obligations, 6 minutes
    tlapm GamContextProofs.tla            # about 5050 obligations, 7 minutes
    tlapm GamContextCounts.tla            # about 2800 obligations, 5 minutes
    tlapm GamContextMemory.tla            # about 4900 obligations, 12 minutes
    tlapm AllocatorProofs.tla             # about 300 obligations, seconds

Paths below are relative to `include/gam/` of the repository.

## The system

| Part | Code | State | Operations |
|---|---|---|---|
| Private pointers | `private_ptr.hpp`, `gam_unique_ptr.hpp`, private half of `Context.hpp` | the address in each `private_ptr`, the block in each `gam_unique_ptr` | `make_private`, `local`, `push`, `pull_private`, `reset`, construction from a `gam_unique_ptr` (make or writeback) |
| Public pointers | `public_ptr.hpp`, public half of `Context.hpp` | the address in each `public_ptr` | `make_public`, copy, `push`, `pull_public`, `local`, `use_count`, `reset`, construction from a `private_ptr` (publish) |
| Memory tables | `View.hpp`, `ConcurrentMapWrap.hpp` | `view_map` (address to committed block, child, owner, author, level), `parent_map` (block to address) | setters, `unmap`, `unbind_parent` |
| Reference counts | `MemoryController.hpp` | `ref_cnt` | `rc_init`, `rc_inc`, `rc_dec`, `rc_get` |
| Daemon | `Context.hpp` (`Daemon`) | the request in hand, `cnt` | `RLOAD`, `PVT_RESET`, `RC_INC`, `RC_DEC`, `RC_GET`, `DMN_END` |
| Start and end | `Context.hpp` (constructor, destructor) | `daemon_termination` | join, broadcast of `DMN_END`, closing links |
| Global addresses | `GlobalPointer.hpp` | a counter | `make_global`, `is_address` |
| Links | `links_stub.hpp`, `links_implementations/` | endpoints, completion queues | `send`, `recv`, `broadcast`, `nb_recv`, `nb_poll` |
| Allocators, backend | `wrapped_allocator.hpp`, `TrackingAllocator.hpp`, `backend_ptr.hpp` | blocks in flight | `new_`, `delete_`, `marshall` |

Each executor has a user thread (the application) and a daemon thread; they
share the tables. Executors exchange messages over three services: `pap`
carries pushed pointers from user to user, requests go from a user to a daemon
(`local_links`), and answers come back (`remote_links`).

What is hard here: requests that are sent and forgotten (`PVT_RESET`,
`RC_INC`, `RC_DEC`) and are read when the pointer they concern has moved on;
two threads per executor over tables that unlock before the entry is used;
memory that is left behind at a former author and must be freed there once; a
count kept at one executor of references that others copy, push and drop; the
end of a daemon, when others may still need it.

What makes each part correct:

- private pointers: one capability per address, one memory location behind it,
  the daemon's requests always find what they ask for, no leak, no dangling
  child, `local()` returns;
- public pointers: memory lives exactly as long as its references; the count
  is right up to what is on its way; answers reach who asked;
- tables: the two threads never work on the same entry;
- termination: nobody stops before everybody is finished and served, and
  everybody stops;
- addresses: unique over all executors and calls (which they are not: see below);
- a whole executor: publishing moves a location and leaves nothing behind, the
  two kinds of pointers do not disturb each other, and a pointer the application
  loses costs its own memory only;
- the tracking allocator: its asserts never fail and its leak report is right.

## Modules

| Module | Models | Extends |
|---|---|---|
| `GamView` | tables, heap, mapping and unmapping | |
| `PrivatePtr` | user and daemon threads over private memory | `GamView` |
| `PrivateMemory` | abstract: what private pointers promise | |
| `PrivatePipeline` | the discipline under which the invariant is proved, and the invariant | `PrivatePtr` |
| `PrivatePtrProofs` | theorems; among them that `PrivatePtr` implements `PrivateMemory` and leaks nothing | `PrivatePipeline`, `TLAPS` |
| `PublicPtr` | user and daemon threads over public memory, reference counts | `GamView` |
| `SharedMemory` | abstract: what public pointers promise | |
| `PublicCounted` | the discipline under which public pointers are safe, and the inductive invariant | `PublicPtr` |
| `PublicPtrProofs` | theorems; among them that `PublicPtr` implements `SharedMemory` | `PublicCounted`, `FiniteSetTheorems`, `TLAPS` |
| `Termination` | `~Context`, the loops of `Daemon`, `DMN_END` | |
| `TerminationProofs` | theorems | `Termination`, `SequenceTheorems`, `FiniteSetTheorems`, `TLAPS` |
| `Endpoint` | the links of `Termination` by single sends and receives, answers in chunks | instance of `Termination` |
| `EndpointProofs` | theorems, among them that `Endpoint` implements `Termination` | `Endpoint`, `SequenceTheorems`, `FiniteSetTheorems`, `TLAPS` |
| `GamContext` | both kinds of pointers over one set of tables, one user thread and one daemon; `publish`, pulls of the wrong kind, the overwrite | `GamView`; instances of `PrivatePtr` and `PublicPtr` |
| `GamContextProofs` | theorems about the two kinds together: what they agree on | `GamContext`, `FiniteSetTheorems`, `TLAPS` |
| `GamContextCounts` | theorems about their reference counts and asserts | `GamContextProofs` |
| `GamContextMemory` | theorems about their memory; among them that `GamContext` implements `GlobalMemory` | `GamContextCounts` |
| `GlobalMemory` | abstract: what an application with both kinds is promised | instances of `PrivateMemory` and `SharedMemory` |
| `GlobalPointer` | descriptors and their generator | |
| `Allocator` | the tracking allocator, access by access | |
| `AllocatorProofs` | theorems | `Allocator`, `TLAPS` |
| `MCPrivatePtr`, `MCPrivatePipeline`, `MCPublicPtr`, `MCPublicCounted`, `MCGamContext`, `MCTermination`, `MCEndpoint`, `MCGlobalPointer`, `MCAllocator` | instances for TLC | |

### How state and actions correspond

`view[e][a]` is `view_map` of executor `e` at `a`, `Null` when the key is
absent; `parent[e][c]` likewise. A *cell* is one block of local memory: the
models keep a `backend_ptr` as the cell it wraps, since deleting it is what
frees the cell, and free cells may be handed out again. An address is an
identity that is issued once.

In `PrivatePtr`, `pvt[e]` are the addresses in `private_ptr` objects of the
user thread, `uniq[e]` the blocks in `gam_unique_ptr` objects, `fwd[e]` the
remote load the thread spins in. `pap`, `dmn` and `mem` are the messages on the
three services. Each action is a whole public operation or daemon handler, with
two exceptions, where the code waits or another thread can see the middle:
`local()` elsewhere than at the author is `LocalRequest` (`withdraw` up to the
request) and `LocalAnswer` (the rest, `forward_reset` included), and
`public_ptr::push` is `Push` (the message) and `PushCount` (`rc_inc`).
`DropUnique` is the deleter that `local()` or `make_gam_unique` installed.
Moves of a pointer object inside a thread change nothing the models keep.
Assignment from `nullptr` and the destructors are `Drop`; copy-assignment of
public pointers is `Copy` followed by `Drop`.

In `PublicPtr` a *handle* names one reference: a `public_ptr` object or a
pushed pointer. The code has no such names; they keep equal requests apart.
`rc[e][a]` counts modulo `RcRange`, which stands for 2^64.

`GamContext` composes the two. Its tables are those of both instances; the
messages of each kind are kept apart, since a handler tells them apart by the
operation and the address, but the answers come back on one link and carry
nothing, which is what `AnswersApart` is about. An idle user thread takes a step
of either kind; `Resume` goes on with the call it is in. `publish` at the author
is one step (`PublishAtHome`); elsewhere it is `PublishRequest` (address, block
and `RLOAD`) and `PublishAnswer` (the block is filled, `forward_reset`, the
entries, `release` and `rc_init`). Between the two halves the daemon runs. The
entry of the new address, of which nobody else knows, appears with the second.
Assignment from a `private_ptr` to a `public_ptr` that holds an address is `Drop`
followed by a publish; when the `private_ptr` holds none it is `Overwrite`. A
pull that finds the other kind is `PullPrivateAsPublic` or `PullPublicAsPrivate`:
the message is gone and `lost` remembers what was in it. Blocks of
`make_gam_unique` before they are adopted are left to `PrivatePtr`: no table
knows them.

In `Allocator` each step is one locked access to the table `inflight` or one call
of `::malloc` or `::free`; `pc[t]` is the access a thread makes next. `objects`
are the blocks `new_` has returned and nobody has begun to delete.

In `Termination` a request is only "load" (the sender waits) or "tell".
`Endpoint` refines its links: `rx` and `p` are the one buffer a daemon lends to
the provider (`nb_recv`, `nb_poll`), `sent` how far it is with the answer in
hand, `told` how far with its broadcast. A send waits while `Depth` messages are
queued for the same pair (`-FI_EAGAIN`); its completion is one step with it.

An assert stops the process, so the condition it tests is a conjunct of the
step, and the invariants `DaemonAsserts`, `UserAsserts` and `HolderAsserts` say
that it never does. Those of `Context::unmap` and `munmap` on the child, its
parent and the committed memory (`Context.hpp:264-268`, `812`) are not repeated in
`Unmap`: they follow, where it is called, from `UserAsserts` (`reset` at home),
`NoDanglingChild` (the deleter), the committed memory the handlers and `Discount`
ask for, and from what `IInv` (`Entries` and `Children` of `PrivatePipeline`;
`EntryOK` and `ChildOK` of `GamContextProofs`) says of an author's child;
public entries have none (`PublicEntry`). What the code would do beyond a failed assert, in a build
without asserts, is not modelled.

Messages are neither lost nor duplicated (`FI_EP_RDM` is reliable). The code
asks libfabric for no message order (`fl_getinfo`), and `PrivatePtr` and
`PublicPtr` assume none; `Termination` is checked with it (see the limits below).

## Runs

| Run | Bounds | Shows |
|---|---|---|
| `private_pipeline` | 3 executors, 2 addresses made by executor 0, 2 blocks each, 2 values | all safety properties, and the inductive invariant, of pointers pushed to higher ranks only; `PrivatePtr` implements `PrivateMemory` |
| `context` | 2 executors, 2 addresses, 2 blocks each, 2 references, 1 loss; any direction, no writeback | nine properties of both kinds together, liveness included; `GamContext` implements `GlobalMemory` |
| `private_return` | 2 executors, 1 address, writeback and return | **violated**: `DaemonAsserts` |
| `public_counted` | 3 executors, 1 address, 3 references | counts (modulo their width, and exact), lifetime, asserts and answers; `PublicPtr` implements `SharedMemory`; `Reclaimed` |
| `public_race` | 2 executors, 3 references | **violated**: a pushed pointer is dropped before it is counted |
| `public_home` | 2 executors, 3 references | **violated**: a pointer pushed to its author |
| `public_table` | 2 executors, 2 addresses, 3 references | **violated**: a key is inserted into `ref_cnt` while a request on the counts waits for the daemon |
| `termination` | 3 executors, 2 requests each, ordered links | `ServesToTheEnd`, `NothingUnserved`, `CountsPeers`, `AllClose` |
| `endpoint` | 2 clients of 1 daemon, queues of 1 message, answers of up to 2 chunks | `AnswersWhole`, `AllClose`; `Endpoint` implements `Termination` |
| `addresses_overflow` | ranks 0 and 1, offsets of 2 bits, 5 addresses each | **violated**: rank 1 makes an address twice when its counter has run out of its bits |
| `addresses_units` | ranks 0 and 1, 2 translation units | **violated**: two units make the same address |
| `allocator` | 3 threads, 3 blocks | `AssertsHold`, `LeaksTold` and the inductive invariant, while freed blocks are handed out at once |

Why the bounds are enough. With private pointers every hazard is about one
address and at most three executors: a former author, the present author and
the executor the pointer is going to. The second address and the second block
are there for what a block may be confused with: `parent_map` after reuse, and
a thread that waits for one address while its daemon serves another. With
public pointers addresses do not interact at all; three references are a holder,
a pushed pointer and one that is being discounted at the same time, one for each
executor. `RcRange` exceeds what three references can reach, so that a wrap would
break `Exact`, the count as a natural number.

In `context` two executors are enough for what the composition adds: a publisher
and the author it takes the memory from, each of which may be waiting for the
other, and the return of a pointer to where it was. Two addresses are a private
and the public one it becomes, or one of each kind side by side; two blocks let
one be filled while the other is in use, and both be reused. One loss is one
mistake of the application, at any moment; two values tell a block that was
filled from one that was not. That the executor in the middle of three relays a
pointer is `private_pipeline`'s and `public_counted`'s part. Three threads are
one that frees a block, one that gets the same one from the C library, and one
that works at another.

Two requests are a "tell" in flight behind which a "load" is waiting. Two clients
of one daemon are what a buffer lent too early would confuse. With queues of one
message sends do wait: the second chunk of an answer for the first to be
received, a `DMN_END` for the request its user thread sent before it, and two
daemons in their broadcasts at the same time; a send that gave up instead of
waiting would break `AllClose`, which with queues of two it would not. Five
addresses are one more than two bits can tell apart.

Disciplines. `Makers`, `Readers`, `Rewriters`, `Routes`, `Homing` and `Patient` describe
the application. What the code guarantees depends on them, and the violated runs
show why:

- private pointers may go anywhere, or be written back anywhere, but not both
  (`private_return`): a pipeline (pushes to higher ranks, `private_pipeline`) or
  no writeback (`context`) is safe;
- a public pointer may be dropped only when all pushes of its address have been
  counted (`Patient`, `public_race`), and must not be pushed to its author
  (`Homing`, `public_home`).

Fairness. Daemons poll for ever (`while (!daemon_termination)`), a thread that
waits spins on its completion queue, and a push under way is finished by the
same thread: weak fairness of the daemon's, the answer's and the count's
actions. For public pointers each request has its own fairness condition,
because a posted receive completes with messages in the order of their arrival:
otherwise a daemon could answer one caller for ever and never read a discount.
In `GamContext` there is one for each sender and reference (`Served`), and one for
whatever call a user thread is in the middle of (`Resume`).
Nothing is assumed of the application, which need not create, pull, push or
drop; in `Termination` it must end (`End`), or nobody could.

Deadlock is checked in every run but those of `GlobalPointer`, where the bound on
the calls and a failed assert are the end; `Finished` is the application's legal
end.

## Proofs

`PrivatePtrProofs` proves, for any number of executors, addresses, blocks and
values, with `Routes` ascending in rank:

    Inductive        Spec => []IInv
    TypeCorrect      Spec => []TypeOK
    CapabilitySole   Spec => []SoleCapability
    DaemonSafe       Spec => []DaemonAsserts
    UserSafe         Spec => []UserAsserts
    ChildrenSafe     Spec => []NoDanglingChild
    EntriesRaceFree  Spec => []EntryRaceFree

The assumptions are `ViewAssumption`, `ApplicationAssumption`,
`LoadAssumption` (`Null` is no entry, load or name) and `OneWay` (pushes go to
higher ranks).

Why the properties are not inductive by themselves. That a `PVT_RESET` finds
its copy depends on where the capability is now, so `Resets` says that it is
strictly above the target and not backed from there. That stays true only if a
push never reaches an executor which still maps the address with an old author:
`Frontier` says that executors above the capability have never heard of the
address. `Handles` and `Messages` say that what a holder or a message names as
the author has the memory; `Entries`, `Children` and `Uniques` relate entries,
parents, blocks and `gam_unique_ptr`s; `Waiting` and `Loads` relate a blocked
thread to its one request or answer, whose value is still what the author has;
`Unissued` keeps fresh addresses fresh. `IInv` is their conjunction with
`TypeOK` and `SoleCapability`. There is one lemma per action; each states what
the action changes pointwise and then treats the conjuncts one by one. Two
lemmas are shared: `FreshKeeps` (a new handle on a fresh address) and
`UnmapKeeps` (a copy nobody will look for disappears).

`PublicPtrProofs` proves, for any number of executors, addresses, references, blocks and values, of applications that drop a pointer
only when all its address's references are counted and push none to the author:

    PublicInductive   Spec => []IInv
    PublicTypes       Spec => []TypeOK
    CountsExact       Spec => []Exact
    CountsRight       Spec => []RcConservation
    MemoryAlive       Spec => []MemoryHeld
    PublicDaemonSafe  Spec => []DaemonAsserts
    HoldersSafe       Spec => []HolderAsserts
    AnswersRight      Spec => []AnswersMatch
    PublicImplements  Spec => ImplementsMemory

The assumptions are `ViewAssumption`, `ApplicationAssumption` (the references
are finitely many and a count has more than twice as many values),
`BusyAssumption` (`Null` is no call and no pointer) and `CountedOnly` (`Patient`
and not `Homing`); the runs `public_race` and `public_home` show that neither
half of the last can go.

The argument. A count may lag behind the references in both directions, so that
a count of one says nothing of how many there are. `Exact` makes it precise with
three sets: the references (`Refs`), those of which the home has not heard
(`Unc`) and those dropped of which it has not heard (`Unrel`). Then the count is
zero exactly when `Refs` and `Unrel` are no larger than `Unc`; that this means
that there are no references is `Anchored`: as long as there is one, one is
counted. A `Drop` is the only step that could take the last counted one, and the
discipline allows it only when `Unc` is empty; a push or a copy adds one that is
not counted, beside the one it was made from. `Counted` then keeps the memory.
The sets change by one handle at a time because one handle is one reference
(`Handles`, `Pending`), and count at one executor because everybody names the
same author (`Authors`, which is where a push to the author is excluded).
`Waiting` and `Blocks` carry `AnswersMatch`: who asks holds a pointer, hence the
memory it asked for stays and no other address gets its block.

There is one lemma per action or branch of one. `SameEntries`, `SameQuestions`,
`OneAddress`, `OneUncounted`, `OneCounted` and `DiscountKeeps` are the arguments
several actions share. The refinement maps an address to the size of `Refs` and
to the block of its home: `Make` is `Create`, `Copy` and `Push` are `Share`,
`Drop` is `Release`, the last `RC_DEC` is `Reclaim`, everything else is a stutter.

`AllocatorProofs` proves, for any threads and blocks and from
`AllocatorAssumption` (`Null` is no block or entry):

    TableAccurate    Spec => []IInv
    AllocatorSafe    Spec => []AssertsHold
    LeaksReported    Spec => []LeaksTold

What an assert finds is known from the place its thread has reached
(`EntriesUpToDate`), provided no other thread works at the same block
(`OneUser`), which in turn needs the block that `::malloc` returns to have no
entry any more (`LeaksTold`): the three are proved together. Accesses that change
no entry are covered by the lemma `Looks`, those that write the entry the next
access expects by `Puts`, and the four that change who uses a block have a lemma
each.

`TerminationProofs` proves, for any finite set of executors and any bound on
the requests, from `TerminationAssumption`:

    Inductive        Spec => []IInv
    Types            Spec => []TypeOK
    CountsRight      Spec => []CountsPeers
    ServesOthers     Spec => []ServesToTheEnd
    NothingLeft      InOrder => (Spec => []NothingUnserved)

The argument. `cnt` is a number, and that it reaches zero says something of the
others only because `Counts` gives it a set: `cnt[e]` is the size of `Peers(e)`,
the executors that still serve or whose `DMN_END` is on its way. A broadcast
leaves `Peers` alone (`Links`: a link holds at most one `DMN_END`, its last
message), a received `DMN_END` takes one out of it. So when the second loop ends
all others have broadcast, hence have left their first loop, hence their user
threads have ended (`Ended`). None of this needs an order on the links. That
nothing is left unserved does: `Flushed` (a link whose `DMN_END` is gone is
empty) is inductive only with `InOrder`, which is why that is the hypothesis of
`NothingLeft` and not of the others.

`EndpointProofs` proves, for any finite set of executors, any application, any
`Depth` of the provider's queues and any size of the objects, from
`EndpointAssumption`:

    Inductive           Spec => []IInv
    Types               Spec => []TypeOK
    AnswersArriveWhole  Spec => []AnswersWhole
    EndpointImplements  Spec => ImplementsTermination

The argument. A request goes from a posted buffer to a queue to the buffer lent
to the provider, and an answer leaves chunk by chunk; what matters of this to a
user thread e and a daemon f are two sequences, `Posted(e, f)` (sent and not
polled) and `Stream(e, f)` (sent of the answer, received or not). A step of the
provider moves a message along them and changes neither; the others add or take
at one end of one. The invariant has three parts for each pair: `PostedOK` (a
`DMN_END`, and a request that wants an answer, is the last one posted, and before
it is polled nothing of its answer is there), `HandledOK` (until the last chunk is
sent, who asked waits, and has posted nothing since), `AnswerOK` (the stream
consists of chunks 1, 2, ... of the answer to the present request, and is empty
for who does not wait). `Locals` and `Counts` are about one executor, `Counts`
being that of `Termination`. `AnswersWhole` follows from `AnswerOK`.

The refinement maps `Posted` to the link, with the `DMN_END` at its end from the
moment the daemon leaves its first loop (`Due`): the broadcast of `Termination`
is one step, that of the code one send after the other, with `told` in between.
A completed send is the abstract request, a poll the abstract poll, receiving the
last chunk the abstract answer, and the sends of a broadcast, the chunks before
the last and everything the provider does stutter; `Termination` is used with
`InOrder`, as each queue is one sender's.

The last section of `PrivatePtrProofs` proves, from the same assumptions:

    NothingLeaks        Spec => []NoLeak
    PrivateImplements   Spec => ImplementsMemory

`IInv` says that what is looked for is there; `NoLeak` is the converse, so that
it has a strengthening of its own: `Covered` (memory kept for an address is where
its holder will look, or a release of it is on its way) next to `IInv`. `Seen`
says in the terms of `PrivateMemory` where the capability of each address is and
what its location contains; it follows from `IInv` in every state, so each action
is compared by what it changes of *one* address (`SameAt` for all the others).
`Make` is `Create`, a first access that finds or has received the content `Open`,
the write-back `Close`, `Push` `Send`, `Pull` `Receive`, `Drop` and the deleter of
a child `Destroy`; the requests and everything daemons do stutter.

`GamContextProofs` proves of both kinds of pointers together, for any number of
executors, addresses, references, blocks and values, any applications and any
`MaxLost`, from `ViewAssumption` and `ContextAssumption` (which says of this
application what `PrivatePtr` and `PublicPtr` assume of theirs):

    Invariant                Spec => []IInv
    Types                    Spec => []TypeOK
    OneAnswer                Spec => []AnswersApart
    EntriesApart             Spec => []EntryRaceFree
    PrivateAssertsNeverFail  Spec => []PrivateAsserts

The theorems about the halves do not give these: `publish` crosses from one half
to the other, and private pointers may be pushed anywhere, so that what
`PrivatePtrProofs` proves along the ranks (`Frontier`) is not there to be used.
What replaces it is that nobody writes an opened pointer back: a capability is
opened once, is then at an end, and the author changes then or never.

The invariant has a part for each address and one for each executor. `AddressOK`
is the private part: who holds or carries the capability names the one executor
that `Keeps` the memory (`HandleOK`; a `Source` is the only one), the capability
is in one place and is gone when it is open (`SoleOK`), a release is sent once
and when the capability is gone, to who keeps the memory (`ResetOK`), and
entries, children and parents match (`EntryOK`, `ChildOK`). `LevelOK` keeps
the kinds apart: an address is private, public, about to be public or unknown.
`HomeOK` is the public part: whoever has heard of a public address names the
executor that counts it. `OneCall`, `FetchOK` and `AskOK` say of an executor that
it waits in one call, and that there is one request or one answer of it;
`BlockOK` that a block without a parent, of public memory or of a publish, is
live and has one use. `AnswersApart` follows from the calls, `EntryRaceFree` from
`ResetOK` and `FetchOK`: a request names an address whose capability is elsewhere.

`AddressKept`, `HomeKept`, `FetchKept`, `AskKept` and `BlockKept` say what the
parts depend on; `PrivateStep`, `PublicStep` and `MoveStep` use them for
everything that a step of one kind, or a `publish`, leaves alone, so that each
action is looked at where it happens only.

`GamContextCounts` proves, from the same assumptions:

    CountInvariant    Spec => [](IInv /\ CInv)
    Conserved         Spec => []CountsConserved
    AssertsNeverFail  Spec => []AssertsHold

`ContextAssumption` says here that a count has more values than twice the
references and the losses of one address together (2^64 in the code).

The argument is that of `PublicPtrProofs` with two things more: references that
the application loses are counted for ever, and a publish brings a count and a
reference into being that no `Make` made. `Balanced` is the equation over natural
numbers: the count and what is still to be counted (`Unc`) are together as many
as the references (`Refs`), those dropped and not discounted (`Unrel`) and the
losses. That a count of zero means that nobody refers to the address needs
`AnchorOK`: fewer are uncounted than are referred to or lost, unless there are
none of either. A loss keeps the sum on its right, and so keeps the memory.
`RefsApart` makes each step change these sets by one handle. `MemoryOK` ties the
memory at the home to the count; `HolderOK` and `AskerOK` say that who holds or
asks has an entry or a pointer, so that with `MemoryOK` and `HomeOK` it finds what
the asserts want. `LostOK` says that a loss is never of an address that is still
being published.

An action belongs to one of four kinds, and `CInv` is proved once for each: no
number changes but for losses of private addresses (`TablesStep`), the sets and
the count of one address change and the count neither was zero nor becomes zero
(`SteadyStep`), a new public address (`BornStep`), and a discount, by the daemon
or at home, that may be the last (`DiscountCounts`).

`GamContextMemory` proves, on top of it:

    MemoryInvariant    Spec => [](IInv /\ CInv /\ MInv)
    Accounted          Spec => []MemoryAccounted
    ContextImplements  Spec => ImplementsMemory

`MInv` has the two halves that the earlier invariants lack, which say that what
is needed is there, but not that what is there is needed: `WantedOK` (who keeps
private memory for an address does it for a capability, an open pointer, a
release on its way or a loss) and `UsedOK` (a live block backs an address or is
being filled by a call). That a block has no second use is `BlockOK` and `EntryOK`
of `IInv`, that public memory is wanted is `MemoryOK`.

The refinement is that of the halves and of what crosses between them. `Places`,
`Contents`, `Counted` and `Wasted` are the mapping; `SeenPlaces` and `SeenContents`
say where each is found in a state: the place of an address by its capability,
and the content in the one `Copy` that counts, which is memory whose release is
not on the way. Both follow from `RInv`, the three invariants with `LossOK`
(nothing works on an address whose capability was lost, and one executor at most
keeps its memory). `VInv` is about what is under way: an answer to a user thread
that waits for an address brings the content of that address, which the author's
memory keeps until the answer is taken. `WorksOn(A)` says that a step works on
the addresses of `A`, and `Frame` that all others look as before, so that each
action is compared at one address, `publish` at two (`AtOne`, `AtTwo`).

`Make`, `Push`, `Pull`, `Drop` and the deleter of private pointers are those of
`PrivateMemory`, a first access is its `Open`; `Make`, `Copy` and `Push` of a public
pointer create and share, and `Drop` and the `RC_DEC` that frees release and
reclaim. Both ways to publish are `Publish`, the second one when the answer
comes. A pull of the wrong kind is `LoseCapability` or `LoseReference`, an overwrite
`LoseReference`. Requests, counts, answers and the release of a former author's
copy are steps the application does not see.

Only model-checked:

- `GlobalPointer`, of which both runs are counterexamples: its bit operations
  are those of `Bitwise`, which the provers have no access to;
- private pointers that roam freely, where `DaemonAsserts` is false
  (`private_return`);
- liveness (`AllClose`, `CallsReturn`, `Reclaimed`): it rests on fairness and on
  `ENABLED`, which are out of reach of the prover, as is induction over data.

## Where the code and what it says differ

- `private_return`: the assert of the `PVT_RESET` handler (`Context.hpp:762`)
  fails when a pointer that was opened, written back and pushed home is pulled
  before the daemon reads the request.
- `public_race`: `push` counts after sending (`public_ptr.hpp:239-240`), so that
  the memory can be freed under the pusher; `local_load` (`Context.hpp:858`)
  asserts it is there. `tests/simple_public.cpp` pushes that way.
- `public_home`: `pulled_public` (`Context.hpp:829`) drops the author's own
  memory from the table.
- `public_table`: the "concurrent reference counting table" (`Context.hpp:652`)
  is an `unordered_map` whose locks are commented out
  (`MemoryController.hpp:46-60`): `rc_init` may rehash it while the daemon looks
  up another key.
- `addresses_overflow`: the constructor means to notice an offset of more than 32
  bits (`GlobalPointer.hpp:70-72`), but where the lowest bit of the rank is set
  `lsb | home << 32` (line 69) hides the overflow from its three asserts, and after
  2^32 addresses of that executor they repeat, whether the first is still in use
  or not (`Context.hpp:796` asserts that it is not). An even rank is stopped by
  the assert on `home`.
- `addresses_units`: the "thread-safe global-address generator"
  (`GlobalPointer.hpp:130`) is one counter for each translation unit.

Limits that no comment of the code denies, seen by changing constants:

- with too small a `Depth` in `Endpoint` and requests in both directions the
  system deadlocks (two executors that send each other two requests, `Depth = 1`;
  three requests, `Depth = 2`; the run has clients and a server): a daemon leaves its first
  loop whatever is still in its queues and serves nobody during its broadcast,
  so that two of them with full queues wait for each other. Queues must take
  what an application leaves unserved when it ends.

- with `InOrder = FALSE` in `termination.cfg`, `NothingUnserved` is violated: the
  daemon takes `DMN_END` for the last message of an executor, while `fl_getinfo`
  asks libfabric for no message order: the end relies on a provider that keeps
  the order of each sender;
- a pull of the wrong kind and the overwrite of a `public_ptr` never free the
  memory of what was lost (`GlobalMemory` keeps it as *wasted*), so that the
  check of `~View` for "spurious committed copies" (`View.hpp:59`) would fail at
  the end of such a program. With `MaxLost = 0` nothing is wasted.

## Not modelled, and why

Logging, the launcher and the constructor's environment variables: I/O without
state that matters. A data race on an entry is not modelled as undefined
behaviour but excluded (`EntryRaceFree`); that on the table of counts is shown to
be possible (`public_table`), but not what it may destroy. Pointers with reserved
values are pushed and pulled without any change of state. Payloads are one value
each. An executor that crashes is not modelled: the code does not handle it.

## Plan

1. `Endpoint` for the links of pushed pointers, and `PrivatePtr`'s sets of
   messages as an abstraction of it.
