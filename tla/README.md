# Verification of the message queue and its companions

TLA+ models of this repository's code, the TLC configurations that check them
on small instances, and proofs checked by TLAPS. The repository holds two
assignments: `a2_message_queue`, an in-process message queue for threads, and
`a1_filesystem`, a FUSE file system. The message queue is where threads
interleave, so it comes first; of the file system, formatting and the callbacks
for directories and files are modelled.

## 1. Inventory

| Component | State | Operations | What is hard | What makes it correct |
|---|---|---|---|---|
| Ring buffer (`ring_buffer.c`) | byte array, `head`, `tail`, `full` | read, peek, write, used, free | copies that wrap, `head = tail` meaning empty or full, poisoned free bytes | it is a bounded byte FIFO; free bytes stay poisoned; `check_free` never asserts |
| Sync (`sync.c`) | mutexes and condition variables of pthreads | lock, unlock, wait, signal, broadcast | spurious wakeups, `COND_AUTO_WAKEUP` | (used by the others) |
| Message queue (`msg_queue.c`) | per queue: ring buffer, `refs`, `readers`, `writers`, `no_readers`, `no_writers`, mutex, two condition variables, `queue_event`, list of waiting nodes; handles with flags | create, open, close, read, write | who is woken, who overtakes whom, what is re-tested after a wait, when the backend may be freed | reliable FIFO channel of whole messages; exact reference counts; no use after free; nobody sleeps through what it waits for |
| Poll (`msg_queue_poll`, `helper_count`, `helper_wakeup`) | one `waiting_node` per polled entry, `poll_mutex`, `is_ready` | poll | two mutexes, event flags read without a lock, nodes freed by the poller and visited by others | no missed event, no dangling node |
| List (`list.h`) | `next`/`prev` of entries and head | add head/tail, delete, iterate | order of the pointer assignments | a sequence, readable both ways |
| Mutex validator (`mutex_validator.c`) | `owner` | enter, exit (compare-and-swap) | overlaps of any number of threads | reports if and only if two threads overlap |
| `prodcon.c` | two threads, counts and sums | one producer, one consumer | who closes first; asserts on every result | sums agree, queue freed, it ends |
| `multiprod.c` | n producers with a queue each, one polling consumer | poll over n queues, blocking reads of the readable ones, close at the end of file | events that are stale when they are used; asserts on every result and event | no assert fails, a polled read never blocks, nothing is lost, it ends |
| `errors.c`, `list_2.h`, `list_test.c` | none | printing; an older list and its demonstration | nothing | (not modelled) |
| `mkfs.c` | the image: superblock, two bitmaps, inode table, one extent block per inode, data blocks | format | layout arithmetic, counts written before they are final | counts and bitmaps describe an empty root, whatever the image held |
| `a1fs.c` | the same image | mkdir, rmdir, create, unlink, truncate, read, write, utimens, lookups | bit and block indices, counters, directory growth, error paths half way | bitmaps match the entries, no block or inode in two places, the tree is a tree, a file holds what was written to it |
| `map.c`, `fs_ctx.c`, `options.c`, `util.h` | mapping of the image, options | start and stop | I/O only | (not modelled) |

Interaction: clients (`prodcon`, `multiprod`) call the queue; the queue calls
the ring buffer under its mutex, waits and signals through `sync.c`, and walks
its list of waiting nodes; the ring buffer and the list carry a validator that
reports overlapping accesses. `mkfs` produces the image `a1fs` works on.

## 2. Modules

| Module | Models | How |
|---|---|---|
| `ByteFifo` | what `ring_buffer.h` promises | bounded FIFO of bytes |
| `RingBuffer` | `ring_buffer.c`, debug build | array with indices; one action per call |
| `RingBufferProofs` | | theorems for every size, refinement of `ByteFifo` included |
| `Sync` | `sync.c` | owner of a mutex; signal as a choice of one waiter |
| `MessageChannel` | what `msg_queue.h` promises of read and write | per queue a FIFO of messages |
| `MsgQueue` | `msg_queue.c` without poll | threads with a program counter; see below |
| `MsgQueueProofs` | | handles and memory; the mutex and whole messages; refinement of `MessageChannel`; who sleeps and who is about to be woken |
| `MsgQueueDoc` | sentences of `msg_queue.h` that `msg_queue.c` does not keep | properties only |
| `MsgQueuePoll` | `msg_queue_poll`, `helper_count` | extends `MsgQueue` with the poll call |
| `MsgQueuePollProofs` | | nodes and queues of polls, sleeping pollers; the theorems of `MsgQueue` under polls |
| `MsgQueuePollDoc` | as `MsgQueueDoc`, for poll | properties only |
| `SequenceList` | what `list.h` promises | a sequence |
| `LinkedList` | `list.h`, `mutex_validator.c` | one pointer assignment per step |
| `LinkedListProofs` | | the validator; the pointers; refinement of `SequenceList` |
| `ProdCon` | `prodcon.c` | extends `MsgQueue` with the two threads of the program |
| `ProdConProofs` | | the program keeps its promises for every capacity, count and size of an int |
| `MultiProd` | `multiprod.c` | extends `MsgQueuePoll` with the threads of the program |
| `MultiProdProofs` | | no message is lost, for any number of producers and messages |
| `MultiProdEventProofs` | | the events of its polls are true when they are used: no assert fails, no read sleeps |
| `DirectoryTree` | what the comments of `a1fs.c` promise of the name space | a tree, made once, that changes in one path at a time until it is damaged |
| `A1fs` | `mkfs.c`, the directory callbacks of `a1fs.c` | the image; one action per callback |
| `A1fsFiles` | the callbacks of `a1fs.c` for the contents of files | extends `A1fs`; holds the next-state relation of both |
| `A1fsProofs` | | the file system keeps its promises within the limits of the code; refinement of `DirectoryTree` |
| `MC*` | | constants, menus of calls |

### MsgQueue

`mq[q]` is the `mq_backend` of queue `q` (its `status` tells whether it is
allocated and whether it is freed), `handle[s]` the value of a client's
`msg_queue_t` variable, `pc[t]` the place thread `t` has reached in its call,
`arg[t]` the call's arguments and locals, `ret[t]` what its latest call
returned. `scan[t]` is what `helper_wakeup` has still to visit, `pollm[t]` the
owner of the `poll_mutex` of `t`'s poll call. `stored` and `rcvd` are history:
they name the messages and record what readers got.

A step is what a thread does between two places where another one can get in.
A call starts with the checks made without the mutex (`msg_queue_read`,
`msg_queue_write`, ...), acquires the mutex (`Lock`) and then runs `OpenBody`,
`CloseBody`, `ReadEof`/`ReadEmpty`/`ReadPeek`/`ReadHeader`/`ReadBody` or
`WriteReject`/`WriteWait`/`WritePut`. `ReadPeek`, `ReadHeader` and `ReadBody`
are separate because the branch for a short buffer unlocks the mutex and
carries on, so other threads do get in between. `WakeNode` is one iteration of
`helper_wakeup`, which locks a second mutex. `Destroy` is separate because
`msg_queue_close` unlocks before it destroys and frees.

The bytes in the ring buffer are records (message, offset): reading in the
middle of a message is visible and gives garbage (`GarbageSizes`). Lengths are
`size_t`: `Needed` wraps at `SizeMod`. Memory from `malloc` is not zeroed, so
`queue_event` starts as any member of `UninitEvents`. A node whose mutex was
never initialised either locks without effect or never (`"hung"`).

Clients use a handle from one thread and pass it on by opening it into
another thread's variable, as `prodcon` and `multiprod` do. Two threads on the
very same handle, with one closing it, is the caller's error and not explored.

### LinkedList

Every assignment of `__list_insert` and `list_del` is a step, so are the two
compare-and-swaps of the validator, the reads of the neighbours before
`validator_enter` and the `list_entry_init` after `validator_exit`. Threads in
`Careless` iterate without the mutex. A walk that follows NULL ends the process.

### ProdCon

The statements of `main` and `producer` that call the queue or test a result
are actions; between them the call's own steps of `MsgQueue` run. The value of
an int is attached to the message that stored it (`data`). The menus of calls
(`CreateCalls`, `OpenCalls`, ...) are exactly the calls the program contains
(`ProdConCalls`): `Creation` for each capacity, `WriterOpen`, and a `Transfer` of one
int on either variable. An assert on the result of a call is an action of its
own after the call (`MainGot`, `MainClosed`, ...), so the other thread runs in
between. `pthread_join` may fail, which ends the program with 1; `ProdConSpec`
does not count on it (`JoinFails` is outside the fairness), so that `ProgramEnds`
means that the producer is really joined.

### MultiProd

The `i`-th producer has the `i`-th of the sequences `ProducerThreads`, `QueueOf`,
`MainMq`, `ConsumerMq` and `ProducerMq`, the arrays of the program; nothing is in
a sequence twice (`EachOwn`). `MultiProdCalls` says that the menus of calls are
those of the program: `Creation`, `ReaderOpen`, `WriterOpen`, `Transfer` and the
three polls, each for each producer.

Each statement of `main`, `prod_thread_f` and `cons_thread_f` that calls the
queue or asserts a result is an action; the steps of the calls are those of
`MsgQueuePoll`, on as many queues as there are producers. `Asserted` says where
a failed assert leads; an assert that fails because a call had no memory is an
end of its own (`"nomem"`). A message's value is the message, and a sum the set
of messages added up, so that the comparison of the sums at the end fails
exactly if for some values it can. `main` creates all queues before anything
is freed, so their `queue_event` is fresh memory from the kernel and zero
(`UninitEvents = {{}}`; the garbage is in the run `poll`). `spurious` records
that a poll has woken up without a signal.

### A1fs

The image is its bitmaps (sets of bits), the counts of the superblock, the
inode table, the first extent of each extent block, and the data blocks as
directory entries, with the entry as the unit of size. `Mkfs` is `mkfs.c` with
its two flags, `a1fs_mkdir`, `a1fs_rmdir`, `a1fs_create` and `a1fs_unlink` are
the callbacks; FUSE runs them one at a time (`options.c` passes `-s`) after a
`getattr` has established that the path exists or not. `path_inode` and
`helper` are the lookups. Lines 563 and 564 of `a1fs.c` do not compile (`sb.` on a
pointer); the model takes them as `sb->`.

Some calls end the model's knowledge (`GoWild`), after which no property says
anything. Most of them are undefined behaviour: all four callbacks
take the parent's path from a buffer that is neither initialised nor
terminated, so each of them may update anything, except `rmdir` and `unlink` in
the root; an image too small for its tables is written outside the mapping;
an inode number beyond the extent blocks makes `mkdir` write over the data.
Some are defined, and left out because what follows is chance: an inode beyond
the table whose extent block lies inside the data partition, and an entry that
is replaced by whatever lies before its directory's block (`LeavesData`).
Where the bytes on the stack happen to be right the run shows that the
callbacks keep the tree.

### A1fsFiles

A unit of user data is as large as a directory entry, so that a write over a
directory is seen for what it is. `a1fs_write` is the callback: the first
write to a file takes a block and fills the gap before its offset with zeros;
any later one goes to the block behind the file's extent, wherever that is
(`WriteTo`). `a1fs_read` reads the first block of the extent. `a1fs_truncate`
takes blocks from the bitmap of the inodes, and extends for every size but the
present one, because the difference of the sizes is unsigned. What clients may
expect of a file is the history `expect`. `lapses` records when the code does
one of three things it does not guard against: a write outside the file's block
(`"behind"`), a write that takes a block with the free count at zero
(`"overdrawn"`), and a write that lays data over the entries of a directory
(`"directory"`). The last one is a `memcpy` inside the image (1080, 1083) and
defined, but what it leaves is an array of entries made of user data, which can
name any inode; the model stops there (`GoWild`), as it does for a write outside
the image.

`Tree` maps the image to `DirectoryTree`, with a phase that tells how far its
promise goes: `"blank"` before `mkfs`, `"ready"` from then on,
`"overwritten"` after data has been laid over a directory, `"lost"` after any other
`GoWild`. The tree is made once, in the step from blank to ready; a ready tree
changes in the path a call names and nowhere else, and leaves that phase only
by one of the two kinds of damage, neither of which it comes back from.

## 3. Runs

Passing runs:

| Run | Instance | Shows |
|---|---|---|
| `ring_buffer` | 4 bytes, all transfers of up to 4 | `FreeIsPoisoned`, `NeverAborts`, refinement of `ByteFifo` |
| `msg_queue` | 3 threads, one queue of 4 bytes, messages of 1 and 2 bytes with a size of 1, 3 stored messages, spurious wakeups | `LockDiscipline`, `HandleCounts`, `NoUseAfterFree`, `WholeMessages`, `NoStrandedReader`, `NoMutualWait`, refinement of `MessageChannel` |
| `poll` | 3 threads, polls of one entry, of a null and a real one, of the same queue twice, garbage in `queue_event` | `PollNodesLive`, `PolledQueuesLive`, `PollerSeesMessages` |
| `live` | two blocking readers, a writer, polls for READABLE, with fairness | `ReadsEndAfterClose`, `PollsEndOnMessage` |
| `list` | 3 entries, 2 threads with the mutex, 1 without | `BothWays`, `IterationSound`, `ValidatorExact`, refinement of `SequenceList` |
| `prodcon` | capacities too small, exact, one int, two ints; -1, 0, 2 and 3 numbers | `AssertsHold`, `NoBrokenPipe`, `CleanExit`, `ProgramEnds` |
| `multiprod` | one and two producers; queues of no message, one (refused), two and three; no, one, two and three messages; spurious wakeups | `ProgramAssertsHold`, `PolledReadsDontBlock`, `NothingLost` |
| `a1fs` | images with no, one and five data blocks, zeroed or used; 7 inodes; directories of up to 5 entries; two names in two levels; writes behind a gap and at the start | `TreeSound`, `BlocksSound`, `LinksTellEmptiness`, `NoOvercommit`, `FirstWritesKept`, `DirectoriesKept`, `ListingMatchesLookup`, refinement of `DirectoryTree` |

`ProgramAssertsHold` has two premises, each for a reason in the code: with
room for one message the first write is refused (369), and after a spurious
wakeup a poll returns 0 (475), which `assert(ready > 0)` does not allow.
`FirstWritesKept` ends at the first write outside its file's block and
`NoOvercommit` at the first overdrawn count. The other properties of `a1fs` go on
beyond both, up to a `GoWild`: in particular a write behind its file's block that
falls on a directory (1083, defined behaviour) suspends all of them, and so does
every call whose uninitialised parent path is not taken for the right one. `DirectoriesKept` is what is left to say of the first of these:
only a write behind its file's block can do it.

Why the bounds are enough for what is asked: four bytes hold a message of two
bytes and leave one free, or two messages of one byte exactly, so that full,
empty, fits-and-does-not-fit and head-of-the-queue-too-large all occur; three
threads are one more than any wakeup rule mentions (the waker, the woken, and
one that overtakes); three messages let a queue fill, drain and fill again.
The number of stored messages (`MaxWrites`) is the only bound on behaviours of
the queue. Two producers are enough for a consumer that reads one queue while
the other one changes, and for the entry of a poll whose mutex is not
initialised; three messages for a queue of two fill it, drain it and leave one
behind the close. In the file system `MaxAfter` bounds the calls after the
first lapse, where the wrapped count would let directories come and go for ever.
In `a1fs` two names make a removed entry the last one or not, and the last one
move; the paths use up the inodes exactly; repeated mkdir and rmdir use up the
free block count; an image is formatted once, and may be full of old entries
and set bits before. The bounds stay inside what the code handles: fewer used
bits than a byte has, and directories smaller than a block (see below).
`poll`, `list`, `prodcon`, `multiprod` and `a1fs` do not check for deadlock: a thread hung on
an uninitialised mutex, a crashed process and a finished program really stop.

Runs that end in a counterexample, each against a sentence of
`msg_queue.h`, `multiprod.c` or `a1fs.c`:

| Run | Sentence | What the code does |
|---|---|---|
| `broken_pipe_hang` | 89 "must notify all the writer ... threads" | a writer woken by the last reader's close tests only the space and sleeps for ever |
| `poll_deadlock` | 65 "will never block indefinitely" | a poller holds `poll_mutex` and wants the queue's mutex for its second entry, a thread in `helper_wakeup` holds the queue's mutex and wants that `poll_mutex`; a non-blocking reader is blocked behind the two |
| `multiprod_hang` | `multiprod.c:90` "until all of them are closed by the writers", `msg_queue.h:90` "... and msg_queue_poll() calls", 241 "in any message queue from a set of queues" | two faults that together strand a message: close raises the events and wakes no poller (261), and a message in the second queue signals a condition variable that nobody waits on, for only the first node of a poll has an initialised one (456). Producers that have all ended leave the consumer asleep (`SentIsReceived`), and `main` waits for it |
| `file_contents` | `a1fs.c:1029` "Implements the pwrite() system call" | a second write goes to the block behind the extent (1073) and is never read back |

`file_contents` has three kinds of calls that violate `FilesKeepContents`, each
with the menus of the others empty: the second write above; a truncate to the
size the file has, which forgets its extents (928 and 957 against
`a1fs.c:889` "Supports both extending and shrinking"); and an unlink in a
subdirectory (811 against `a1fs.c:762` "Remove a file"): for a parent other than
the root it addresses an extent block instead of the inode, the file stays, and
removing `/a/b` with `/a` as inode 1 empties the root directory, which is a step
that `DirectoryTree` does not allow. All three are on the menus of the run; TLC
reports the shortest, which is the second write, and the others when the
`WriteCalls`, and `TruncateCalls` or `UnlinkPaths`, are emptied.

`SentIsReceived` speaks of producers that have ended while the consumer has not
seen the end of any queue (`done = 0`). Then both faults are needed to violate
it: a close that woke the poll would make it find what is there, and so would a
signal that reached it through the second entry. Alone, the first fault keeps the
program from ending with one producer, and the second loses a message once the
consumer has closed the first queue.

Further disagreements with the header, kept in the model and not as runs: a
read signals one writer although it may have made room for two, and a writer
stays asleep while its message fits (332 against `msg_queue.h:137`); a poll for
NOWRITERS sleeps through the close of the last writer (261, the same cause as
`multiprod_hang`); a read with a short buffer unlocks, carries on, takes
the message and unlocks again (325 against `msg_queue.h:109`); every
non-blocking write stores its message and then reports EAGAIN (383 against
`msg_queue.h:145`); a non-blocking write waits for space like any other
(line 375 against `msg_queue.h:65`); a message that exactly fills the queue is
refused (`<=` in line 369 against `msg_queue.h:149`), so that a queue of the
smallest capacity takes none; `length+sizeof(size_t)` wraps for the largest
lengths, which are then accepted (369); a writer that waited is not told of a
broken pipe when space appears (364 against `msg_queue.h:139`); a poll returns 0 after
a spurious wakeup or a stolen message (475 against `multiprod.c:119`); entries
whose only event is NOREADERS/NOWRITERS that was not asked for get `revents`
but are not counted (407 against `msg_queue.h:254`); bits outside MQPOLL_* are
accepted (430 against `msg_queue.h:244`); WRITABLE is not raised on a fresh
queue (`msg_queue.h:209`); READABLE raised by a close survives the opening of
a new writer (262 against `msg_queue.h:195`).

The same for the file system, all in the model: `mkdir` and `create` set the bit
with the place in the byte instead of the index, so that from the ninth inode
or block on the same one is handed out again (466, 489, 707); an entry added to
a directory of sixteen overwrites its first one, and one removed from it is
replaced by whatever lies before the block (557, 644); `rmdir` does not give
blocks back to the free count (606), so that `mkdir` fails with blocks free;
`create` takes an inode off the count even when it fails, down through zero
(692); `create` counts a file as a link of its directory (745 against
`a1fs.h:94`), which `rmdir` depends on; `mkfs` decrements the free counts after it has copied
the superblock (`mkfs.c:170`), which the three spare blocks make harmless for
blocks and not for inodes; `mkfs` never returns false (`mkfs.c:117`), an image too
small is written outside its mapping; `write` does not look at the free count,
which wraps below zero (1071), and adds the old size to the new end when it
leaves a gap (1081); `read` takes the first block of an extent for every offset
(1022) and returns the requested length beyond the end of the file (1023);
`truncate` takes its blocks from the inode bitmap (909), so that it marks inodes
and may zero the block of a directory, and takes at least one block off the
free count each time (914); neither `write` nor `truncate` sets `mtime`
(`a1fs.h:110`).

### Fairness

`Fairness` gives each thread weak fairness for its steps inside a call: a
runnable thread is scheduled. Acquiring a mutex has strong fairness: a thread
that waits for a mutex others take turns in is not passed over for ever.
pthreads promise this for the round-robin and fair-queueing behaviour of the
Linux futex only in practice, and without it no liveness statement about
threads sharing a mutex would hold. Calls are never forced to be made, spurious
wakeups never forced to happen, so no property depends on them.

`prodcon` and `multiprod_hang` add weak fairness for each thread of the program
between its calls (`MultiProdFairSpec`): the threads never stop by themselves,
and the counterexample is one in which every thread that could go on does.

## 4. Proofs

Every theorem holds for all values of the constants that satisfy the
assumptions of its module: `None` is not a thread, queue, variable, entry or message;
sizes are positive; each variable and each entry has an owner; the entries of a
list are finitely many; the tables of a file system fit in the largest of the
image files considered, and counts do not wrap below the number of its inodes
and blocks. Further hypotheses are stated in the theorem.

### Ring buffer

`RingBufferCorrect`: for every size, byte set and transfer length, indices stay
in the array, exactly the free bytes are known to be poisoned, and no
`check_free` assertion fails. `FreeIsPoisoned` is inductive together with the
types; the work is in the lemma that the range a write is about to fill lies
inside the free range, in the four cases of wrapped and unwrapped reads and
writes.

`RingBufferRefinesFifo`: the ring buffer implements `ByteFifo`. The mapping
reads the array from `tail` around its end; a write appends to that sequence
and a read takes from its front, in the same four cases.

### Message queue

`MemorySafe`: for any threads, queues, variables and calls, short reads with
their double unlock included, the counters of a backend are the numbers of open
handles of each kind and a backend is freed only when no handle and no call
refers to it. The properties alone are not inductive. The invariant adds, for
each thread, what its call may assume (`CallInv`): the handle it works on is
open, belongs to it and refers to the same backend with the same flags; the
variable it opens into is vacant; and a thread about to destroy a backend is
the only one that knows it, with the count at zero. No property of the mutex is
used, which is why the theorem also covers the executions in which the mutex is
unlocked twice.

The other theorems about the queue have two hypotheses, each for a reason in
the code. `ReadersHaveRoom`: every read brings a buffer for the largest
message; with a shorter one `msg_queue_read` unlocks, carries on without the
mutex and unlocks again (325). `LengthsDontWrap`: `length+sizeof(size_t)` does
not wrap, for a length that does is accepted (369). The instances of the runs
satisfy both (`CallersKeepTheirPart`); `MemorySafe` needs neither.

`MessagesWhole` (`MsgQueueProofs`, as the next two): critical sections exclude each other
and every unlock frees the caller's own mutex (`LockDiscipline`), and the ring
buffer holds whole messages in the order of their numbers (`WholeMessages`), so
that no `ring_buffer_write` fails, although `msg_queue_write` ignores the
results. `ChannelInv` adds to `MemorySafe`'s invariant the owner of the mutex
for every label and, for a reader between its two reads, that the header it has
taken belongs to the message in front.

`NobodyStranded`: `NoStrandedReader` and `NoMutualWait`.
A write signals one reader and a read one writer, and a third thread may take
what the woken one was woken for. `WaitInv` counts: while a reader sleeps, there
are at least as many readers inside their calls as there are messages; while a
writer sleeps on an empty queue, one that was signalled is about to look again.
It is inductive only on top of `ChannelInv`, which tells that a reader leaves
with a whole message or not at all.

`QueueIsChannel`: each queue implements `MessageChannel`
for any number of threads and messages. `WritePut` is the send and `ReadBody`
the receive, every other step stutters; `IdsInv` says that the messages with a
byte in the buffer are numbered from the one at the front to the latest, and
come in the order of their numbers.

### Poll

`PollSafe` (`MsgQueuePollProofs`): for any number of pollers and entries, every
queue's list holds exactly the nodes of the calls between `list_add_tail` and
`list_del`, `helper_wakeup` visits no other (`PollNodesLive`), and no call looks
at a freed queue (`PolledQueuesLive`). `PollInv` has a part for the calls
(`PollOK`: where in its loops each call is and which of its nodes are
registered), one for the lists (`ListOK`) and one for the wakers (`ScanOK`:
what a waker has still to visit is in the list, which nobody changes while the
waker holds the queue's mutex). `PolledQueuesKeepPromises` carries the theorems of `MsgQueue`
over: a poll step changes nothing they speak of but the list, which the frame
lemmas (`PollFrame`, `NextFrame`) say once. `PolledQueueIsChannel` does the same for the
refinement: a step of a poll or of `helper_wakeup` stutters in `MessageChannel`.

`PollerWoken`: a thread asleep in a poll for READABLE does not sleep through a
message (`PollerSeesMessages`). The event flags are read without the queue's
mutex, so what has to be shown is that a write between the scan of the flags
and the wait is told to the poller all the same. `NewsInv` says that a queue
with a message has its READABLE flag up, that a poll call holds its
`poll_mutex` until it sleeps, and that from the moment a call has decided to
sleep a message in its queue has a thread inside `helper_wakeup` on its way to
the call's node. TLC has checked `NewsInv` on the instance of the run `poll` first. The
hypothesis `WritersBlock` is needed: a non-blocking write stores its message and
returns EAGAIN before it tells the pollers (383). The waker may hang at the
uninitialised mutex of another node (456), and the property says so.

### prodcon

`ProdConCorrect` (`ProdConProofs`): for every capacity, count, size of an int and
range of numbers, no assert of the program fails if the queue can hold one int
(`AssertsHold`), neither side sees the other one's close before its last number
(`NoBrokenPipe`), and a successful exit has freed the queue with every number
received (`CleanExit`). The program's calls satisfy the hypotheses of the
theorems about the queue - its buffers have room for the one size it sends, and
that size does not wrap - so the invariants behind `MemorySafe`, `MessagesWhole`
and `QueueIsChannel` hold inside it (`QueueInv`); a message refused for its size
is the only error a call returns, and it is met at the count. What `ProdConInv`
adds relates each thread's statement to its call and to the queue: where in a
call a thread may be at each statement, and what it got from its latest one
(`MainPlace`, `ProdPlace`); which handles are open, hence that no side
sees the other one as closed while it needs it (`HandlesHeld`, `QueueKnown`);
how many ints have been stored and read at each statement (`Counted`); and that the
sums are those of the numbers so far (`Added`, `Sums`). The last is what makes the
comparison at the end succeed: the producer's sum is that of all of `data`, the
main thread's that of the part it has read, and the queue is a channel, so
that at the end both are the whole.

### multiprod

`NoMessageLost` (`MultiProdProofs`): for any number of producers and messages and
any size of the queues, `NothingLost`: the consumer's sum is the producers' when
`main` compares them, and then every message sent has been received and the last
close of each queue has freed it. Nothing is assumed about the memory of a new
queue, the wakeups of a poll or the size of a queue; if one of them
makes an assert fail, the program ends there, and there is nothing to show. The
property is far from inductive: it is about the end, and what makes it true
happens in every queue and thread before. `ProgInv` follows the program: where in a call
each thread may be at each of its statements (`MainPlace`, `ConsPlace`,
`ProdPlace`), who has been started (`Started`), which of the handles are
open, one by one as `main` opens them, hands them over and closes its own
(`HandlesHeld`), and what follows for the queue behind them: `no_writers` only
when the producer has closed, `no_readers` only when the consumer has
(`QueueKnown`). `Counted` then relates `stored`, `rcvd` and the producer's loop, and
has the decisive part: a queue whose end of file the consumer has seen, or whose
handle it has closed, is `Drained`. `Added` says that the sum is that of the messages received
so far, except one just returned from a read, and `Closed` that `done` counts the closed
handles, so that the loop ends with all of them.

The steps inside the calls, some twenty, look to the program like one of nine
effects (`Effect`: a handle opened or closed, a message taken or put, an end of file,
a rejection, a return, a destroyed queue, or nothing), which `StepEffects` derives
from `QInv`, the invariants behind the theorems about the queue and its polls;
`ProgInv` is then shown for each effect and for each statement.

`EventsAreTrue` (`MultiProdEventProofs`): `ProgramAssertsHold` and
`PolledReadsDontBlock`, for any number of producers and messages. Polls read
`queue_event` without the mutex of the queue, and the consumer acts on what they
found some calls later, so both properties are about information that may be
stale. `Raised` says what the flags tell of a queue that somebody still holds:
NOREADERS and NOWRITERS that the side has gone, READABLE that there is a message or no
writer; `Shown` adds that a side has gone when its thread has closed. A flag may
change under a poll, but only one way: `Readable` of a queue, once true, stays true
until the consumer itself has read (`ReadyStays`), because there is no other reader
and a side that has gone does not come back (`OpensFresh`: `main` opens
the only handle of a side before it starts the side's thread). Hence the rest of the invariant, which says what a
poll in any of its steps has found so far:

- `ConsAnswers`: what the last poll has told of the entries that the loop has not
  reached (`Ahead`) is still so, and an entry with events is `Readable`;
  `ConsReads`: so is the queue of the read in progress, which then cannot
  be asleep (`ReadGoesOn`, with `WaitInv`).
- `ConsPolls`: the consumer's poll asks for its open queues, and when it is finished
  it has counted at least one, unless it was woken without a signal. Signals come
  from the first entry only, whose condition variable is the one initialised (456),
  and that entry is then `Readable` when `helper_count` gets to it.
- `ConsVerifies`, `MainPolls`: the poll for the end of file and the one of `main`
  find the events of all their entries in the first scan (`Sure`), and never sleep.

`SizesInv`, every received message is of `sizeof(message)`, is for the assert on the result of
the read. The theorem has one hypothesis, `FreshEvents`: the memory of a new queue holds no
event but possibly WRITABLE, which nobody polls for. `mq_init` leaves
`queue_event` uninitialised; with READABLE in it the consumer would sleep in a read
of an empty queue. In this program the memory is fresh from the kernel,
as section 2 says, and the instance of the run satisfies the hypothesis.

### Linked list and validator

`ValidatorCorrect`: for any threads and entries the validator has reported if
and only if two threads have overlapped. The strengthening says that until the
first overlap the owner field names the one thread inside.

`ListCorrect`: for any threads and entries, one pointer assignment at a time,
`ListTypeOK`, `BothWays` and `IterationSound`. Between two assignments of an
insertion or a deletion `next` and `prev` disagree, so the invariant
(`PointerInv`) names the sequence and the two pointer functions that hold it
(`Holds`), and says label by label in what `next` and `prev` differ from them
(`Shape`), where the cursors are (`CursorOK`) and which entries the calls may
rely on being in or out (`TaskOK`). The lemmas `InsertedHead`, `InsertedTail`
and `Removed` are about the pointers alone. `IterationSound` also needs the
validator: a careless cursor stays on the list as long as nobody overlaps,
although `list_entry_init` runs after `validator_exit`, because the entry it
clears is out of the list by then.

`ListRefinesSequence`: seen along `next` the list implements `SequenceList`. The
mapping is `Walk`, a recursive function; that it yields the sequence is shown
by induction (`ReachedIs`), which is done with a least counterexample
(`LeastNatural`) because the provers cannot apply the induction theorems of the
library.

### File system

From the ninth inode or block on `mkdir` and `create` mark the wrong bit, so the
properties of the run `a1fs` are not true for all constants. They are true
within limits, each of which is a line of the code:

- `CallsWithinLimits`, about the calls and the image: `unlink` is called in the
  root only (811 addresses the parent's inode in blocks); writes do not reach
  beyond the first block of their file (the zeros behind the end of one
  may fall on a directory); and if the image file held something before, all
  inodes are in the word of the bitmap that `mkfs` resets (`mkfs.c:160`). The last one
  was not in the first draft of the theorem: with more inodes than bits in an
  `int`, an image that is formatted again without `-z` keeps bits of inodes
  nothing uses, and `TreeSound` fails.
- `RoomLeft`, about a state: the first byte of each bitmap has a free bit (466,
  489, 707), and no directory has filled its block (557, 644).
- `FewPaths`: fewer paths are used than a byte has bits, and the names leave
  two entries of a block unused. Then there is room for every path that is added (`BitForPath`,
  `DirectorySize`).

`A1fsCorrect`: with `CallsWithinLimits` and `FewPaths`, `TypeOK`, `TreeSound`,
`BlocksSound`, `LinksTellEmptiness`, `NoOvercommit`, `FirstWritesKept`,
`DirectoriesKept` and `ListingMatchesLookup` are invariants of `FilesSpec`, for every size of image,
block and bitmap, number of inodes, and whatever the image held before.
`A1fsImplementsTree`: under the same hypotheses the callbacks implement
`DirectoryTree`: mkfs makes the tree once, every later step is a stutter, the
change of one path, or one of the two kinds of damage. `A1fsCorrectWithRoom`: both for any number of paths, as long as
there is room (`[](formatted => RoomLeft)`). `MCA1fs` makes TLC confirm that the instance of the
run `a1fs` is within the limits.

None of the properties is inductive: they speak of lookups, and a lookup is
right only if the whole image is. The invariant (`A1fsInv`) says that there are
two functions, `at` from the paths in use to their inodes and `slot` to the
places of their entries in the directory above, and that the image is exactly
what they describe (`Holds`): each directory has a block of its own with "."
and ".." in front, its entries are those of the paths below it and fill the
slots up to its size, `links` equals `size`, the bitmaps mark the inodes and
blocks of the paths, and the blocks of files have their contents. `Lookup` and
`Resolve` derive from it that a walk finds the inode of a path in use and
nothing else; from there the properties follow (`HoldsTree`, `HoldsBlocks`,
`HoldsLinks`, `HoldsListing`, `HoldsContents`). A path that comes is the lemma
`Growth`, shared by `mkdir` and `create`; one that goes is `Shrinking`, shared by
`rmdir` and `unlink`, in which the last entry moves and `slot` changes for a path
that has nothing to do with the call; a first write is `Rewriting`. Each step also
says what happens to the paths in use (`NameStep`), or that it is `Damage`,
of the kind the history records (`DamageNext`), which is all the refinement
needs (`TreeStep`). That the first write to a file hits no directory, which
`DirectoriesKept` needs, is `FirstWriteMisses`: the bit that `find_next_bit`
returns is clear, and the blocks of directories have theirs set. The stale
entries behind the size of a directory are searched by `rmdir` as well (`FirstMatch`:
the first one with the name is the right one all the same).

### Only model-checked

- Liveness (`ReadsEndAfterClose`, `PollsEndOnMessage`, `ProgramEnds`): fairness
  and ENABLED are out of the prover's reach.
- `FilesKeepContents` beyond the first write and with truncate: the code does
  not keep it (run `file_contents`).

## 5. Not modelled

Return codes of pthread calls (they are only printed), the contents of error
messages, timing. `mutex_init` errors. `malloc` failure is modelled in create
and poll (ENOMEM). Two threads using the same handle variable. `utimens` and
modification times: no callback reads them, and that they are not kept up to
date one call shows. An image mounted without having been formatted. A crash in
the middle of a callback: the image is mapped `MAP_SHARED` without any ordering
of its pages, and no code repairs or checks it, so there is no recovery to
model. `errors.c` prints. `list_2.h` and `list_test.c` are an older list without
the validator that nothing of the queue includes, and its `list_for_each` does not
compile. `map.c`, `fs_ctx.c` and `options.c` are mapping, two fields and option
parsing.

## 6. Plan

Every invariant and every refinement that a run checks is also a theorem. What is left is
liveness, which stays with TLC, and, should the code change, the models of its
repairs: a `msg_queue_close` that wakes the pollers, a writer that looks at
`no_readers` again, a short read that returns, a poll that waits in a loop with
every node initialised, and an `a1fs_write` that extends the last extent.
