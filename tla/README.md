# TLA+ models of the programs in this repository

The repository is a collection of small C programs: five exercises with POSIX
threads, a DNS forwarder on libevent, three `ping` programs, and a number of
sequential data structure and interview exercises.  This directory holds TLA+
specifications of them, the TLC configurations that check them, and TLAPS proofs
of the results that hold for every value of the parameters.

    tlc -config AlternatePrint.cfg AlternatePrint       # one run
    tlapm AlternatePrint_proof.tla                      # one set of proofs

`PROJECT.json` lists components, runs, hazards, theorems, for every
definition the source lines it stands for, and for every checked property a
mutant (a plausible bug, written in the module just before the definition it
replaces) that makes TLC report it.

## 1. Inventory

| Part | State | Operations | What is hard |
|---|---|---|---|
| `alternate_print.c` (in `mutex_sempaphores/` and, without its header comment, in `pthread/`) | `global_count`, `count_lock`, `cond_var` | two threads: lock, test, wait, print, increment, signal, unlock or return; main: create, join, destroy | lost and spurious wakeups, the last turns at the limit, a thread that was not created |
| `mutex_alt_print.c` (twice, identical) | `cnt_g`, `cnt_m` | two threads: lock once, then test, print, increment or unlock until the limit | a data race on `cnt_g`, unlocking a mutex that is not held, the loop condition read at another time than the test |
| `sem_problem.c` | `count`, `c_sem`, `mutex1`, `condition_var` | producers count themselves in, the sixth posts, all wait; the consumer takes the post, resets and broadcasts | a wait without a predicate loop, the order of post, reset and broadcast, everybody asleep, `sem_wait` interrupted |
| `prod_consumer.c` | two semaphores, a mutex, a buffer | producers and consumers visit cells 0..NITERS; main creates, joins the last of each kind | a semaphore that starts at 1, a cell one past the buffer next to the mutex, a failed create that ends the process |
| `sem_usage.c` | `count`, `my_mutex`, `my_cond_var` | producers wait, count and print; the consumer broadcasts for ever | who wins the mutex, several producers awake at once |
| `sample_dns_server`: `server.c` | the listening socket, the buffer of the current datagram | libevent calls `on_recv` per datagram: read, verify, print, forward, reply | one thread that blocks on the upstream server, queueing, retries of clients |
| `sample_dns_server`: `utils.c` | the upstream socket, `nBytes`, the name in two forms | name conversions, `send_data_to_dns` with a 5 second timeout, decompression, answer parser | late, lost, repeated answers; an unsigned length; offsets computed from another string; error paths |
| `myping.c` | none shared; parent and child process | parent: four requests a second apart; child: event with timeout, then four reads with timeouts | the race of the child's socket with the first request, foreign packets, 16-bit identifiers |
| `myping_synchronous.c` | as above | four requests with nobody listening, fork, four more; the child reads four packets without a timeout | a listener that is late, lost replies, waiting for ever |
| `ping6_ll.c` | sockets, `trycount`, the timer | allocate, look up, resolve, build the frame; send, receive until an echo reply or a timeout, three tries | the timeout starts again with every frame, late replies |
| checksum (in all three pings) | - | one's complement sum | carries |
| `mylist.c`, `list.c`, and the list of `PS_3.c` | a heap of nodes, `head` | insert at the end, delete every copy of a key, print, bubble sort | dangling and uninitialised pointers, runs of the key at the head, loops that end only on a pointer they must meet |
| `bst.c`, `bst_insert_search.c`, `bst_mirror.c`, `PS_4.c` | a tree; queues in arrays | insert, traverse, mirror, level order, path with the greatest sum | three queues with three ways to treat their limit; a duplicate |
| `addList.c`, `reverse_string.c`, `last_ten_lines.c` | their input | add, reverse, print the last lines | carries, the middle character, the start of the text |
| `endianchk.c`, `void_ptr_usage.c`, `helloworld.c` | - | print a fact | - |

The programs do not interact with each other.  Within a program the parts
interact through shared memory under a mutex (threads), through semaphores,
through libevent callbacks (`server.c`, `myping.c`), by calls (`server.c` to
`utils.c`), and through the network.

## 2. Modules

| Module | Stands for |
|---|---|
| `Pthread` | external: a default mutex and a condition variable, with the two-step `pthread_cond_wait` and spurious wakeups |
| `TurnTaking` | abstract: two parties raise a counter in turn, up to a bound |
| `Rendezvous` | abstract: parties arrive once each and are released together |
| `AlternatePrint` (extends `Pthread`, implements `TurnTaking`) | `alternate_print.c` |
| `AlternatePrint_proof` | its theorems |
| `MutexAltPrint` (implements `TurnTaking`) | `mutex_alt_print.c` |
| `MutexAltPrint_proof` | its theorems |
| `SemProblem` (extends `Pthread`, implements `Rendezvous`), `MCSemProblem` | `sem_problem.c` |
| `SemProblem_proof` | its theorems, and the one about `SemUsage` |
| `ProdConsumer`, `ProdConsumer_proof` | `prod_consumer.c`, and theorems |
| `SemUsage` (extends `Pthread`) | `sem_usage.c` |
| `DnsName` | name conversions, decompression and answer parser of `utils.c`, as functions |
| `DnsMessage`, `MCDnsMessage` | a machine that writes DNS messages record by record, with the reference definitions the functions are compared with |
| `DnsServer` (uses `DnsName`), `MCDnsServer` | `on_recv` and `send_data_to_dns`, with clients, network, upstream server and kernel as external actions |
| `DnsServer_proof` | theorems about `DnsName`, `DnsMessage` and `DnsServer` |
| `Ping6`, `Ping6_proof` | `ping6_ll.c`, and theorems about it, about `Checksum` and about the sums of `addList.c` |
| `MyPing`, `MyPing_proof` | both processes of `myping.c`, the network and the clock, and theorems |
| `MyPingSync` | both processes of `myping_synchronous.c` and the network |
| `AbstractList` | abstract: a list whose operations take effect when they return |
| `LinkedList` (implements `AbstractList`) | `mylist.c`, `list.c` and the sort of `PS_3.c`, on a heap |
| `LinkedList_proof` | its theorems |
| `Trees` | the four tree programs: a tree that grows, and the functions that walk it |
| `Checksum` | the checksums of the three pings, as functions |
| `Sequential` (extends `Checksum`) | `addList.c`, and what the checksums must give |
| `TextPrograms` (extends `Sequential`) | `reverse_string.c`, `last_ten_lines.c` |
| `MCPrograms` | the sum of `LinkedList`, `Trees` and `TextPrograms`: one of them is run |

### State and actions

In the thread programs `pc[t]` is the place a thread has reached, and there is
one action per step between two synchronisation calls: in `AlternatePrint`
`Lock`, `Wait`/`Resume` (call and return of `pthread_cond_wait`), `Increment`,
`Signal`, `Unlock` (with the test of the limit, which is read under the same
lock); `main` is the place of the main thread with `Create`, `Join`,
`Destroy`.  A failed `pthread_create` leaves the thread `"absent"`; joining its
unwritten id is undefined, and is modelled as an error return or a crash.
`last` remembers who raised the counter last; it is history, read by properties
only.

`MutexAltPrint` splits `cnt_g++` into `Load` and `Store` (the register is
`reg[t]`), and has the two kinds of lines as the steps `PrintValue` and
`PrintUnlocking`, each of which reads `cnt_g` once more; `Unlock` frees the mutex
whoever holds it, as glibc does.  `out` is the last value line: who printed it, its
number, and how many there are by now, so that a line that is printed again is a
step.  `last` is the same history as in `AlternatePrint`.

`SemUsage` splits `count++` in the same way; `stored` is the producer that
stored last, and `line` is the last line with its printer and its place in the output.

`SemProblem` has `CountIn` (the increment and the comparison with 6),
`SemPost`, `CondWait`, `CondReturn` for producers, `SemWait`, `Reset`,
`Broadcast` for the consumer, `SemWaitFails` for the return on an error.
`startled` is history: a producer has been woken without a signal.

`ProdConsumer` models the mutex by its lock word, because `buffer[BUF_LEN]` may
be that word (`LockWordNext`): `Visit` stores `i` to it, `Unlock` exchanges it
for 0.  `filled` and `taken` count visits and are read by properties only.

`DnsMessage` is the other side of the parser: `MessageInit` writes a header and a
question, `AddAddress` and `AddAlias` append an A or a CNAME record.  A name is
written as some labels (`MaxOwn` of them at most) and then its end or a pointer to
any name that is already in the message, itself perhaps behind a pointer; `names` is the
writer's note of what starts where.  Names fit the 255 bytes of RFC 1035, pointers
have 14 bits.  The functions of `DnsName` are the code; they see the bytes only.

`DnsServer` has the three steps of `on_recv`: `Receive` or `RecvFails`, then
`Ignore` or `Accept` (step 1); `OpenSocket`, `OptionFails`, `BuildRequest`,
`SendRequest`, `SendFails`, and after the blocking `recvfrom` `Answered` or `TimedOut`
(step 2, `send_data_to_dns`); `Reply` (step 3).  What is open or allocated
between them is state: `gdnssocket`, the `port` it gets when it first sends, `buffers` and
`headers` (allocated and not freed); every path back to libevent closes and frees in
a step of its own.  A message keeps the
transaction id as two bytes, the fields the code copies or tests, the name in
wire or dotted form and the number of records behind the question.  `nBytes` is
a number modulo `2^IntBits`.  `Send`, `SocketError`, `UpstreamAnswers` and `Lose`
are the environment: they repeat, delay and lose messages, and leave an error for
`recvfrom` to report.  After such an error the code goes on with an uninitialised
buffer, of which `RecvFails` says what glibc (2.29 and later) leaves in it: an empty
name and no type, so that it is ignored.  `broken` and `reused` are history for
properties.

`Ping6` goes through the four phases of the set-up, each of which may end in
`Fail`, and counts seconds in `age` (per request) and `waited` (current `recvfrom`).
`MyPing` has a global clock that advances only when both processes are blocked;
`sentAt` are the replies under way, `queue` the packets at the raw socket.
`MyPingSync` has no clock, since nothing in the program has a timeout: packets at
the listener's socket are counted in `unread`, requests not yet answered are in
`flight`, and `missed` is the history of what the listener can no longer hear.

`LinkedList` keeps the fields of every node in `heap` and the allocated ones in
`allocated`.  `free` fills a node with `Garbage`, and `malloc` hands out any node
that is not allocated.  There is one action per turn of a loop: `InsertStarts`,
`Walk`, `Link` (insert), `Delete`, `DropHead`, `HeadsDone`, `Skip`, `Unlink`,
`DeleteReturns` (deletenode), `Sort`, `Compare`, `PassEnds` (sort).  Each is enabled
only if the pointers it follows are allocated nodes, so that a bad dereference
shows as a call that never returns.  `before` is the list when the call was made:
the refinement mapping shows it until the call returns.

`Trees` and `Sequential` have a machine that builds every tree, or every input,
up to a bound, by the calls the programs make (`TreeNext`: `newNode` assigned to
a child, `insert`, or `Insert`); their properties compare the program's functions
with reference definitions in every state.

## 3. Runs

Type invariants are stated in every module with state and are the basis of the
proofs; the runs check what follows.

* **alternate_print** (`Limit` = 100 as in the code; spurious wakeups; failing
  creates).  `NoLostWakeup`: a thread sleeps through its turn only while the
  other one is between increment and signal.  `EndCount`: the counter ends at
  102, and main destroys mutex and condition only when no thread uses them.
  `TakesTurns`: refinement of `TurnTaking`.  `Terminates`: if both threads exist and spurious wakeups are
  finitely many, the program ends.  Deadlock is not checked: if one thread could
  not be created the other one waits for ever.
* **mutex_alt_print** (`Limit` = 100).  `Turnwise`: although no lock is held, only one thread is
  between test and store.  `TakesTurns`: no increment is lost.
  `ValueLinesAlternate`: the n-th "val:" line shows n - 1 and the two threads
  alternate, so no number is printed twice; the number of an "Unlocking" line is
  the one printed last or the next one.  `src/pthread/README:4` says that the
  program "will not print the numbers alternately" because a thread "might continue
  printing the same number again and again".  That is true of the "Unlocking" lines,
  which the model may print any number of times and of which the comment at
  lines 5-11 speaks, and not of the "val:" lines.
  `EndCount`: 100 or 101, since a thread may
  enter a turn on a stale loop condition.  `Terminates`.
* **sem_problem** (6 producers as in the code; spurious wakeups; failing `sem_wait`
  and creates).  `OneCall`: the consumer has at most one outstanding call, and
  has one exactly when the counter has reached the party.  `NoStall`: never are
  all asleep with no call outstanding.  `RoundsGoOn`: liveness.  `IsRendezvous`:
  until the first spurious wakeup the program implements `Rendezvous`, whose
  `Disturb` gives up all promises from there on.  `MaxCount` = 9 bounds how far
  spurious wakeups may drive the counter.  Producers are symmetric, but no
  symmetry is used: it is not sound for the liveness property.
* **sem_problem_header** expects a violation of `AllMeet`, which is the header's
  "wait at a point for all the threads to meet": with one spurious wakeup a
  producer is counted twice.
* **prod_consumer** (2 producers, 2 consumers, 3 cells; the code has 5 of each, and
  the same relation NITERS = BUF_LEN; the lock word behind the last cell).  `Tokens`:
  the semaphores count the cells at every interleaving, and there are between -1
  and BUF_LEN items; the -1 is real, since `buf_full` starts at 1 the first consumer
  may run before any producer.  `Exclusion`: the store to the lock word does not
  let a second thread in, because it stores NITERS, which is not 0.
  `Terminates`.
* **sem_usage** (3 producers; numbers modulo 3).  `CountsUp`: the producers' n-th line
  shows n and comes from the producer that stored n, so no increment is lost and no
  number is printed twice, and the consumer's line shows the number printed last.
  `ConsumerGoesOn`: the producers cannot keep the consumer from the mutex.  The
  converse, that every producer counts again, is not a property of the code:
  nothing stops the consumer from taking the mutex back each time.
* **dns_message** (labels `a` and `bc`, questions of up to two labels, up to two
  answers, whose names have up to one label of their own and then end or point
  at any name before).  `RoundTrip`: a name survives
  the conversion to dots and the two conversions back, and
  the offset computed from the converted host is the end of the name.
  `ReadsAnswers`: the parser returns the records as written.  Two answers are
  enough for a pointer to a pointer, and for a name that ends in a name that the
  record before has written.
* **dns_server** (2 clients, 3 queries or socket errors, a queue of 2, 2 ports, 16-bit lengths).
  `AnswersOwnQuery`: a client gets the answer to its own query, until the kernel
  gives a port again to which an answer is still due; from then on the code
  forwards a stranger's answer, since it compares no transaction id.  `SendsOnlyAnswers`:
  a timeout never sends a client its own query.  `ForwardsQuestion`: the header
  counts agree with the forwarded message, although only the first 8 bytes of the
  header are copied.  `Released`: when `on_recv` returns, gdnssocket is closed and the
  buffer freed, whichever call failed; the headers not freed are those of the
  forwards whose option could not be set (the code returns at lines 208-224 of
  `utils.c` without the `free` of line 236).  `ServesAll`: whenever something is queued
  a query is taken up, and `on_recv` always returns; a query that is repeated, or
  of the client served last, is told apart by the queue.
  Deadlock is not checked: an idle server stops.
* **ping6** (3 tries of 2 seconds as in the code).  `GivesUpLate`: the program
  gives up only after each try had its whole timeout.  `NeverTooLong`: the
  reported time is at most what the reply took (a late reply to an earlier try
  makes it shorter).  `Ends`: unless other frames keep coming, each of which starts the
  timeout again.
* **myping** (constants of the code; replies up to 3 seconds late; one foreign
  packet; a process id below and one above 16 bits; remote host and own host).
  `EndsInTime`, `UnreachableAfterSilence`, `NoReplyMissed`.
* **myping_sync** (4 requests per round as in the code, one packet of another
  program, remote host and own host).  `Ends`: the program ends, or from some time
  on fewer than four packets (or failed reads) have come to the listener and it
  has missed a request of the second round; then both processes wait for ever,
  as the code has no timeout.  Deadlock is not checked for that reason.
* **programs**.  `IsList`: every sequence of calls on a list implements
  `AbstractList`, and every call returns.  `NothingLeaks`: between calls the list
  is exactly the allocated nodes.  `SearchTrees`: trees stay in order, nothing is
  lost but what `insert` of `bst.c` drops below a duplicate, and traversals and
  mirror fit together.  `LevelOrders`: each of the three queues gives the
  breadth-first order up to its own limit, which differs: a full queue drops, an
  array ends, and the `front` of `PS_4.c` never wraps around.  `MaxPath`: the
  leftmost path with the greatest sum, also for negative sums.  `AddsUp`: the digits
  of a sum stand for the sum, with carries through numbers of any two lengths.
  `Strings`: reversal, last lines.  `Checksums`: two folds are as good as a loop of
  folds, and a receiver's sum comes out right for even and odd lengths, for ICMPv6
  with the checksum in the middle of the header and without the sender's padding.
  Deadlock is not checked: the machines stop at their bounds.

### Bounds

Limits of loops are those of the code wherever TLC reaches them (100, 6
producers, 3 tries, 4 and 5 attempts).  Where they are smaller
(producers, cells, clients) the instance still has every role twice, a full and
an empty buffer, a full queue, a late answer to a query before the current one,
a retry of the same client, and a producer that is counted twice.  16 bits for
`nBytes` are enough to be above the largest datagram, which is what the code
depends on; the wrapped -1 is above it in 32 bits as well.  `MaxAge` in `Ping6`
only merges ages above it.

In `programs` the heap has four nodes and three numbers: runs of a key at the head, in
the middle and at the end, reuse of a freed node, and a sort of three passes all
happen.  Trees have up to five nodes, and the queues a length of 3 for the 10 or
100 of the code, so that trees below, at and above each limit are reached.  Bytes
run up to 3 (`Byte` = 4 for 256), so that 16-bit words run below 16 and a sum of
three of them carries more than once; digits use base 4 for 10.  Inputs have up to
six elements.

### Fairness

Weak fairness of each thread's (and of main's) steps: the scheduler runs a
thread that can run.  Nothing is assumed about who wins a mutex or a semaphore.
For the DNS server weak fairness of its steps, which include the receive
timeout; none for clients, network and upstream server.  For `Ping6` weak fairness
of the set-up, of sending, of the timeout and of the passing of time.  For
`MyPingSync` weak fairness of both processes, and of each request being answered or
lost.  For `LinkedList` weak fairness of a step of the call under way; nobody has to
call.  Spurious wakeups and foreign
frames are under no fairness, and the liveness properties say that they stop.

## 4. Proofs

All theorems are about `Spec`, the specification without fairness.

**AlternatePrint_proof** (for every `Limit` in Nat, both flags, exactly the two
threads).  `NoLostWakeup` is not inductive: it says nothing about who is inside
the mutex.  `IInv` adds that the owner of the mutex is exactly the thread in the critical
section (`OwnerInside`), that sleepers are inside `pthread_cond_wait`
(`SleepersWait`), that a thread between increment and unlock has passed the turn
(`TurnPassed`), that the thread that raised the counter last is the one that would
have to wait (`LastBlocked`), what holds above the limit (`EndGame`), that no thread is
created twice (`NotYetBorn`), and that what main has joined has returned (`Joined`).  The one arithmetic fact is that adding one flips
the parity.  Theorems: `TypeCorrect`, `NoWakeupIsLost`, `CounterEnds`, and
`ImplementsTurnTaking`, the refinement: initial states map to initial states,
an `Increment` maps to `Take`, every other step to a stutter.

**MutexAltPrint_proof** (for every `Limit` above 0).  The mutex plays no part in the
argument: `IInv` says that a thread between test and store is the one whose turn
it is (`OnlyInTurn`), hence alone there; that what it has loaded is still the
counter (`FreshLoad`); that the thread whose turn it is not raised the counter last
(`LastNotMine`); what the last value line shows and how many there are (`Shown`); and who may still run
from the limit on (`EndGame`).  Theorems: `TypeCorrect`, `TurnsExclude`, `CounterEnds`,
`ImplementsTurnTaking`, and the action property `LinesAlternate`.

**Ping6_proof** (for every `trylim` and `timeout` above 0, every `MaxAge` of at
least `trylim * timeout`).  `GivesUpLate` speaks of the last step only; `IInv`
says at any time how old each request is at least (`Aged`), ties the number of
requests to the tries counted (`Counted`), and orders the ages (`Ordered`), which
gives `NeverTooLong`.  Theorems: `TypeCorrect`, `GivesUpAfterAllTries`,
`TimeIsNotOverstated`.

The module also holds the proofs about the checksum of the three pings, for every
number of byte values and every packet of at most `2 * Word` bytes (131072 in the code,
more than any packet has).  `Norm` is a sum whose carries are added end-around once:
two folds give it (`TwoFolds`), the loop of folds gives it (`AllFolds`, by way of the remainder by
`Word - 1`, which a turn of the loop does not change), and adding a word before or
after makes no difference (`NormAdds`).  So, word by word, the sum and the one's
complement sum stay in step (`SumsAgree`).  Theorems: `OnesComplementSum`, with which
the 32-bit sum does not overflow, and `ReceiverSumsToZero`, for a checksum field
at any even place of the packet.  The receiver of an ICMPv6 packet sums other bytes than the sender: the words of two
packets joined at an even place are those of both (`WordsJoined`), so that sums add
(`TotalJoined`), and padding adds nothing (`PaddingAddsNothing`); `Receiver6SumsToZero`
follows for any two addresses of even lengths.  `ChecksumsAccepted` says that these
three are `Checksums`, in every state of the input.  `PacketAssumption` is what the
code's field for the length gives: a packet's length is below 2^16.

`addTwoNumbers` is proved for every base of at least 2 and lists of any lengths.
`Values` are the numbers that the digits from each place on stand for (`ValueIs`), also with
zeros above the shorter number (`ValuePadded`).  The carries are 0 or 1 (`CarriesAre`, from
`OneTurn`); from the last place down, what the sum's digits stand for is what those of the two
numbers stand for and the carry (`CarriesAdd`).  Theorems: `SumOfNumbers`, and
`SumsAddUp` for `AddsUp`.

**SemProblem_proof** (for every finite party, every bound on spurious wakeups, all
flags).  `OneCall` and `NoStall` need to know who is inside the mutex
(`OwnerInside`), that sleepers are inside `pthread_cond_wait` (`SleepersWait`), and
that the counter is at least the number of producers that have arrived, and equal to it
until a producer is startled (`CountsArrivals`): a producer that is woken
spuriously is counted again, so the counter runs ahead and the call to the
consumer comes early, never late.  Theorems: `TypeCorrect`, `CallsOnce`,
`NobodyStalls`, and `ImplementsRendezvous`, in which `CountIn` maps to `Arrive`,
`Broadcast` to `Release`, a spurious wakeup to `Disturb`.  The module also holds
`LinesCountUp`, the action property `CountsUp` of `sem_usage.c` for any number of
producers: `UsageInv` says that `count` is one ahead of the number of lines exactly
while a producer is between increment and `printf` (`OneAhead`), that what a
producer has loaded is still the counter when it stores, and that the one that
prints is the one that stored last (`OwnCount`), all because the holder of the
mutex is the one thread in its turn (`HolderInTurn`).

**ProdConsumer_proof** (for any number `NCP` of producers, as many consumers and any size of the
buffer, whether or not the lock word is behind the last cell).  `Exclusion` rests on the value of
the lock word (`LockWord`): it is 0 exactly when nobody is inside, also after the
store of the loop counter.  `Tokens` rests on `Balance`: the semaphores, the
visits counted and the threads between a wait and a post add up.  Theorems: `TypeCorrect`,
`MutualExclusion`, `SemaphoresCount`.

**DnsServer_proof** (for all sets of clients, questions and ports).  First the
conversions of `DnsName`, for every name.  They are recursive functions; that such
a function exists, and what it computes, is shown without an induction theorem:
a set of numbers has a least member (`Least`), and the least or the greatest position at which
the function would be wrong leads to a contradiction.  `NameConversions` is the
result, and `NamesSurvive` carries it to the messages of `DnsMessage`, where
names are sequences of labels: `RoundTrip` for any set of labels that DNS allows (1 to 63
bytes, none of them a dot or above 191, which is what the code can tell from a length).

Then the parser: `AnswersRead` is `ReadsAnswers`, for any labels and
addresses, every name that DNS allows, any number of answers and every way to compress
(the array of the code has room for 20 answers; more are outside the models, section 5).  The
inductive invariant is `Consistent`.  It has two parts.  What the writer calls a known
name is there (`Known`): at its offset the message holds some labels and then a 0 or a
pointer to another known name, which ends before this one starts (`NameAt`, `Ending`).
And the records stand one behind the other from the end of the question on, each with an
owner that is written in this way and with the type, length and data it was
written with (`RecordAt`).  A record appended keeps both (`NameAdded`, `NameStays`,
`RecordStays`, `RecordAdded`), because a message only grows at its end.  From the
invariant to what the code returns: the loop of
`uncompress_name` is a sequence of turns (`Turns`); from the start of a known
name it copies the labels in front of the end or the pointer (`CopiesBytes`,
`ReadsName`), and since pointers lead down the first known name that it would read wrongly
does not exist (`ReadsKnown`), and it stops after no more turns than the message
has bytes (`Uncompresses`).  So `ParseAnswers` finds the next record where the one
before ends (`ReadsRecord`, `ReadsAll`).

Then the server.  `IInv` says that messages
are well formed (`WellFormed`), what is open and allocated at every step (`Held`), which query is
in hand at every step (`InHand`), that on a port that has
not been given twice only the query being served and its answers are under way (`OwnPort`), and what the buffer holds when
it goes back (`InReply`).  Theorems: `TypeCorrect`, `OwnAnswers`, `OnlyAnswers`,
`SocketsReleased`, and `QuestionsForwarded`, which assumes that 6 to 11 bytes of
the header are copied; the code copies the size of a pointer, which is 8.
With 12 bytes the count of additional records would be copied, and the message would be shorter
than it says.  Questions are assumed to be names that fit the buffer of 256 bytes
(`QuestionsAssumption`).

**MyPing_proof** (for any number of requests, timeout, latency, number of foreign
packets and width of the identifier).  `IInv` adds where the two processes are in
time (`ParentTime`, `ChildTime`), that nothing is received before the socket is open,
nothing read before the first event, and a packet ends the wait for it at once (`Silence`), that requests go out
one second apart (`SentInTurn`), and that the turns the child has left are enough
for the replies that can still come (`Turns`).  Theorems: `TypeCorrect`,
`EndsWithinTimeouts`, `UnreachableOnlyAfterSilence`, `TurnsSuffice`.

**LinkedList_proof** (for every finite heap and every set of numbers).  `IInv` names
the nodes of the list: a sequence `s` of `n` different nodes from `head` to `NULL`
that holds all allocated ones but the node `insert` has not linked yet (`Chain`).  What is
true of the call under way is stated about `s` (`Running`): the list is as it
was (`Same`), the new node is off the list (`Inserting`), only copies of the key are gone,
in order (`Kept`), `prev` is the node before `temp` and the first node does not hold the
key (`Searching`), the numbers are the same ones (`SameCopies`), and the pass
of the sort has the largest number so far in hand and leaves the rest in place (`Passing`).
`OneSpine` shows that `s` is what `Spine` chooses: the least place where
two spines differ is a contradiction.  Theorems: `TypeCorrect`, `NoLeak`, and
`ImplementsList`, the refinement of `AbstractList` without its liveness: a call
maps to `Called`, the step that returns to `Returned`, every other one to a stutter.

Only model-checked:

* all liveness properties, since the prover does not handle fairness: `Terminates`
  of the thread programs, `RoundsGoOn`, `ConsumerGoesOn`, `ServesAll`, `Ends` of the pings, and
  that every call on a list returns (the other half of `IsList`);
* `SearchTrees`, `LevelOrders`, `MaxPath` and `Strings`: `Trees` is written with
  recursive operators on trees and `TextPrograms` with one on the text and with
  `Bitwise`, neither of which the prover can use.

## 5. Not modelled, and why

* Malformed or overlong DNS messages, more than 20 answers, the root name: the
  code leaves its buffers there and has no defined behaviour to model.
* `prod_thread[5]` in `sem_problem.c` (what the store behind the array overwrites is
  up to the stack layout) and main's joins there, which never return while a
  producer exists.
* That a producer of `sem_usage.c` may starve, that the producers of `sem_problem.c`
  sleep for ever once `sem_wait` was interrupted, and that `ping6_ll.c` takes a
  reply to anybody for its own are behaviours of the models; no property excludes them.
* The printed text of `display` and of the DNS details.  In particular the
  address of an A record, to which `ntohl` is applied before `inet_ntoa`
  (`utils.c:329`), is not part of a model.
* Set-up code of `server.c` and `myping.c`: it makes the initial state.  The bytes
  of the frame in `ping6_ll.c` beyond what the checksum sums.
* `levelorder` of `bst.c` (prints nothing), `preorder` of `bst_insert_search.c`
  (prints one number), and the uninitialised children of the first root in
  `main` of `bst.c`: the models start from an empty tree.
* Texts with empty lines or with too few lines in `last_ten_lines.c`: its pointer
  leaves the text.  Inputs of `reverse_string.c` longer than its buffer.
* A failing `malloc`: the list and tree programs do not test for it.  `insert` of
  `bst.c` allocates a node at every level of its recursion and keeps only the last
  (line 61): the lost nodes are not modelled.
* `sort` of `PS_3.c` on an empty list, which would follow a null pointer (line 66):
  the models call it on lists that are not empty.
* Interrupted waits in `prod_consumer.c`, whose `sem_wait` is not tested (lines 31
  and 47): the program installs no signal handler, and then no signal interrupts a wait and lets the
  thread go on.  `sem_problem.c` does test, and there the failure is modelled.
* A failing `setsockopt` at `ping6_ll.c:299`, which is not tested: its arguments
  are constants that are valid for an open socket.
* Answers to `gdnssocket` from other senders than the upstream server, whose
  address the code does not check.
* What an uninitialised buffer holds after a failed `recvfrom` with another
  `malloc` than glibc's from 2.29 on (`server.c:107-121`): bytes of the datagram before
  could then be taken for a query.

Comments that say something else than the code: the header of
`mutex_sempaphores/alternate_print.c` (lines 7-8) has `odd_thread` wait while the
counter is not odd, while it waits when the counter is odd (and `even_thread` when it
is even); `PS_4.c:85` announces the path "from root to the target leaf", which is
printed from the leaf up.
* `endianchk.c`, `void_ptr_usage.c`, `helloworld.c`: no state.

## 6. Plan

Done, in this order: the thread programs with their abstract specifications;
the DNS conversions; the DNS server; the pings; proofs of `AlternatePrint`,
`MutexAltPrint` and `Ping6`; the synchronous ping; the lists with their abstract
specification, the trees, the checksums and the small programs; proofs of
`ProdConsumer`, `SemProblem`, `SemUsage`, `MyPing`, of the name conversions and the DNS server,
of `LinkedList`, of the parser of DNS answers, of the checksums, and of the sums
of `addList.c`.

Next: `Trees` with recursive functions on the heap in place of recursive operators,
and the order of a search tree as an invariant of `insert`.
