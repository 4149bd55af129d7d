# Verification of ft_traceroute

TLA+ models of `ft_traceroute`, the TLC runs that check them on small
instances, and proofs, checked by TLAPS, that hold for every value of the
constants. File and line references are to the repository.

## 1. The system

`ft_traceroute` is one process with one thread, one raw ICMP socket and one
signal handler. `parse_dest` turns the command line into the fields of the
global `data`; `main` then runs one *hop* per ttl. A hop sends three probes, one
at a time, waiting up to 200 ms after each for any ICMP packet; it then prints
one line with, per probe, a star, an address and a time, or a time alone when the
address repeats.

| component | state it keeps | operations | interacts with |
|---|---|---|---|
| command line (`parsing.c`, `ft_atoi.c`) | `icmp_route`, `icmp_route_index`, `totalSize`, `payloadSize`, `destIp`, `networkIp` | `parse_dest`, `check_icmp_traceroute`, `test_dest`, `test_packetlen` | the resolver; hands `data` to the hop loop |
| hop loop (`main.c`) | `ttl`, `alive` | `set_signals`, `init_data`, `send_recieve`, `print_probes_output`, `free_*` | calls sender, receiver and printer; `alive` is shared with the signal handler, the receiver and the printer |
| sender (`send.c`) | `sendpack[3]`, `sendTime[3]` | `construct_packets`, `update_packets`, `send_packet` | reads `networkIp`, which the receiver overwrites |
| receiver (`recieve.c`, `socket.c`, `utils.c`) | `retpack[3]`, `recieved[3]`, `probeTimes[3]`, `networkIp` | `create_socket`, `recieve_packet` | the kernel's receive queue; stops the loop in ICMP mode |
| printer (`output.c`) | `resIps[3]`, `resDns[3]` | `print_probe_data`, `print_route`, `get_address` | reads the receiver's arrays; stops the loop on arrival |
| signal handler (`main.c:6`) | - | `kill_program` | runs between any two steps |
| line reader (`libraries/get_next_line.c`) | a list of (descriptor, text read ahead) | `get_next_line` | not called by the program |
| network (outside) | the path, answers under way | answer, deliver, lose; time | the receive queue; `recvfrom`'s time-out |
| libft memory (`libraries/ft_mem*.c`, most of `ft_str*.c`) | - | 27 functions that loop over octets | `ft_memcpy`, `ft_memset`, `ft_bzero`, `ft_strcmp` are called by the program |
| libft texts and numbers (`ft_strsplit.c`, `ft_strtrim.c`, `ft_strstr.c`, `ft_itoa.c`, `ft_atolf.c`, `print_memory*.c`, ...) | - | split, trim, search, convert, dump | `ft_atoi`, `ft_strsub` |
| libft lists (`ft_lst*.c`) | the heap, through the caller's lists | `ft_lstnew`, `ft_lstadd`, `ft_lstdel`, `ft_lstdelone`, `ft_lstiter`, `ft_lstmap` | `get_next_line` keeps a list |

What is hard here, and what must hold:

* **Arrays reused across hops.** Each hop fills the same arrays, any entry may
  be missing, and the printer looks at its neighbour. No null pointer may be
  followed, nothing of an earlier hop may be printed, and the abbreviated line
  must still tell which address answered which probe.
* **Who ends the trace.** Three writers clear `alive` and the printer returns
  early for a repeated address. The trace must stop once the destination was
  shown, and, unless interrupted, not before.
* **Packets nobody asked for.** The socket receives every ICMP packet of the
  host, at any time; nothing is compared with the probe. Termination, probe
  contents and memory must not depend on what comes in.
* **Answers without a name.** A reply is printed for the probe that waits when it
  comes. Only the time-out and the network's delay decide whether that is right.
* **A field with two uses.** `networkIp` is both "where to send" and "who
  answered".
* **Arithmetic on the command line.** The length goes through an `int` that
  wraps, and sizes the buffer the headers are written to.
* **Loops over memory.** Overlapping copies, a bound that counts the NUL or does
  not, unsigned counters that run down to 0, a `char` that is signed.
* **Recursion over lists.** Elements are freed from the last one backwards, through
  the pointers that lead to them, by functions whose allocations may fail.

`PROJECT.json` lists these as hazards with the line where each bites and the
property that covers it, or why none does.

## 2. Modules

| module | what it is |
|---|---|
| `Traceroute` | the process from `parse_dest`'s return to its exit, the socket queue, signals |
| `MCTraceroute` | a router, the destination, and the ICMP packets they can send |
| `TracerouteProofs` | invariants and theorems about `Traceroute`, and the proof that it implements `RouteTrace` |
| `RouteTrace` | the abstract trace: what the output promises its reader |
| `TraceRefinement` | the mapping under which `Traceroute` implements `RouteTrace` |
| `TracerouteNet` | `Traceroute` composed with a path, answers under way, and time |
| `MCTracerouteNet` | paths of one, two and three nodes |
| `TracerouteNetProofs` | the network model implements `Traceroute`; its safety, for every path |
| `Parsing` | `parse_dest` over every command line |
| `MCParsing` | arguments around every limit |
| `ParsingProofs` | invariant and theorems about `Parsing` |
| `IcmpChecksum` | `checksum` over an ICMP message, one word per step |
| `MCIcmpChecksum` | messages of four to eight small octets, and the longest |
| `IcmpChecksumProofs` | arithmetic, invariant and theorems about `IcmpChecksum` |
| `GetNextLine` | `get_next_line` over several descriptors, one `read` per step |
| `LineReader` | the abstract reader of lines it implements |
| `MCGetNextLine` | two descriptors and every text of up to three octets |
| `GetNextLineProofs` | invariant, theorems and the refinement proof |
| `LibftMemory` | the loops of `ft_mem*` and of the `ft_str*` that copy, compare, look or map |
| `MCLibftMemory` | calls within six cells of three values |
| `LibftMemoryProofs` | loop invariants and theorems about `LibftMemory` |
| `LibftStrings` | `ft_strsplit`, `ft_strtrim`, `ft_strstr`, `ft_strnstr`, `ft_strsub` |
| `LibftNumbers` | `ft_itoa`, `ft_putnbr`, `ft_atoi`, `ft_atolf`, `ft_sqrt`, `print_memory` |
| `MCLibftText` | calls of both on short texts and every int of ten bits |
| `LibftTextProofs` | recursion and numerals, and theorems about both |
| `LibftLists` | the six list functions over a heap |
| `MCLibftLists` | two lists over four elements |
| `LibftListsProofs` | the forest of links, invariant and theorems about `LibftLists` |

### Traceroute

One action per step that a signal or a packet can fall between.

| action | code |
|---|---|
| `set_signals`, `init_data`, `start` | `main.c:67-70`; `init_data` includes `create_socket`, which may `exit(1)` |
| `construct_packets` | `send.c:79-83` with the header constructors |
| `begin_hop` | loop test, `update_packets` when `ttl != 1`, head of `send_recieve` |
| `send_packet` | `send.c:97-113`; `sendto` succeeds or fails, the code goes on either way |
| `recieve_packet` | `recvfrom` returned a packet: `networkIp`, `retpack`, `probeTimes`, `recieved`, `alive` |
| `recieve_nothing` | `recvfrom` failed: time-out or signal |
| `print_star`, `print_route` | `print_probe_data` of one probe, `get_address` included |
| `end_hop`, `finish` | end of the loop body; code after the loop |
| `kill_program`, `default_signal` | the handler; SIGINT before it is installed |
| `arrive` | the kernel queues an ICMP packet (external) |

Abstractions. An address, its `sockaddr_in` and its text are one value. A DNS
name is the address it was found for, or `NULL` when the lookup fails (a choice
at every lookup). A time stamp is the number of the hop it was taken in, and the
time of a probe is the pair of its two stamps; that is what tells a stale time
from a fresh one. A message has a source and the byte the code reads as the ICMP
type. The bytes of a packet other than the fields replies could be matched by
are left out. `line` is the hop line as a reader sees it. `sent` and
`interrupted` are history: what `sendto` took, and whether the handler ran once
the loop's `alive` was set.

`data.alive = true` (`main.c:70`) is modelled as it stands: a signal handled
between `set_signals` and it is forgotten.

### RouteTrace and TraceRefinement

`RouteTrace` knows nothing of packets, arrays, signals or abbreviations. It has
the number of the current line, the results shown on it (an address or nothing
per probe), an `excuse` and a status. Lines are numbered from 1, hold three
results in the order of the probes, none follows the one that shows the
destination, and the trace ends there, at `MAX_HOPS`, or with an excuse.
`TraceRefinement` gives the mapping: a result is what `TokenRead` takes from the
hop line (a bare time stands for the token before it), and the excuses are an
interrupt, a failed start and ICMP mode, where an echo reply from anyone ends
the trace. Sending, receiving and freeing are stutters.

### TracerouteNet

Extends `Traceroute`: every step is one of its steps or leaves its variables
alone, so what holds of `Traceroute` holds here. `path` is a sequence of
addresses that ends at the destination; the node a probe's ttl ends at answers
it with time exceeded, port unreachable or an echo reply. `flight` holds the
answers with the ticks since their probe was sent; `deliver` is `Traceroute`'s
`arrive` of one of them, `lose` drops it. `tick` is time, which stops for an
answer that is due: an answer takes `MAXDELAY` ticks at most or is lost.

| action | code |
|---|---|
| `create_socket` | `init_data` with `socket.c:6-27`; `timed` is whether `setsockopt` set the time-out, which the code does not test |
| `send_probe` | `send_packet`; its answer starts, the wait of `recvfrom` begins |
| `give_up` | `recieve_nothing`, now only after `TIMEOUT` ticks or a signal |
| `other_steps` | the rest of the program |

`hop` and `probe` of an answer say what it quotes. The code does not look at
them; the properties do. The host gets no ICMP packets but these: what the
others do is in `Traceroute`'s runs.

### Parsing

An argument is a record of what the code can find out about it: the option it
spells, whether it resolves, whether it is all digits, and the number the digits
spell. `ft_atoi` reduces that number to an int of `INT_RANGE` values. Signed
overflow of the `long long` it accumulates in is undefined in C; the build sets
no optimisation level and both the overflow and the conversion reduce modulo
2^32, which is what the model does. The state `parsed` is where `Traceroute`
begins.

### IcmpChecksum

`add_word` is the body of the loop of `checksum` (`send.c:15-16`), `last_octet`
its end with the octet of an odd length, `store` the folding, the complement and
the assignment of `construct_icmp_header`. Octets have `OCTET` values; a word is
two of them, least significant first (the machine is little-endian), and an
unsigned int four, modulo which sums wrap. Messages are any header and payload
with an empty checksum: the code's own (type 8, sequence 1, a payload of 'A')
are among them.

### GetNextLine and LineReader

`file` is what the kernel has still to deliver of each open file, `str` the text
the list keeps for each descriptor. A call is `refuse`, `from_kept` (a line is
there already) or `enter_loop` followed by one `read_some` per read, of one to
`BUFF_SIZE` octets, and `read_end` at the end of the file. `str` is a function of
the descriptor because `get_the_node` finds the node by descriptor or adds one
with a null text. The caller opens files and closes them when it was told their
end (or before it ever read), and may open another on the same descriptor.
`read_error` is the loop's body after a failed read; it is a step of `SpecErrors`
only. `LineReader` has the text not handed out and nothing else; under the
mapping it is `str` followed by `file`, and reads that complete no line are
stutters. Null bytes in a file and failure of `malloc` are left out.

### LibftMemory

Memory is one block of cells, a pointer a cell number, `i` and `j` how far the
pointers and indices of the loop under way have gone, `rest` its length parameter
as it stands: `Down` is the decrement, modulo the `UINT` values of a `size_t`, and
the loops that count down (`ft_memset`, `ft_memcpy`, `ft_memmove`, `ft_strnew`,
`ft_strndup`, ...) test `rest` where the code does, before the decrement, after it
(`ft_memmove` backwards) or with it (`ft_memcmp`). One action per function and one step per turn, so that every
write is seen, not only what is left of them. What the functions share is an
operator (`Fill`, `CopyForwards`, `Compare`, `Concat`, `Map`, `Rewrite`), as
`ft_bzero` is `ft_memset` in the code. `char` is signed: `Unsigned` and `ToChar`
are the casts. `Contract` is the caller's side: what must be a text, have room, or
not overlap, as the C library defines it for the function of that name. A block
the function allocates itself is given as cells: zeroed where `ft_strnew` made
it, and the caller's lookout that it does not overlap. Null pointers and failed
allocations, which return at once, are left out.

### LibftStrings and LibftNumbers

A call is one step; its value is computed by operators and recursive functions with
the structure of the loops (`ft_countword`, `ft_lenword`, `it_works`, ...). A text is the sequence of
octets before its NUL and `At` reads the NUL as well. One blank stands for the
blanks a function knows. Where `ft_strtrim` leaves the text the value says so
(`outside`) and nothing more, since what follows is not the text's.

In `LibftNumbers` a digit is its value and an int has `2 * (INT_MAX + 1)` values.
`ft_itoa` negates a long; `ft_putnbr` writes `INT_MIN` in two parts, `MIN_HEAD` and
`MIN_TAIL` in the model. A double of `ft_atolf` is a fraction without rounding. A dump
is the sequence of its digits with a mark between octets and at the end of rows;
`left` is the memory after it, because `fill_hex_res` divides the octet it
prints until nothing is left of it: `print_memory` prints a copy,
`print_memory_hexa` does not.

### LibftLists

The heap is which elements and contents are allocated, and the fields of each.
The caller has list variables and the element `ft_lstnew` returned last. A recursive
function is a stack of frames: `Deeper` is one call down, `ft_lstdel` and
`ft_lstiter` what a frame does when the deeper call has returned, `ft_lstmap` what
it does before, `lstmap_return` the assignment after. `leaked` is history: what
`ft_lstnew` loses when its second allocation fails or when there is no content to
copy, and what stood behind the element `ft_lstdelone` frees: it sets the list to NULL
(`ft_lstdelone.c:20`), and a caller that had not saved `next` cannot reach it. Reading through NULL (`ft_lstdel` of an empty list, `ft_lstmap` when the
function it is given fails within the list) leads to `segv`.

## 3. Properties and runs

| run | module, cfg | properties | result |
|---|---|---|---|
| `trace` | `MCTraceroute`, `Traceroute.cfg` | `TypeOK NoSegv ProbesOfHop LineReadsBack LineIsFresh ArrivalStops StopsAtDestUdp StopIsFinal NoLeak ImplementsRouteTrace Termination` | hold |
| `stray_echo_reply` | `MCTraceroute`, `Traceroute_StopsAtDest.cfg` | `StopsAtDest` | violated |
| `sendto_address` | `MCTraceroute`, `Traceroute_SentToDest.cfg` | `SentToDest` | violated |
| `net` | `MCTracerouteNet`, `TracerouteNet.cfg` | `AnswersOwnProbe RouteIsPath StopsAtDest TimedTermination` | hold |
| `slow_network` | `MCTracerouteNet`, `TracerouteNet_Slow.cfg` | `AnswersOwnProbe` | violated |
| `parse` | `MCParsing`, `Parsing.cfg` | `TypeOK SizesOK RolesPartition LengthHonoured` | hold |
| `icmp_checksum` | `MCIcmpChecksum`, `IcmpChecksum.cfg` | `TypeOK SumFits ChecksumVerifies FoldKeepsCarries` | hold |
| `lines` | `MCGetNextLine`, `GetNextLine.cfg` | `TypeOK NothingKept ImplementsLineReader CallReturns` | hold |
| `lines_after_read_error` | `MCGetNextLine`, `GetNextLine_ReadError.cfg` | `LinesOfFile` | violated |
| `libft_memory` | `MCLibftMemory`, `LibftMemory.cfg` | `WritesInTarget CopiesExactly FindsOctet ComparesUnsigned Returns` | hold |
| `libft_text` | `MCLibftText`, `LibftText.cfg` | `SplitsIntoWords TrimsBlanks FindsFirst NumbersReadBack SqrtExact DumpsReadBack` | hold |
| `libft_lists` | `MCLibftLists`, `LibftLists.cfg` | `ListsOwnHeap CallbacksInOrder` | hold |

* `NoSegv`: the `strcmp` of two probes' addresses always has both.
* `ProbesOfHop`: each datagram carries its hop's ttl, the destination and, in
  UDP mode, the ports of its probe.
* `LineReadsBack`: a reader who takes a bare time for the address before it gets
  exactly the sources of the received packets.
* `LineIsFresh`: names and times on the line are of this hop.
* `ArrivalStops`: once the destination is on a line, no further hop starts.
* `StopsAtDestUdp`: in UDP mode a trace shorter than `MAX_HOPS` that nobody
  interrupted ends with the destination on its last line. The same for ICMP mode
  (`StopsAtDest`) is false: `recieve_packet` stops on an echo reply from anyone.
* `StopIsFinal`, `NoLeak`: no step takes back a stop, or overwrites a pointer to
  a live block.
* `Termination`: the process ends.
* `ImplementsRouteTrace`: the program refines `RouteTrace`.
* `AnswersOwnProbe`: while no signal cut a wait short, every reply kept answers
  the probe it is printed for. `RouteIsPath`: the line of a hop names the node of
  the path at that distance and no other. Both hold because an answer takes less
  than a time-out, and for no other reason. On such a network `StopsAtDest` holds
  in ICMP mode too. `TimedTermination`: once the time-out is set the process ends.
* `SizesOK`: the buffer `construct_packet` writes to is large enough, whatever
  int the length wrapped to. `RolesPartition`: flag, host and length are told
  apart. `LengthHonoured`: a length that fits an int is used.
* `ChecksumVerifies`: the stored checksum verifies as a receiver computes it, in
  network order. `FoldKeepsCarries`: the words and the checksum sum to a multiple
  of `WORD - 1`. `SumFits`: the sum kept modulo an unsigned int is the sum of the
  words without a modulus: no addition wraps, to the longest message.
* `ImplementsLineReader`: the lines handed out are those of the files, whatever
  the reads return and however calls on descriptors alternate. `NothingKept`:
  nothing kept of a closed file. `CallReturns`: a call that reads returns, but on
  a file with no octet at all, where `get_next_line.c:42` follows a null pointer.
* `WritesInTarget`: at no turn of its loop does a function write a cell its
  contract does not give it. `CopiesExactly`: in the end those cells hold what they
  should, overlap or not. `FindsOctet`, `ComparesUnsigned`: signed chars do not show.
  `Returns`: every loop ends, the ones that count a `size_t` down to 0, or past it
  (`ft_strnew`), included.
* The properties of `libft_text` compare each function with a definition of what
  it is for: maximal runs without the separator, the text between its first and
  last octet that is not blank, the first occurrence; `NumbersReadBack`,
  `DumpsReadBack`: what is written stands for what was given; `SqrtExact`: roots of
  squares, 0 for the other ints.
* `ListsOwnHeap`: at every step, in the middle of a recursion too, what is
  allocated is in exactly one list, once, or was lost by `ft_lstnew` or behind an
  element `ft_lstdelone` took; lists end and hold nothing freed. `CallbacksInOrder`: the functions given to `ft_lstdel`,
  `ft_lstiter` and `ft_lstmap` get each element once, in order, and the lists are
  left as they should be.

Each property of a passing run is broken by a mutated definition (`mutants` in
`PROJECT.json`); the mutated forms stand before the definitions they mutate.

**Findings.** (1) In ICMP mode a stray echo reply ends the trace. (2) After the
first reply, `sendto` is given the replying router's address; the IP header
still names the host, so only the kernel's choice of route is affected. (3) The
time-out is 200 ms where the comment says one second: on a network slower than
that, answers are printed for later probes. (4) After a read that fails
`get_next_line` goes on with what its buffer held and never returns -1.

Met while modelling, without a run: a packet length beyond 2^32 wraps and may be
accepted; `get_next_line` follows a null pointer on an empty file; `ft_strtrim`
of a blank text reads past its end; `ft_atolf` loses the sign of -0.5;
`ft_strrchr` does not find an octet above 127 given as one;
`print_memory_hexa` leaves out the first octet of every row but the first and
destroys what it prints; `ft_lstdel` of an empty list follows a null pointer.
The models have these cases as the code does, and the properties' texts say
where they stop short of them.

**Bounds.** `MAX_HOPS = 2`: the second hop is where `update_packets` runs and
where leftovers of a first hop can show; later hops repeat it, and the proofs
cover them. `RCVQ_MAX = 1`: packets may arrive between any two steps, so any
sequence the program could read from a longer queue it can also read from a
queue of one filled just in time; the proofs cover every length. Two addresses:
the code compares addresses with each other and with the destination only. Four
messages: either address, echo reply or not. Command lines of up to
`ARGC_MAX = 4` words, the program's name included: every accepted shape; longer
ones are refused by the branch that refuses the program's name alone.
`INT_RANGE = 2^18` keeps the two limits 28 and 65000, and leaves room
for accepted, refused, negative and wrapped lengths.

`OCTET = 4`: 16 values of a word let four words carry once and, after the first
folding, once more; the proofs cover 256. A sum of eight octets is far from the
256 values of an unsigned int: for `SumFits` the run adds the longest messages, of
30 and 31 octets of the greatest value, whose sum is the largest there is. Texts of three octets with
`BUFF_SIZE = 2`: a read may end within a line, at its newline, or hold two lines,
and the last line may lack its newline. Texts of five octets hold two words with
blanks on every side, or a partial occurrence that overlaps a whole one; bounds run
past every length.

Paths of one to three nodes with `MAX_HOPS = 2`: the destination before, at and
beyond the last hop. `TIMEOUT = 2` and `MAXDELAY = 1`: the least time-out longer than
a delay that is not 0, so that answers and time-outs race; `slow_network` turns
it round. Six cells hold two texts of two octets and every overlap of three; the
values are NUL, one positive and one negative char (`HALF = 2`), and the ints
given go up to the octet of the negative one. `UINT = 8`, more than memory has
cells, as a `size_t` has: a length that wraps is none of a call's. `INT_MAX = 511` keeps the shape of
the int range (a last square, an `INT_MIN` whose negation wraps, three digits), and
every int of it is tried; dumps go past the end of a row of 4 and one of 16. Four
elements make every list of up to four and a mapped copy of two; addresses are
symmetric, as are the two lists.

**Fairness.** `FairSpec` adds weak fairness of the program's steps: the process
is scheduled and its system calls return. `recvfrom` does because `create_socket`
sets `SO_RCVTIMEO` (the result of `setsockopt` is not tested, so this is an
assumption); a signal interrupts it as well. Nothing is assumed of the network
or of signals.

`FairNetSpec` does not assume that `recvfrom` returns: it adds that time passes
and that the network keeps its promise (an answer due is delivered or lost), and
a wait ends because its ticks are up. `TimedTermination` is stated from the moment
`timed` holds; where `setsockopt` failed a lost answer leaves the program waiting.

In `LibftMemory` the loop under way is executed. In `GetNextLine` the same: a call's reads are executed and return; nothing is
assumed of the caller.

Deadlock is checked everywhere: a process that ended or crashed stays so by an
explicit step.

## 4. Proofs

`TracerouteProofs` proves, for every `MAX_HOPS` from 1 to 255, every set of
addresses, every set of messages and every buffer size, all properties of the
run `trace`. None is inductive. The strengthening comes in four layers, each
preserved by every action given the layers before it:

1. `IndA` = `TypeOK`, `HopRange` (what the control point says of `ttl`, `index`
   and `networkIp`) and `PacketInv` (the packets are exactly the three probes of
   this hop, or of the one before at the loop test). `MAX_HOPS <= 255` enters
   here: the ttl field and the ports do not wrap.
2. `ReplyInv`: which entries of `retpack`, `resIps`, `resDns` and `probeTimes`
   are set, below and above the loop index. It yields `NoFault`: the guard
   `recieved[index-1]` implies a stored address.
3. `LineInv`: what is printed for each probe below the index reads back. The
   lemmas `ReadsAsStable`, `ReadsAsLast` and `ReadsAsRepeat` say how reading
   behaves when one more probe is printed.
4. `ArrivalInv`: the loop runs on only while the destination is not on the
   line, and in UDP mode stops only if it is. The early return of `print_route`
   is sound because it adds no address to the line.

It proves `Spec => ImplementsRouteTrace` as well, from the invariants
above and one more, `LineShape`: the first token of a line is never a bare time
and an address token names an address, so that `TokenRead` always finds one. The
lemma `ArrivedSeen` says that the destination is among the results read exactly
when the line names it. Printing a
probe is the only step that needs work (`ShowStep`): the new token changes
the reading of its own probe and of no other.

`TracerouteNetProofs` proves `NetSpec => Spec`, so all of the above holds on the
network, and, for `MAXDELAY < TIMEOUT`, every path and every `MAX_HOPS`, the
invariants of the run `net`. `NetInv` has four parts. `NetTypes`: an answer's age
is at most `MAXDELAY`. `Transit`: outside a wait nothing is under way, and in a
wait only the answer to the probe waited for, no younger than the wait; so when
the time is up (`timer = TIMEOUT`) it can no longer be under way, which is the one
use of `MAXDELAY < TIMEOUT`. `Replied`: what is kept for a probe answers it.
`Arrived`: a stop no signal asked for has a reply of the destination behind it,
and the line shows it at the end of the hop (by `LineInv`). All but `NetTypes` speak
of runs no signal interrupted: a signal ends a wait early, and its answer comes late.

`ParsingProofs` proves the properties of the run `parse` for every set of
arguments, every `ARGC_MAX` and every `INT_RANGE` above 130000. `FirstFlag` is
the only use of CHOOSE; `AtoiInt` is all that is needed of `ft_atoi`.

`IcmpChecksumProofs` proves the four properties of the run `icmp_checksum` for
every `OCTET` above 1 and every message, even or odd. `SumBound`, that the sum is at
most `WORD - 1` for each word read, is inductive and gives that no addition wraps
(`AddFits`); with it `HostInv` follows: the sum is the unreduced one, which is
`SumFits`. `FoldComplement` does the arithmetic of the two foldings. `ChecksumVerifies` compares a machine
that reads little-endian words with a receiver that reads big-endian ones. Swapping the
octets of a word is multiplication by `OCTET` modulo `WORD - 1`, so the two sums
agree modulo `WORD - 1` up to that factor; `AgreeStep` adds one word. The
receiver's sum is a recursive function of the number of words. To reason about it
for every length the proof takes the least number of words where the claim fails
(`LeastNat`: a set of naturals that is not empty has a least member, by the
library's `WFMin`) and unfolds the function once there.

`GetNextLineProofs` proves `TypeOK`, `NothingKept` and the refinement of
`LineReader` for every set of descriptors, every text and every `BUFF_SIZE`. The
strengthening is `KeptInv`: the loop runs only while the text kept holds no line,
and a text is kept only for a descriptor whose last call returned 1 or is under
way. `EolConcat`, that the first line of a text is the first line of every
longer one, is why what is not read yet does not matter.

`LibftMemoryProofs` proves the four safety properties of the run `libft_memory` for every
size of memory, every contents, every function given to the maps and every set of
calls; `Init` picks calls that keep `Contract`, and nothing else is assumed of the
caller. The properties speak of the return and are not inductive. The invariant
`IInv` says what memory is during the loop: what it was at the call (`old`) with the
offsets `Done` of the promised image written over it. `Done` is `Written`, which depends
on the counters (a prefix, the suffix from `rest` on when `ft_memmove` runs down, the
appended part for the `ft_str*cat`), and the whole image at the return. `CInv` says what
the lengths counted down are worth at the head of the loop: what is left to do, and
for `ft_strnew` after its last cell `UINT - 1`. So no decrement wraps but that one and
`ft_memcmp`'s last (`DownIs`, `StrnewEnds`), and `rest # 0` is the same as a turn to do. `Promised` keeps these
offsets within the image and the image within memory, which is `WritesInTarget`;
`At` says how far the counters are and what the turns before found, which the
searches and comparisons need. A copy between overlapping blocks is right because what
the loop reads next is not yet written over; that is the one place where the
direction of `ft_memmove` enters. `Wrote`, `Skipped`, `Left`, `AllWritten` and
`WroteLast` are the steps all loops share; each function then has a lemma.

`LibftListsProofs` proves `ListsOwnHeap` and `CallbacksInOrder` for every finite
heap, every number of list variables, every set of contents and every function
given to `lstiter` and `lstmap`. Both properties speak of whole lists, as
`ListFrom` reads them, and neither is inductive: one assignment to a `next` says
nothing of a list it is in the middle of. The invariant `IInv` speaks of one link at a
time. `Forest` says that no two links lead to one element, none leads to the
start of a list (`Roots`: the list variables, the element not added yet, what
`lstmap`'s frames hold), and that every set of elements has one that is a
start or that an element outside the set leads to, which is what rules out a cycle.
Elements lost behind `ft_lstdelone` leave the forest as freed ones do
(`ForestDropList`).
`ForestNew`, `ForestLink`, `ForestDropFirst` and `ForestDropLast` show that what the
functions do to the links keeps it. `HeapInvOwns` leads back from links to lists:
a walk along a forest meets no element twice (`WalkInForest`), so it ends within
the size of the heap, and two walks from different starts never meet
(`WalkApart`). During a call `CallInv` says that the frames are the first
elements of the list the call was given, which of them had their call, what is
left of the list or already rewritten, and how far the chain of `lstmap`'s
copies is linked; when the first frame returns it becomes `CallbacksInOrder`.
Nothing is claimed after `segv`, where `ft_lstdel` of an empty list and
`ft_lstmap` without memory really end. Assumed is `HeapAssumption`: memory is finite, and no
address is at once an element and a content, as two blocks of `malloc` are not.

`LibftTextProofs` proves the six properties of the run `libft_text` for every set of
calls that keep their contract (`LegalCall`, `LegalNumberCall`), texts of every length,
every `BASE` from 2 and every width of int. The invariant is `Called`: the call is
legal and what it returned is what its function computes. What is hard is behind it,
the recursion each function is. A recursive definition says nothing until the function
is shown to exist: `RecursionUp`, `RecursionDown` and `RecursionNat` show it for a
function that counts up, down, or without end, from the partial functions that
satisfy the equation so far, and `UpTo` is induction as a statement about a set (from
`LeastNat`). With these:

* `FindsFirst`: `ComparesAll` and `SearchesFirst` are the two loops of `ft_strstr` and
  `ft_strnstr`; `DoesItWork` and `OccursIff` relate the octets compared, the NUL
  among them, to an occurrence that ends within the bound; one that ends past it is
  passed over like any other difference.
* `SplitsIntoWords`: `ft_countword` counts offsets by looking at pairs of octets, the
  copying loop turns that many times and looks for whole words. `SplitTurn` shows that a
  turn finds the one word that begins at the next offset counted, `SplitGoesOn` that
  after `i` turns the words are the `i` longest runs that end by then (`SplitAt`).
* `SqrtExact`: the squares below the bound fit an int, the one at `SQRT_MAX + 1` wraps
  and is compared all the same; whatever it compares to, the result is 0.
* `NumbersReadBack`: `ItoaDigits` shows that the value of the first digits `ft_itoa`
  puts is a quotient of the number, `PutnbrDigits` that `ft_putnbr` writes the same
  digits in the other order of evaluation, `CountOf` that neither has a leading 0.
  `AtoiOf` follows `ft_atoi` over blanks, sign and digits; a sum that grows past the
  int only stands for `INT_MIN`. `DecimalParts` is what `ft_strsplit` leaves of a
  decimal, an empty fraction included, and `ValueOfConcat` the value of whole and
  fraction side by side.
* `DumpsReadBack`: `OctetDigits` reads the digits of one octet, `Flattened` and
  `KeptConcat` take a dump apart into the octets' chunks, and `RowAdded` puts the digits of one
  more octet behind those before. What is left of the memory is read off the definitions.

Assumed there is that a blank is no letter and the NUL no octet of a text
(`OctetsAssumption`); that `MIN_HEAD` and `MIN_TAIL` are the digits of `INT_MIN`,
`SQRT_MAX` the root of the largest square and the signs no digits (`IntAssumption`); that a
dump's marks are no digits (`MarksAssumption`); and the contracts. For `ft_atoi` the
contract is blanks, a plus if the number is not negative, a number `ft_itoa` writes,
and then no digit; for `ft_atolf` two parts that are ints.

Assumed: the ASSUMEs of the modules, which TLC evaluates in the runs. Only
model-checked, besides what the runs expected to fail show, are `Termination`,
`TimedTermination`, `CallReturns` and `Returns`: liveness under fairness, and so out of
the provers' reach. Every invariant and every action property of a passing run is
proved.

## 5. Not modelled

* The constant octets of the packets, and elapsed milliseconds.
* Failure of `malloc`.
* Functions nothing calls: `manage_args`, `check_help_flag`, `print_interrupt`,
  `print_single_route`, `check_one_route`, `print_times`, `print_packet`,
  `get_milisec_precision`, `print_incorrect_args`.
* The output functions of libft (`ft_put*`, `ft_lstprint*`), which write their
  argument octet by octet and read no result, and its tests and conversions of one
  character, which compare it with constants. Two of these are wrong for every
  text (`ft_str_islower.c:23`, `ft_str_isupper.c:23` join two exclusive conditions
  with `&&`); it takes no model to see it.
* `convert_to_milliseconds`, one expression over doubles.

## 6. Plan

What is left is to widen the models rather than to prove more about them: failure of
`malloc` in `Traceroute` and in the text functions, NUL octets within the files of
`GetNextLine`, null pointers given to the functions of `LibftMemory`, and the octets of
the headers other than those the checksum covers.
