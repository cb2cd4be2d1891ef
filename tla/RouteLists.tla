----------------------------- MODULE RouteLists -----------------------------
(***************************************************************************)
(* Start and stop of a node as far as routes are concerned (run_node() of  *)
(* main.rs and the second half of ckr.rs).  Lists of networks are          *)
(* downloaded at every start into files that outlive the process; from     *)
(* these, and from the addresses of the peers, come the routes of the      *)
(* system, which are taken back at the end.  The process may end at any    *)
(* step, and come again with another configuration.                        *)
(*                                                                         *)
(* The lists are those of one key.  The name of a file has the number of   *)
(* its list, the mark of the list and the md5 sum of what was downloaded.  *)
(***************************************************************************)
EXTENDS Naturals, Sequences, FiniteSets, Maps

CONSTANTS Url,
          Content,   \* what a server may have; "bad" is none that expand_cidrs() accepts
          Configs,   \* what the node may be configured to
          Chance     \* bounds: how often the node starts, is hurt, and so on

ASSUME ListsAssumption ==
    /\ \A c \in Configs : Len(c.lists) \in Nat /\ c.enable \in BOOLEAN /\ c.table \in BOOLEAN
    /\ Chance \subseteq [boots : Nat, harm : Nat, changes : Nat, hurt : BOOLEAN]

VARIABLES config,   \* the configuration of the process
          server,   \* what is to be had under each URL
          disk,     \* routes_download/<pubkey>
          proc,     \* the process
          kernel,   \* the routes it has made
          stop,     \* the shutdown signal
          chance    \* what the bounds still allow
listVars == <<config, server, disk, proc, kernel, stop, chance>>

\* What a file may have in it that was not written to its end.
Torn == {"cut", "bad"}
File(slot, mark, md5, body) == [slot |-> slot, mark |-> mark, md5 |-> md5, body |-> body]

\* got: the lists downloaded by this process.
Process(pc) ==
    [pc |-> pc, slot |-> 1, got |-> <<>>, excluded |-> "unset", looking |-> FALSE,
     spoiled |-> FALSE, orderly |-> FALSE]
NoRoutes == [lists |-> {}, overlay |-> FALSE, local |-> FALSE]
Use(what) == chance[what] > 0 /\ chance' = [chance EXCEPT ![what] = @ - 1]
Hurt == chance.harm > 0 /\ chance' = [chance EXCEPT !.harm = @ - 1, !.hurt = TRUE]

ListsInit ==
    /\ config \in Configs
    /\ server \in [Url -> Content]
    /\ disk = {} /\ kernel = NoRoutes /\ stop = FALSE
    /\ proc = Process("off")
    /\ chance \in Chance

Boot ==
    /\ proc.pc = "off" /\ Use("boots")
    /\ config' \in Configs
    /\ proc' = Process("lists") /\ stop' = FALSE
    /\ UNCHANGED <<server, disk, kernel>>
Signal ==
    /\ proc.pc # "off" /\ ~stop
    /\ stop' = TRUE
    /\ UNCHANGED <<config, server, disk, proc, kernel, chance>>

(***************************************************************************)
(* download_route_lists().  Whatever fails on the disk is only logged.     *)
(***************************************************************************)
Fail(p) == Hurt /\ disk' = disk /\ proc' = [p EXCEPT !.spoiled = TRUE]
Attempt(files, done, failed) ==
    /\ \/ disk' = files /\ proc' = done /\ UNCHANGED chance
       \/ files # disk /\ Fail(failed)
    /\ UNCHANGED <<config, server, kernel, stop>>
At(pc) == [proc EXCEPT !.pc = pc]
NextSlot == [At("slot") EXCEPT !.slot = @ + 1]

\* Lists of the node itself are not followed.
Lists == IF config.key = "other" THEN config.lists ELSE <<>>

\* Files of lists that are no longer configured go.  Those of a key that is
\* not configured at all stay, unless there is no list for any key.
Stale ==
    CASE ~config.enable \/ stop -> {}
      [] config.enable /\ ~stop /\ config.key = "absent" /\ config.others -> {}
      [] OTHER -> {f \in disk : f.slot > Len(Lists)}
Clean ==
    /\ proc.pc = "lists"
    /\ LET on == At(IF config.enable /\ ~stop /\ Lists # <<>> THEN "slot" ELSE "peers")
       IN  Attempt(disk \ Stale, on, on)
\* The directory cannot be made.
CleanFails ==
    /\ proc.pc = "lists" /\ config.enable /\ ~stop
    /\ Lists # <<>> \/ config.others
    /\ Fail(At("peers"))
    /\ UNCHANGED <<config, server, kernel, stop>>

\* download_with_retries(): a body, or nothing after three attempts; the signal
\* is looked at before each.
Fetch ==
    /\ proc.pc = "slot"
    /\ IF stop \/ proc.slot > Len(Lists) THEN proc' = At("peers")
       ELSE \/ proc' = NextSlot
            \/ proc' = [At("old") EXCEPT !.got = Put(@, proc.slot, server[Lists[proc.slot].url])]
    /\ UNCHANGED <<config, server, disk, kernel, stop, chance>>

\* Mutant: what the list had before stays under another mark.
OldMarked(slot, md5) == {f \in disk : f.slot = slot /\ f.md5 # md5 /\ f.mark = Lists[slot].mark}

\* The files of the list with other contents.
Old(slot, md5) == {f \in disk : f.slot = slot /\ f.md5 # md5}
RemoveOld ==
    /\ proc.pc = "old"
    /\ Attempt(disk \ Old(proc.slot, proc.got[proc.slot]), At("keep"), At("keep"))

\* A file with this content gets the mark of the list by being renamed; without
\* one a file is created.
Keep ==
    /\ proc.pc = "keep"
    /\ LET md5 == proc.got[proc.slot]
           mark == Lists[proc.slot].mark
           same == {f \in disk : f.slot = proc.slot /\ f.md5 = md5}
       IN  IF same # {}
           THEN Attempt((disk \ same) \cup {[f EXCEPT !.mark = mark] : f \in same}, NextSlot, NextSlot)
           ELSE \E torn \in Torn : Attempt(disk \cup {File(proc.slot, mark, md5, torn)}, At("write"), NextSlot)
WriteBody ==
    /\ proc.pc = "write"
    /\ LET md5 == proc.got[proc.slot]
           made == {f \in disk : f.slot = proc.slot /\ f.md5 = md5}
       IN  Attempt((disk \ made) \cup {[f EXCEPT !.body = md5] : f \in made}, NextSlot, NextSlot)

(***************************************************************************)
(* prepare_peer_exclusions(): the addresses of all the peers, or of those  *)
(* whose names can be resolved.                                            *)
(***************************************************************************)
Prepare ==
    /\ proc.pc = "peers"
    /\ \E e \in IF stop THEN {"unset"}
                ELSE IF config.key = "absent" /\ ~config.others THEN {"none"} ELSE {"all", "some"} :
           proc' = [At("start") EXCEPT !.excluded = e]
    /\ UNCHANGED <<config, server, disk, kernel, stop, chance>>

(***************************************************************************)
(* The rest of run_node(): the table and the routes, unless the node is to *)
(* stop already; and the way back.                                         *)
(***************************************************************************)
\* get_downloaded_virtual_file_entries(), as used by CryptoKey::new() (unmarked
\* is "_") and by install_routes() and remove_routes() ("~").
Entries(unmarked) ==
    IF config.key # "other" THEN {}
    ELSE {[slot |-> f.slot, mark |-> f.mark, body |-> f.body, excluded |-> proc.excluded] :
          f \in {g \in disk : g.mark # unmarked}}
Refused(unmarked) == \E e \in Entries(unmarked) : e.body = "bad"
SystemLists ==
    IF config.enable /\ config.install /\ ~Refused("~") THEN Entries("~") ELSE {}

\* The process is gone, and with it the TUN and the routes into it.
Gone ==
    /\ proc' = Process("off")
    /\ kernel' = [NoRoutes EXCEPT !.local = kernel.local]

\* install_overlay_route(), which may fail, when the routes have a table of their own.
OverlayRoute == {config.table, FALSE}

\* The rule that leads to this table (ensure_linux_ip_rule()) stays for good.
StartUp ==
    /\ proc.pc = "start"
    /\ \/ /\ stop
          /\ proc' = At("up") /\ UNCHANGED kernel
       \/ /\ ~stop /\ config.enable /\ Refused("_")
          /\ Gone
       \/ /\ ~stop /\ ~(config.enable /\ Refused("_"))
          /\ \E o \in OverlayRoute :
                 kernel' = [lists |-> SystemLists, overlay |-> o, local |-> kernel.local]
          /\ proc' = [At("up") EXCEPT !.looking = config.table]
    /\ UNCHANGED <<config, server, disk, stop, chance>>

\* install_local_subnet_route_with_retries(), a task: the route is made when
\* the LAN interface is there, or the task gives up.
LookForLan ==
    /\ proc.looking
    /\ proc' = [proc EXCEPT !.looking = FALSE]
    /\ \E l \in {TRUE, kernel.local} : kernel' = [kernel EXCEPT !.local = l]
    /\ UNCHANGED <<config, server, disk, stop, chance>>

Stop ==
    /\ proc.pc = "up" /\ stop
    /\ proc' = [Process("off") EXCEPT !.orderly = TRUE]
    /\ kernel' = [lists |-> kernel.lists \ SystemLists,
                  overlay |-> kernel.overlay /\ ~config.table,
                  local |-> kernel.local /\ ~config.table]
    /\ UNCHANGED <<config, server, disk, stop, chance>>

Crash ==
    /\ proc.pc # "off" /\ Hurt
    /\ Gone
    /\ UNCHANGED <<config, server, disk, stop>>

Publish ==
    /\ Use("changes")
    /\ \E u \in Url, c \in Content : server' = [server EXCEPT ![u] = c]
    /\ UNCHANGED <<config, disk, proc, kernel, stop>>

ListsNext ==
    \/ Boot \/ Signal \/ Clean \/ CleanFails \/ Fetch \/ RemoveOld \/ Keep \/ WriteBody \/ Prepare
    \/ StartUp \/ LookForLan \/ Stop \/ Crash \/ Publish

ListsSpec == ListsInit /\ [][ListsNext]_listVars

\* However starts, configurations, crashes and failures follow each other, no
\* list has two files with the same content ("at most one such file can exist",
\* download_route_lists()).  A node that has come up, with all it did on the
\* disk done, follows no list beyond those configured, and of a list that it
\* has downloaded exactly the new content with the mark configured; but a file
\* that a crash or a full disk cut short is never written again.  Nothing that
\* an orderly end should take back is left of the routes.
ListsFollowed ==
    /\ \A f, g \in disk : f.slot = g.slot /\ f.md5 = g.md5 => f = g
    /\ proc.pc = "up" /\ ~stop /\ ~proc.spoiled =>
          /\ \A e \in kernel.lists : e.slot <= Len(Lists)
          /\ \A i \in DOMAIN proc.got : \E f \in disk :
                 /\ {g \in disk : g.slot = i} = {f}
                 /\ f.mark = Lists[i].mark /\ f.md5 = proc.got[i]
                 /\ f.body = f.md5 \/ (f.body \in Torn /\ chance.hurt)
    /\ proc.pc = "off" /\ proc.orderly =>
          kernel.lists = {} /\ ~kernel.overlay /\ (config.table => ~kernel.local)
=============================================================================
