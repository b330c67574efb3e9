------------------------------ MODULE Objects ------------------------------
(***************************************************************************)
(* Objects shared by counting: object_impl and the cobject macros under    *)
(* smart pointers of several threads, library_repository_impl, and         *)
(* dns_backup_impl behind the name resolver.  A behaviour is about one of  *)
(* them.                                                                   *)
(***************************************************************************)
EXTENDS Integers, Sequences, FiniteSets, SequencesExt, TLC

CONSTANTS PointerThreads,   \* threads that hold pointers
          MaxShared,        \* bound on objects
          MaxObjectCalls,   \* bound on calls
          SharesCObjects    \* FALSE: a cobject stays with one thread

VARIABLES k_part,    \* "object", "cobject", "repository" or "backup"
          k_now,     \* its state
          k_log,     \* the calls on the repository or the backup
          k_calls

objectVars == <<k_part, k_now, k_log, k_calls>>

Call(parts) ==
  k_part \in parts /\ k_calls < MaxObjectCalls /\ k_calls' = k_calls + 1 /\ UNCHANGED k_part

-----------------------------------------------------------------------------
(* Pointers.  px: what a thread's pointers refer to, 0 for none; refs: the *)
(* count of each object; deleted: how often it was deleted; temp: the      *)
(* temporary of an assignment that a thread is destroying, with what its   *)
(* release has read of the count.                                          *)

Slots  == {1, 2}
Unread == -1
NoTemp == [object |-> 0, count |-> Unread]

\* [lang/cobject_ptr.hpp 25-27 cobject_ptr::cobject_ptr]
NewPointers ==
  [px |-> [t \in PointerThreads |-> [s \in Slots |-> 0]], refs |-> <<>>, deleted |-> <<>>,
   temp |-> [t \in PointerThreads |-> NoTemp]]

\* [lang/object_impl.hpp 23-28 object_impl::add_reference]
add_reference(refs, o) == IF o = 0 THEN refs ELSE [refs EXCEPT ![o] = @ + 1]

Pointing(t) == Call({"object", "cobject"}) /\ k_now.temp[t] = NoTemp /\ UNCHANGED k_log

\* [lang/cobject_ptr.hpp 29-53 cobject_ptr::cobject_ptr]
\* A temporary takes the object and a reference, changes places with the
\* pointer, and is left to be destroyed with what the pointer referred to.
Assigned(now, t, s, o) ==
  [now EXCEPT !.refs = add_reference(@, o), !.px[t][s] = o,
              !.temp[t] = [NoTemp EXCEPT !.object = now.px[t][s]]]

\* [lang/cobject_ptr.hpp 88-98 cobject_ptr::operator=]
assign(t, s, r) == Pointing(t) /\ k_now' = Assigned(k_now, t, s, k_now.px[t][r])

\* [lang/object_impl.hpp 53-67 object_impl::create]
\* An object begins with no reference.
assign_new(t, s) ==
  /\ Pointing(t) /\ Len(k_now.refs) < MaxShared
  /\ LET made == [k_now EXCEPT !.refs = Append(@, 0), !.deleted = Append(@, 0)]
     IN  k_now' = Assigned(made, t, s, Len(made.refs))

\* [lang/cobject_ptr.hpp 100-108 cobject_ptr::reset]
reset(t, s) == Pointing(t) /\ k_now.px[t][s] # 0 /\ k_now' = Assigned(k_now, t, s, 0)

\* [lang/cobject_ptr.hpp 72-86 cobject_ptr::operator=]
\* The source is emptied before the places are changed: a pointer moved onto
\* itself keeps its object.
move(t, s, r) ==
  /\ Pointing(t)
  /\ LET emptied == [k_now.px[t] EXCEPT ![r] = 0]
     IN  k_now' = [k_now EXCEPT !.px[t] = [emptied EXCEPT ![s] = k_now.px[t][r]],
                                !.temp[t] = [NoTemp EXCEPT !.object = emptied[s]]]

\* [lang/object_impl.hpp 44-51 object_impl::self]
\* A copy that goes to another thread, in a handler that is posted to it.
hand_over(t, s, u, r) ==
  /\ Pointing(t) /\ u # t /\ k_now.px[t][s] # 0 /\ k_now.px[u][r] = 0
  /\ k_part = "object" \/ SharesCObjects
  /\ k_now' = [k_now EXCEPT !.refs = add_reference(@, k_now.px[t][s]), !.px[u][r] = k_now.px[t][s]]

\* [lang/cobject_ptr.hpp 55-59 cobject_ptr::~cobject_ptr]
Destroying(t) ==
  k_part \in {"object", "cobject"} /\ k_now.temp[t].object # 0 /\ UNCHANGED <<k_part, k_log, k_calls>>

\* [lang/object_impl.hpp 29-38 object_impl::release_reference]
\* The count is what the decrement itself returned.
release_reference(t) ==
  /\ k_part = "object" /\ Destroying(t) /\ k_now.temp[t].count = Unread
  /\ LET o == k_now.temp[t].object
     IN  k_now' = [k_now EXCEPT !.refs[o] = @ - 1, !.temp[t].count = k_now.refs[o] - 1]

\* [lang/cobject_impl.hpp 39-44 XUL_IMPLENEBT_COBJECT_REF]
\* The count is read again after the decrement.
cobject_release_ref(t) ==
  /\ k_part = "cobject" /\ Destroying(t) /\ k_now.temp[t].count = Unread
  /\ k_now' = [k_now EXCEPT !.refs[k_now.temp[t].object] = @ - 1, !.temp[t].count = 0]

\* A mutant: the count of an object, too, is read again after the decrement.
delete_last_read_again(t) ==
  /\ Destroying(t) /\ k_now.temp[t].count # Unread
  /\ LET o == k_now.temp[t].object
     IN  k_now' = [k_now EXCEPT !.deleted[o] = IF k_now.refs[o] <= 0 THEN @ + 1 ELSE @, !.temp[t] = NoTemp]

\* [lang/cobject_impl.hpp 41-41 name##_release_ref]
\* The end of both releases: the object is deleted if the count is 0.
delete_last(t) ==
  /\ Destroying(t) /\ k_now.temp[t].count # Unread
  /\ LET o    == k_now.temp[t].object
         last == IF k_part = "object" THEN k_now.temp[t].count = 0 ELSE k_now.refs[o] <= 0
     IN  k_now' = [k_now EXCEPT !.deleted[o] = IF last THEN @ + 1 ELSE @, !.temp[t] = NoTemp]

-----------------------------------------------------------------------------
(* The repository.  A class_info is <<name, maker>>; a library_info is its *)
(* name with its classes.                                                  *)

ClassNames == {"timer", "socket"}
LibraryInfos ==
  {[name |-> n, classes |-> [i \in DOMAIN names |-> <<names[i], n>>]] :
     n \in {"net", "data"}, names \in {<<"timer">>, <<"timer", "socket">>}}

NewRepository == [classes |-> <<>>, libraries |-> <<>>]

\* [lib/detail/library_repository_impl.hpp 32-59 library_repository_impl::register_class]
\* A name that is taken is refused (and asserted not to be, in builds that
\* keep assertions).
register_class(classes, info) ==
  IF info[1] \in DOMAIN classes THEN classes ELSE (info[1] :> info) @@ classes

\* [lib/detail/library_info_impl.hpp 22-39 library_info_impl::register_classes]
register_classes(classes, infos) == FoldLeft(register_class, classes, infos)

add_class(info) ==
  /\ Call({"repository"})
  /\ k_now' = [k_now EXCEPT !.classes = register_class(@, info)]
  /\ k_log' = Append(k_log, info)

\* [lib/detail/library_repository_impl.hpp 60-88 library_repository_impl::register_library]
\* The classes of a library whose name is taken are not registered; those of
\* another one are, without those whose names are taken.
register_library(info) ==
  /\ Call({"repository"})
  /\ IF info.name \in DOMAIN k_now.libraries THEN UNCHANGED <<k_now, k_log>>
     ELSE /\ k_now' = [libraries |-> (info.name :> info) @@ k_now.libraries,
                       classes |-> register_classes(k_now.classes, info.classes)]
          /\ k_log' = k_log \o info.classes

\* [lib/detail/library_repository_impl.hpp 89-113 library_repository_impl::find_class]
find_class(name) == IF name \in DOMAIN k_now.classes THEN k_now.classes[name] ELSE <<name, "NULL">>

\* [lib/detail/library_repository_impl.hpp 114-138 library_repository_impl::find_library]
find_library(name) == IF name \in DOMAIN k_now.libraries THEN k_now.libraries[name].classes ELSE <<>>

-----------------------------------------------------------------------------
(* The backup of name resolution.  entries: the addresses of each host;    *)
(* told: the last result of a resolver.                                    *)

Hosts     == {"h1", "h2"}
Addresses == {1, 2}
Invalid   == 0        \* what a text that is no address is parsed to
Failure   == 11       \* an error of the resolver
NewBackup == [entries |-> <<>>, told |-> [host |-> "", err |-> 0, found |-> <<>>, addresses |-> <<>>]]

\* [net/detail/dns_backup_impl.hpp 66-83 dns_backup_impl::add_ipv4]
add_ipv4(entries, host, ip) ==
  IF host \in DOMAIN entries THEN [entries EXCEPT ![host] = Append(@, ip)] ELSE (host :> <<ip>>) @@ entries

\* [net/detail/dns_backup_impl.hpp 54-65 dns_backup_impl::add]
add(host, ip) ==
  /\ Call({"backup"})
  /\ k_now' = IF ip = Invalid THEN k_now ELSE [k_now EXCEPT !.entries = add_ipv4(@, host, ip)]
  /\ k_log' = IF ip = Invalid THEN k_log ELSE Append(k_log, <<"add", host, ip>>)

\* [net/detail/dns_backup_impl.hpp 42-53 dns_backup_impl::remove]
remove(host) ==
  /\ Call({"backup"})
  /\ k_now' = [k_now EXCEPT !.entries = [h \in DOMAIN @ \ {host} |-> @[h]]]
  /\ k_log' = Append(k_log, <<"remove", host, Invalid>>)

\* [net/detail/dns_backup_impl.hpp 37-41 dns_backup_impl::clear]
clear ==
  /\ Call({"backup"})
  /\ k_now' = [k_now EXCEPT !.entries = <<>>]
  /\ k_log' = Append(k_log, <<"clear", "", Invalid>>)

\* [net/detail/dns_backup_impl.hpp 84-95 dns_backup_impl::lookup]
lookup_host(host) == IF host \in DOMAIN k_now.entries THEN k_now.entries[host] ELSE <<>>

\* [libs/asio/asio_name_resolver.hpp 97-128 asio_name_resolver::handle_resolve]
\* The backup is asked when the resolver failed and when it found nothing.
handle_resolve(host, err, found) ==
  /\ Call({"backup"}) /\ UNCHANGED k_log
  /\ LET addresses == IF err # 0 \/ found = <<>> THEN lookup_host(host) ELSE found
         code      == IF addresses # <<>> THEN 0 ELSE IF err # 0 THEN err ELSE -1
     IN  k_now' = [k_now EXCEPT !.told = [host |-> host, err |-> code, found |-> found,
                                          addresses |-> addresses]]

-----------------------------------------------------------------------------
ObjectsInit ==
  /\ k_part \in {"object", "cobject", "repository", "backup"}
  /\ k_now = CASE k_part \in {"object", "cobject"} -> NewPointers
               [] k_part = "repository" -> NewRepository
               [] k_part = "backup" -> NewBackup
  /\ k_log = <<>> /\ k_calls = 0

PointersNext ==
  \E t \in PointerThreads :
    \/ \E s, r \in Slots : assign(t, s, r) \/ move(t, s, r)
    \/ \E s \in Slots : assign_new(t, s) \/ reset(t, s)
    \/ \E u \in PointerThreads, s, r \in Slots : hand_over(t, s, u, r)
    \/ release_reference(t) \/ cobject_release_ref(t) \/ delete_last(t)

ObjectsNext ==
  \/ k_part \in {"object", "cobject"} /\ PointersNext
  \/ \E n \in ClassNames, maker \in {"a", "b"} : add_class(<<n, maker>>)
  \/ \E info \in LibraryInfos : register_library(info)
  \/ \E host \in Hosts : remove(host) \/ \E ip \in Addresses \cup {Invalid} : add(host, ip)
  \/ clear
  \/ \E host \in Hosts : \E found \in {<<>>, <<2>>} : handle_resolve(host, 0, found)
  \/ \E host \in Hosts : handle_resolve(host, Failure, <<>>)

-----------------------------------------------------------------------------
(* Properties.                                                             *)

\* An object is deleted once, after the last of its pointers and by the thread
\* that released that one, whatever copies, moves and self-assignments the
\* threads make meanwhile (object_impl, cobject_ptr); nobody touches the count
\* of an object that is gone.  Two threads that release a cobject at the same
\* time may both read 0, so SharesCObjects is FALSE.
DeletedOnce ==
  k_part \in {"object", "cobject"} =>
    \A o \in DOMAIN k_now.refs :
      LET pointers == {p \in PointerThreads \X Slots : k_now.px[p[1]][p[2]] = o}
          leaving  == {t \in PointerThreads : k_now.temp[t].object = o}
          unread   == {t \in leaving : k_now.temp[t].count = Unread}
      IN  /\ k_now.deleted[o] <= 1
          /\ k_now.refs[o] = Cardinality(pointers) + Cardinality(unread)
          /\ k_now.deleted[o] = 1 => pointers = {} /\ unread = {} /\ (k_part = "cobject" => leaving = {})
          /\ pointers = {} /\ leaving = {} => k_now.deleted[o] = 1

\* A name means the class that was first registered under it, by itself or with
\* a library, however many libraries bring a class of that name later
\* (library_repository_impl); a library that is found has all its names there.
FirstRegistered ==
  k_part = "repository" =>
    /\ \A i \in DOMAIN k_log :
         (\A j \in 1 .. i - 1 : k_log[j][1] # k_log[i][1]) => find_class(k_log[i][1]) = k_log[i]
    /\ \A n \in {"net", "data"}, c \in ClassNames :
         (\E i \in DOMAIN find_library(n) : find_library(n)[i][1] = c) => find_class(c)[2] # "NULL"

\* A resolution is reported as good exactly when it names addresses: those the
\* resolver found, otherwise those added to the backup for that host since the
\* host was last removed, in order (asio_name_resolver, dns_backup_impl).
BackupAnswers ==
  k_part = "backup" =>
    LET kept(h) == SelectSeq([i \in DOMAIN k_log |-> i], LAMBDA i :
                     /\ k_log[i][1] = "add" /\ k_log[i][2] = h
                     /\ \A j \in i .. Len(k_log) : k_log[j][1] # "clear" /\ k_log[j] # <<"remove", h, Invalid>>)
    IN  /\ \A h \in Hosts : lookup_host(h) = [i \in DOMAIN kept(h) |-> k_log[kept(h)[i]][3]]
        /\ k_now.told.host # "" => (k_now.told.err = 0 <=> k_now.told.addresses # <<>>)
        /\ k_now.told.found # <<>> => k_now.told.addresses = k_now.told.found
=============================================================================
