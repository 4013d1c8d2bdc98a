---------------------------- MODULE PluginSources ----------------------------
(***************************************************************************)
(* Where plugins and themes come from and what the dashboard says of them: *)
(* the plugin sources and their catalogs (src/plugins/sources.py,          *)
(* src/api/routes/plugin_source_routes.py), what a download must be to be  *)
(* installed (src/plugins/{manifest,installer}.py), themes                 *)
(* (src/api/theme_{registry,store}.py, routes/theme_routes.py) and the     *)
(* dependency probes and setup scripts (routes/plugin_routes.py,           *)
(* src/plugins/loader.py).  Module Plugins has the moves of an             *)
(* installation and what is enabled.  A request is one step of the event   *)
(* loop, but for the update check, the download and the probes of all      *)
(* plugins, which run in threads, and a setup script, a process.           *)
(***************************************************************************)
EXTENDS Integers, Sequences, FiniteSets

CONSTANTS
    Urls,          \* repositories
    Commits,       \* the commits of each, oldest first: a sequence
    OtherBranch,   \* a branch beside main, at the first commit
    Smuggled,      \* a ref with a ".." segment ...
    Elsewhere,     \* ... and the repository it would lead to
    Ids,           \* ids of apps and themes
    ThemeIds,      \* those of themes
    Builtin,       \* ids shipped inside the program
    Catalogs,      \* repo.json by repository and commit: a sequence of entries
    Trees,         \* the folders by repository, commit and id
    Shipped,       \* the drop-in folders that came with the program
    PLUGIN_API_VERSION,
    Ttl,           \* _CATALOG_CACHE_TTL_SECONDS, in ticks
    Focuses,       \* bound: the pages of the dashboard a behaviour works on
    Checks,        \* the timer's update check and the one of the button
    MaxClock, MaxRequests, MaxMoves, MaxBoots, MaxRefusals  \* bounds

VARIABLES
    focus, enabled,  \* the bound; plugin_sources_enabled
    head,          \* the commit main is at, in each repository
    sources,       \* config.plugin_sources: [ref, from] by url
    sourcesDisk,   \* the same in local.yaml
    cache,         \* _catalog_cache: [until, at] by url and ref
    badge,         \* _last_plugin_check
    check,         \* where each update check is
    install,       \* the installation under way
    folder,        \* what is in plugins/apps/<id> or plugins/themes/<id>
    prov,          \* plugins.<id>.source
    default, defaultDisk,  \* config.dashboard.theme
    deps,          \* ids whose system packages are there
    verdict,       \* what the plugins page says of that
    batch,         \* the probes of all plugins, under way
    lock, scripts, \* _setup_lock; the setup scripts that run
    clock, requests, moves, boots, refusals,
    \* history: repositories whose addition was confirmed and not revoked;
    \* the branch a source followed last; ids installed from elsewhere; when each commit left main; the
    \* update checks something changed or failed under; the outcome of the last probe;
    \* plugins whose verdict an older probe replaced; scripts whose browser
    \* went away; themes chosen as the
    \* default since they were put there; whether a save failed
    trusted, branch, foreign, left, disturbed, probed, crossed, unwatched,
    chosen, unsaved

shelf == << sources, sourcesDisk, trusted, branch >>
updates == << cache, badge, check, disturbed >>
disk == << install, folder, prov, foreign >>
looks == << default, defaultDisk, chosen >>
setup == << deps, verdict, batch, lock, scripts, probed, crossed,
            unwatched >>
repos == << head, left, moves >>
bounds == << clock, requests, boots >>
vars == << focus, enabled, head, sources, sourcesDisk, cache, badge, check,
           install, folder, prov, default, defaultDisk, deps, verdict, batch,
           lock, scripts, clock, requests, moves, boots, refusals, trusted,
           branch, foreign, left, disturbed, probed, crossed, unwatched, chosen,
           unsaved >>

None == "none"
Main == "main"
DEFAULT_THEME_ID == "dark"
NoSource == [ref |-> None, from |-> None]
NoFolder == [url |-> None, commit |-> None]
AsShipped == [url |-> "shipped", commit |-> None]
Built == [url |-> "builder", commit |-> None]
NoProv == [url |-> None, ref |-> None, version |-> None, commit |-> None]
Uncached == [until |-> 0, url |-> None, commit |-> None]
NoCheck == [at |-> "idle", index |-> [i \in Ids |-> None],
            todo |-> [u \in Urls |-> None], force |-> FALSE, url |-> None,
            answer |-> Uncached, found |-> {}]
NoInstall == [at |-> "idle", url |-> None, ref |-> None, id |-> None,
              version |-> None, commit |-> None, by |-> {}]
NoBatch == [on |-> FALSE, seen |-> << >>]

CommitSet == {Commits[n] : n \in 1 .. Len(Commits)}
Refs == {Main, OtherBranch, Smuggled} \cup CommitSet
Apps == Ids \ ThemeIds
Pinned(ref) == ref \in CommitSet

-----------------------------------------------------------------------------
(* Catalogs.                                                               *)

(* A variant of the next definition with a slip: any text is a ref.        *)
AnyTextIsRef(ref) == ref # None

(* normalise_ref: a branch, a tag or a commit, and no way out of the       *)
(* repository.                                                             *)
NormaliseRef(ref) == ref # Smuggled

(* What the URL made of repository and ref leads to.                       *)
Resolve(u, ref) ==
    IF ref = Smuggled THEN [url |-> Elsewhere, commit |-> head[Elsewhere]]
    ELSE [url |-> u,
          commit |-> CASE ref = Main -> head[u]
                       [] ref = OtherBranch -> Commits[1]
                       [] OTHER -> ref]

(* _entry: a known id at the one path its kind and id allow, with a        *)
(* version, for some version of the interface.                             *)
EntryOk(e) ==
    /\ e.id \in Ids
    /\ e.path = << IF e.kind = "theme" THEN "themes" ELSE "apps", e.id >>
    /\ e.version # "" /\ e.api >= 1

(* parse_catalog: one bad entry, or one id twice, and none is offered.     *)
CatalogOk(entries) ==
    /\ \A n \in 1 .. Len(entries) : EntryOk(entries[n])
    /\ \A n, k \in 1 .. Len(entries) :
          entries[n].id = entries[k].id => n = k

Readable(at) == CatalogOk(Catalogs[at.url][at.commit])

(* fetch_catalog.                                                          *)
Offers(at) ==
    IF Readable(at) THEN {Catalogs[at.url][at.commit][n] :
                            n \in 1 .. Len(Catalogs[at.url][at.commit])}
    ELSE {}

Compatible(e) == e.api <= PLUGIN_API_VERSION

(* _get_catalog_cached: an entry younger than the limit, or the catalog as *)
(* it is now, with the time from before it was fetched.                    *)
GetCatalogCached(u, ref, force) ==
    LET hit == cache[u][ref]
    IN  IF ~force /\ clock < hit.until THEN hit
        ELSE [until |-> clock + Ttl, url |-> Resolve(u, ref).url,
              commit |-> Resolve(u, ref).commit]

-----------------------------------------------------------------------------
(* Manifests.                                                              *)

KNOWN_PROVIDES == {"listener", "routes", "panel", "sidebar", "hook",
                   "capture", "protocol", "topbar", "service"}
KNOWN_SIDEBAR_CATEGORIES ==
    {"top", "networks", "radio", "ops", "configuration", "settings"}

(* [sidebar] and [hook] are there exactly when they are declared.          *)
SidebarOk(m) ==
    IF "sidebar" \in m.provides THEN m.sidebar \in KNOWN_SIDEBAR_CATEGORIES
    ELSE m.sidebar = None

HookOk(m) == ("hook" \in m.provides) <=> (m.hook # None)

RequiresOk(m) == m.requires # m.name

(* _rel_paths: files of the plugin itself, that exist.                     *)
FilesOk(m) == m.scripts \subseteq m.files

(* parse_manifest, of the plugin.toml in a folder of this name.            *)
ManifestOk(m, name) ==
    /\ m.name = name /\ m.version # ""
    /\ m.api >= 1 /\ m.api <= PLUGIN_API_VERSION
    /\ m.provides # {} /\ m.provides \subseteq KNOWN_PROVIDES
    /\ {m.setup, m.check} \subseteq m.files \cup {None}
    /\ FilesOk(m)
    /\ m.provides \cap {"panel", "sidebar", "hook", "topbar"} # {}
          => m.scripts # {}
    /\ SidebarOk(m) /\ HookOk(m) /\ RequiresOk(m)

(* validate_staged_app refuses the flag of the plugins shipped with the    *)
(* program; validate_staged_theme wants both files and a matching id.      *)
StagedOk(id, m) ==
    IF id \in ThemeIds
    THEN {"theme.json", "theme.css"} \subseteq m.files /\ m.name = id
    ELSE ManifestOk(m, id) /\ ~m.locked

Manifest(id, f) ==
    IF f.url \in Urls THEN Trees[f.url][f.commit][id] ELSE Shipped[id]

(* discover_plugins: what a scan accepts; a built-in id hides a drop-in.   *)
Found(id) ==
    \/ id \in Builtin
    \/ folder[id] # NoFolder /\ ManifestOk(Manifest(id, folder[id]), id)

(* run_plugin_index: the entries the tool writes into a repository's       *)
(* repo.json.                                                              *)
Index(u, c) ==
    {[id |-> i, kind |-> IF i \in ThemeIds THEN "theme" ELSE "app",
      path |-> << IF i \in ThemeIds THEN "themes" ELSE "apps", i >>,
      version |-> Trees[u][c][i].version,
      api |-> IF i \in ThemeIds THEN 1 ELSE Trees[u][c][i].api] :
        i \in {j \in Ids : IF j \in ThemeIds THEN Trees[u][c][j].name = j
                           ELSE ManifestOk(Trees[u][c][j], j)}}

(* scan_themes: where the theme shown under an id comes from.              *)
ThemeSource(id) ==
    CASE id \in Builtin \cup {DEFAULT_THEME_ID} -> "builtin"
      [] id \in ThemeIds /\ folder[id] # NoFolder -> "plugin"
      [] OTHER -> None

ThemeIdsFound ==
    {DEFAULT_THEME_ID} \cup {t \in ThemeIds : ThemeSource(t) # None}

CurrentDefault ==
    IF default \in ThemeIdsFound THEN default ELSE DEFAULT_THEME_ID

(* _installed_index: an app's version is in its manifest, a theme's only   *)
(* in its provenance.                                                      *)
InstalledIndex ==
    [id \in Ids |->
        CASE id \in Apps \cap Builtin -> "program"
          [] id \in Apps \ Builtin /\ Found(id) ->
                Manifest(id, folder[id]).version
          [] id \in ThemeIds /\ ThemeSource(id) # None -> prov[id].version
          [] OTHER -> None]

-----------------------------------------------------------------------------
Init ==
    /\ focus \in Focuses /\ enabled \in BOOLEAN
    /\ head = [u \in Urls |-> Commits[1]]
    /\ \E on \in SUBSET (Urls \ {Elsewhere}), ref \in {Main, Smuggled} :
          /\ sources = [u \in Urls |->
                IF u \in on THEN [ref |-> ref, from |-> None] ELSE NoSource]
          /\ trusted = on
          /\ branch = [u \in Urls |-> sources[u].ref]
    /\ sourcesDisk = sources
    /\ cache = [u \in Urls |-> [r \in Refs |-> Uncached]]
    /\ badge = {None} /\ check = [k \in Checks |-> NoCheck]
    /\ install = NoInstall
    /\ folder = [i \in Ids |->
          IF Shipped[i].name # None THEN AsShipped ELSE NoFolder]
    /\ prov = [i \in Ids |-> NoProv]
    /\ default = DEFAULT_THEME_ID /\ defaultDisk = DEFAULT_THEME_ID
    /\ deps = {} /\ verdict = [i \in Apps |-> FALSE] /\ batch = NoBatch
    /\ lock = None /\ scripts = {}
    /\ clock = 0 /\ requests = 0 /\ moves = 0 /\ boots = 0 /\ refusals = 0
    /\ left = [u \in Urls |-> [c \in CommitSet |-> MaxClock + 1]]
    /\ foreign = {} /\ disturbed = {} /\ unwatched = {}
    /\ probed = [i \in Apps |-> FALSE] /\ crossed = {}
    /\ chosen = {DEFAULT_THEME_ID} /\ unsaved = FALSE

Request(page) ==
    /\ focus \in page /\ requests < MaxRequests /\ requests' = requests + 1
    /\ UNCHANGED << focus, enabled, clock, boots >>

(* local.yaml can be written, or not.                                      *)
Save(ok) ==
    /\ ok \/ refusals < MaxRefusals
    /\ refusals' = IF ok THEN refusals ELSE refusals + 1
    /\ unsaved' = (unsaved \/ ~ok)

Running == {k \in Checks : check[k].at # "idle"}

(* _persist: memory first, then the file; a refused save (403) leaves      *)
(* memory changed.                                                         *)
Persist(new, saved) ==
    /\ Save(saved)
    /\ sources' = new
    /\ sourcesDisk' = IF saved THEN new ELSE sourcesDisk
    /\ disturbed' = disturbed \cup Running
    /\ UNCHANGED << cache, badge, check, disk, looks, setup, repos >>

(* add_source: the switch is on, the addition is confirmed, and it is not  *)
(* one already.  The ref is stored as it came.                             *)
AddSource(u, ref, confirm, saved) ==
    /\ Request({"sources"})
    /\ enabled /\ confirm /\ sources[u] = NoSource
    /\ Persist([sources EXCEPT ![u] = [ref |-> ref, from |-> None]], saved)
    /\ trusted' = trusted \cup {u}
    /\ branch' = [branch EXCEPT ![u] = IF Pinned(ref) THEN None ELSE ref]

(* remove_source.  What was installed from it stays.                       *)
RemoveSource(u, saved) ==
    /\ Request({"sources"})
    /\ sources[u] # NoSource
    /\ Persist([sources EXCEPT ![u] = NoSource], saved)
    /\ trusted' = IF saved THEN trusted \ {u} ELSE trusted
    /\ branch' = [branch EXCEPT ![u] = None]

(* repoint_source: pinning remembers the branch, pinning again keeps it,   *)
(* any branch forgets it.                                                  *)
RepointSource(u, ref, saved) ==
    LET s == sources[u]
        from == CASE Pinned(ref) /\ ~Pinned(s.ref) -> s.ref
                  [] Pinned(ref) /\ Pinned(s.ref) -> s.from
                  [] OTHER -> None
    IN  /\ Request({"sources"})
        /\ s # NoSource /\ NormaliseRef(ref) /\ ref # s.ref
        /\ Persist([sources EXCEPT ![u] = [ref |-> ref, from |-> from]],
                   saved)
        /\ branch' = [branch EXCEPT ![u] = IF Pinned(ref) THEN @ ELSE ref]
        /\ UNCHANGED trusted

(* source_catalog: the ref given, else the source's, else main; the whole  *)
(* of it on the event loop.                                                *)
Browse(u, given, force) ==
    LET ref == CASE given # None -> given
                 [] sources[u] # NoSource -> sources[u].ref
                 [] OTHER -> Main
        got == GetCatalogCached(u, ref, force)
    IN  /\ Request({"updates"})
        /\ NormaliseRef(ref) /\ Readable(got)
        /\ cache' = [cache EXCEPT ![u][ref] = got]
        /\ UNCHANGED << badge, check, disturbed, shelf, disk, looks, setup,
                        repos, refusals, unsaved >>

-----------------------------------------------------------------------------
(* The update check, in a thread: what is installed and the sources as     *)
(* they are when it starts, then one source after the other.               *)

CheckBegins(k, force) ==
    /\ focus = "updates" /\ enabled /\ check[k].at \in {"idle", "over"}
    /\ requests < MaxRequests /\ requests' = requests + 1
    /\ check' = [check EXCEPT ![k] = [NoCheck EXCEPT
          !.at = "next", !.index = InstalledIndex, !.force = force,
          !.todo = [u \in Urls |-> sources[u].ref]]]
    /\ disturbed' = (disturbed \ {k}) \cup (Running \ {k})
          \cup IF \E j \in Checks \ {k} : check[j].at \in {"next", "asked"}
               THEN {k} ELSE {}
    /\ UNCHANGED << focus, enabled, clock, boots, cache, badge, shelf, disk,
                    looks, setup, repos, refusals, unsaved >>

(* The next source: a ref that is no ref is skipped; the request goes out. *)
CheckAsks(k, u) ==
    LET c == check[k]
        ref == c.todo[u]
    IN  /\ c.at = "next" /\ ref # None
        /\ check' = [check EXCEPT ![k] =
              IF NormaliseRef(ref)
              THEN [c EXCEPT !.at = "asked", !.url = u,
                             !.answer = GetCatalogCached(u, ref, c.force)]
              ELSE [c EXCEPT !.todo[u] = None]]
        /\ UNCHANGED << focus, enabled, bounds, cache, badge, disturbed,
                        shelf, disk, looks, setup, repos, refusals, unsaved >>

(* Its answer: stored, and compared with what was installed.               *)
CheckHears(k) ==
    LET c == check[k]
        newer == {e \in Offers(c.answer) :
                    c.index[e.id] \notin {None, e.version}}
    IN  /\ c.at = "asked" /\ Readable(c.answer)
        /\ cache' = [cache EXCEPT ![c.url][c.todo[c.url]] = c.answer]
        /\ check' = [check EXCEPT ![k] = [c EXCEPT
              !.at = "next", !.todo[c.url] = None, !.answer = Uncached,
              !.found = @ \cup {e.kind : e \in newer}]]
        /\ UNCHANGED << focus, enabled, bounds, badge, disturbed, shelf,
                        disk, looks, setup, repos, refusals, unsaved >>

(* A source that does not answer, or not with a catalog, is left out.      *)
CheckMisses(k) ==
    LET c == check[k]
    IN  /\ c.at = "asked"
        /\ disturbed' = IF Readable(c.answer) THEN disturbed \cup {k}
                        ELSE disturbed
        /\ check' = [check EXCEPT ![k] = [c EXCEPT
              !.at = "next", !.todo[c.url] = None, !.answer = Uncached]]
        /\ UNCHANGED << focus, enabled, bounds, cache, badge,
                        shelf, disk, looks, setup, repos, refusals, unsaved >>

(* run_periodic_plugin_check, back on the event loop.                      *)
CheckEnds(k) ==
    LET c == check[k]
    IN  /\ c.at = "next"
        /\ \/ \A u \in Urls : c.todo[u] = None
           \/ c.found = {"app", "theme"}
        /\ badge' = c.found
        /\ check' = [check EXCEPT ![k] =
              [NoCheck EXCEPT !.at = "over", !.force = c.force]]
        /\ UNCHANGED << focus, enabled, bounds, cache, disturbed, shelf,
                        disk, looks, setup, repos, refusals, unsaved >>

-----------------------------------------------------------------------------
(* Installing.                                                             *)

(* install_from_source_route: the switch, a configured source, an entry of *)
(* its catalog as it is now; neither a built-in nor a locked app's id.     *)
InstallAsked(u, id, given) ==
    LET ref == IF given # None THEN given ELSE sources[u].ref
        at == Resolve(u, ref)
    IN  /\ Request({"sources", "updates", "themes"})
        /\ install = NoInstall
        /\ enabled /\ sources[u] # NoSource /\ NormaliseRef(ref)
        /\ id \in Apps => /\ id \notin Builtin
                          /\ Found(id) => ~Manifest(id, folder[id]).locked
        /\ \E e \in Offers(at) :
              /\ e.id = id /\ Compatible(e)
              /\ install' = [NoInstall EXCEPT !.at = "download", !.url = u,
                    !.ref = ref, !.id = id, !.version = e.version,
                    !.by = trusted]
        /\ UNCHANGED << folder, prov, foreign, updates, shelf, looks, setup, repos,
                        refusals, unsaved >>

(* install_from_source, in a thread: the archive of the ref as it is then, *)
(* read again from its own files, and put in place; or nothing is done.    *)
(* The version is the manifest's for an app, the catalog's for a theme.    *)
InstallStaged(ok) ==
    LET at == Resolve(install.url, install.ref)
        m == Trees[at.url][at.commit][install.id]
    IN  /\ install.at = "download"
        /\ IF ok /\ m.name # None /\ StagedOk(install.id, m)
           THEN /\ folder' = [folder EXCEPT ![install.id] = at]
                /\ install' = [install EXCEPT !.at = "placed",
                      !.version = IF install.id \in ThemeIds THEN @
                                  ELSE m.version,
                      !.commit = at.commit]
                /\ chosen' = IF folder[install.id] = NoFolder
                             THEN chosen \ {install.id} ELSE chosen
           ELSE /\ install' = NoInstall /\ UNCHANGED << folder, chosen >>
        /\ foreign' = IF at.url \in install.by THEN foreign
                      ELSE {i \in Ids : i = install.id /\ folder' # folder}
                              \cup foreign
        /\ disturbed' = disturbed \cup Running
        /\ UNCHANGED << focus, enabled, bounds, prov, cache, badge, check,
                        shelf, default, defaultDisk, setup, repos, refusals,
                        unsaved >>

(* _record_provenance, back on the event loop.                             *)
InstallRecorded ==
    /\ install.at = "placed"
    /\ prov' = [prov EXCEPT ![install.id] =
          [url |-> install.url, ref |-> install.ref,
           version |-> install.version, commit |-> install.commit]]
    /\ install' = NoInstall
    /\ disturbed' = disturbed \cup Running
    /\ UNCHANGED << focus, enabled, bounds, folder, foreign, cache, badge,
                    check, shelf, looks, setup, repos, refusals, unsaved >>

-----------------------------------------------------------------------------
(* Themes.                                                                 *)

(* _is_locked.                                                             *)
Locked(id) == folder[id] # NoFolder /\ folder[id] # Built
                 /\ Manifest(id, folder[id]).locked

(* save_theme: never under a built-in id, never over a locked folder.      *)
Writable(id) == id \in ThemeIds \ Builtin /\ ~Locked(id)

(* delete_theme: what is there and may be written.                         *)
Deletable(id) == Writable(id) /\ folder[id] # NoFolder

SaveTheme(id) ==
    /\ Request({"themes"}) /\ Writable(id)
    /\ folder' = [folder EXCEPT ![id] = Built]
    /\ chosen' = IF folder[id] = NoFolder THEN chosen \ {id} ELSE chosen
    /\ UNCHANGED << install, prov, foreign, updates, shelf, default, defaultDisk,
                    setup, repos, refusals, unsaved >>

(* delete_theme, and the default falls back with it; that the file cannot  *)
(* be written is overlooked.                                               *)
DeleteTheme(id, saved) ==
    /\ Request({"themes"}) /\ Save(saved) /\ Deletable(id)
    /\ folder' = [folder EXCEPT ![id] = NoFolder]
    /\ IF default = id
       THEN /\ default' = DEFAULT_THEME_ID
            /\ defaultDisk' = IF saved THEN DEFAULT_THEME_ID ELSE defaultDisk
       ELSE UNCHANGED << default, defaultDisk >>
    /\ UNCHANGED << install, prov, foreign, chosen, updates, shelf, setup,
                    repos >>

(* set_default_theme: the file first.                                      *)
SetDefault(id, saved) ==
    /\ Request({"themes"}) /\ Save(saved)
    /\ id \in ThemeIdsFound
    /\ IF saved
       THEN /\ default' = id /\ defaultDisk' = id
            /\ chosen' = chosen \cup {id}
       ELSE UNCHANGED looks
    /\ UNCHANGED << disk, updates, shelf, setup, repos >>

-----------------------------------------------------------------------------
(* Dependency probes and setup scripts.                                    *)

Probed(id) ==
    /\ verdict' = [verdict EXCEPT ![id] = id \in deps']
    /\ probed' = [probed EXCEPT ![id] = id \in deps']

(* _deps_status: the last result of this session, else the one at boot.    *)
DepsStatus(id) == verdict[id]

(* recheck_plugin_deps: the probe blocks the event loop.                   *)
Recheck(id) ==
    /\ Request({"setup"})
    /\ UNCHANGED deps /\ Probed(id)
    /\ crossed' = (crossed \ {id})
          \cup IF batch.on /\ id \in DOMAIN batch.seen THEN {id} ELSE {}
    /\ UNCHANGED << batch, lock, scripts, unwatched, updates, shelf, disk, looks, repos,
                    refusals, unsaved >>

(* recheck_all_plugin_deps: a thread for each probe, and all the results   *)
(* at once when the last one has answered.                                 *)
RecheckAll ==
    /\ Request({"setup"}) /\ ~batch.on
    /\ batch' = [on |-> TRUE, seen |-> << >>]
    /\ UNCHANGED << deps, verdict, lock, scripts, probed, crossed, unwatched,
                    updates, shelf, disk, looks, repos, refusals, unsaved >>

BatchProbes(id) ==
    /\ batch.on /\ id \notin DOMAIN batch.seen
    /\ batch' = [batch EXCEPT !.seen = [i \in DOMAIN @ \cup {id} |->
          IF i = id THEN id \in deps ELSE batch.seen[i]]]
    /\ probed' = [probed EXCEPT ![id] = id \in deps]
    /\ UNCHANGED << focus, enabled, bounds, deps, verdict, lock, scripts,
                    crossed, unwatched, updates, shelf, disk, looks, repos,
                    refusals, unsaved >>

BatchEnds ==
    /\ batch.on /\ DOMAIN batch.seen = Apps
    /\ verdict' = batch.seen /\ batch' = NoBatch
    /\ UNCHANGED << focus, enabled, bounds, deps, lock, scripts, probed,
                    crossed, unwatched, updates, shelf, disk, looks, repos,
                    refusals, unsaved >>

(* _stream_plugin_setup: one at a time.                                    *)
SetupBegins(id) ==
    /\ Request({"setup"}) /\ lock = None /\ id \notin scripts
    /\ lock' = id /\ scripts' = scripts \cup {id}
    /\ UNCHANGED << deps, verdict, batch, probed, crossed, unwatched, updates,
                    shelf, disk, looks, repos, refusals, unsaved >>

(* _drive_setup: the script ends, well or not (or is killed after half an  *)
(* hour, with no probe); a probe follows, and the lock is free.            *)
SetupEnds(id, good) ==
    /\ lock = id /\ id \in scripts
    /\ lock' = None /\ scripts' = scripts \ {id}
    /\ deps' = IF good THEN deps \cup {id} ELSE deps
    /\ Probed(id)
    /\ crossed' = (crossed \ {id})
          \cup IF batch.on /\ id \in DOMAIN batch.seen THEN {id} ELSE {}
    /\ UNCHANGED << focus, enabled, bounds, batch, unwatched, updates, shelf, disk,
                    looks, repos, refusals, unsaved >>

(* The browser goes away: the lock is free, the script goes on.            *)
SetupLeft ==
    /\ lock # None
    /\ lock' = None /\ unwatched' = unwatched \cup {lock}
    /\ UNCHANGED << focus, enabled, bounds, deps, verdict, batch, scripts,
                    probed, crossed, updates, shelf, disk, looks, repos,
                    refusals, unsaved >>

(* run_plugin_setup: the same script from the command line, which asks for *)
(* no lock.                                                                *)
CliSetup(id) ==
    /\ Request({"setup"}) /\ id \notin scripts
    /\ scripts' = scripts \cup {id} /\ unwatched' = unwatched \cup {id}
    /\ UNCHANGED << deps, verdict, batch, lock, probed, crossed, updates,
                    shelf, disk, looks, repos, refusals, unsaved >>

(* A script nobody watches ends.                                           *)
ScriptEnds(id) ==
    /\ id \in scripts /\ lock # id
    /\ scripts' = scripts \ {id} /\ deps' = deps \cup {id}
    /\ unwatched' = unwatched \ {id}
    /\ UNCHANGED << focus, enabled, bounds, verdict, batch, lock, probed,
                    crossed, updates, shelf, disk, looks, repos, refusals,
                    unsaved >>

-----------------------------------------------------------------------------
(* The repository's author pushes.                                         *)
Push(u) ==
    LET n == CHOOSE k \in 1 .. Len(Commits) : Commits[k] = head[u]
    IN  /\ moves < MaxMoves /\ moves' = moves + 1
        /\ focus # "setup"
        /\ n < Len(Commits)
        /\ head' = [head EXCEPT ![u] = Commits[n + 1]]
        /\ left' = [left EXCEPT ![u][head[u]] = clock]
        /\ disturbed' = disturbed \cup Running
        /\ UNCHANGED << focus, enabled, bounds, cache, badge, check, shelf,
                        disk, looks, setup, refusals, unsaved >>

(* Time, which only the cache looks at, passes while an entry is young.    *)
Tick ==
    /\ clock < MaxClock /\ clock' = clock + 1
    /\ \/ \E u \in Urls, r \in Refs : clock < cache[u][r].until
       \/ \E k \in Checks : clock < check[k].answer.until
    /\ UNCHANGED << focus, enabled, requests, boots, updates, shelf, disk,
                    looks, setup, repos, refusals, unsaved >>

(* The service starts again: memory is the file's, the caches are empty,   *)
(* every loaded plugin is probed, threads and scripts are gone.            *)
Restart ==
    /\ boots < MaxBoots /\ boots' = boots + 1
    /\ sources' = sourcesDisk /\ default' = defaultDisk
    /\ branch' = [u \in Urls |->
          IF Pinned(sourcesDisk[u].ref) THEN sourcesDisk[u].from
          ELSE sourcesDisk[u].ref]
    /\ cache' = [u \in Urls |-> [r \in Refs |-> Uncached]]
    /\ badge' = {None} /\ check' = [k \in Checks |-> NoCheck]
    /\ disturbed' = {}
    /\ install' = NoInstall
    /\ verdict' = [i \in Apps |-> i \in deps] /\ probed' = verdict'
    /\ crossed' = {} /\ batch' = NoBatch /\ lock' = None /\ scripts' = {}
    /\ unwatched' = {}
    /\ UNCHANGED << focus, enabled, clock, requests, repos, sourcesDisk,
                    trusted, folder, prov, foreign, defaultDisk, chosen, deps,
                    refusals, unsaved >>

Next ==
    \/ \E u \in Urls, r \in Refs, saved \in BOOLEAN :
          \/ \E confirm \in BOOLEAN : AddSource(u, r, confirm, saved)
          \/ RepointSource(u, r, saved)
    \/ \E u \in Urls, saved \in BOOLEAN : RemoveSource(u, saved)
    \/ \E u \in Urls, r \in {None, OtherBranch}, force \in BOOLEAN :
          Browse(u, r, force)
    \/ \E u \in Urls, r \in {None, Main, Smuggled}, id \in Ids :
          InstallAsked(u, id, r)
    \/ \E k \in Checks : \E force \in BOOLEAN : CheckBegins(k, force)
    \/ \E k \in Checks, u \in Urls : CheckAsks(k, u)
    \/ \E k \in Checks : CheckHears(k) \/ CheckMisses(k) \/ CheckEnds(k)
    \/ \E ok \in BOOLEAN : InstallStaged(ok)
    \/ InstallRecorded
    \/ \E id \in Ids : SaveTheme(id)
    \/ \E id \in Ids \cup {DEFAULT_THEME_ID}, saved \in BOOLEAN :
          SetDefault(id, saved)
    \/ \E id \in Ids, saved \in BOOLEAN : DeleteTheme(id, saved)
    \/ \E id \in Apps : \/ Recheck(id) \/ BatchProbes(id) \/ SetupBegins(id)
                        \/ CliSetup(id)
                        \/ ScriptEnds(id)
                        \/ \E good \in BOOLEAN : SetupEnds(id, good)
    \/ RecheckAll \/ BatchEnds \/ SetupLeft
    \/ \E u \in Urls : Push(u)
    \/ Tick \/ Restart

Spec == Init /\ [][Next]_vars

-----------------------------------------------------------------------------
(* Types of the sources, the cache, the folders and the verdicts.          *)
TypeOK ==
    /\ {sources, sourcesDisk} \subseteq
          [Urls -> [ref : Refs \cup {None}, from : Refs \cup {None}]]
    /\ \A u \in Urls, r \in Refs : cache[u][r].until \in 0 .. MaxClock + Ttl
    /\ badge \subseteq {"app", "theme", None}
    /\ \A k \in Checks : check[k].at \in {"idle", "next", "asked", "over"}
    /\ install.at \in {"idle", "download", "placed"}
    /\ \A i \in Ids : folder[i].url \in Urls \cup {None, "shipped", "builder"}
    /\ verdict \in [Apps -> BOOLEAN] /\ deps \subseteq Apps
    /\ lock \in Apps \cup {None} /\ scripts \subseteq Apps
    /\ clock \in 0 .. MaxClock /\ requests \in 0 .. MaxRequests

(* What is configured was confirmed, unless a removal could not be saved; *)
(* what is installed came from a repository that was trusted when it was   *)
(* asked for, and nothing did while the switch was off.                    *)
TrustedOnly ==
    /\ \A u \in Urls : sources[u] # NoSource => u \in trusted \/ unsaved
    /\ foreign = {}
    /\ ~enabled => \A i \in Ids : folder[i].url \notin Urls

(* A pin holds the branch it was made from, through further pins and a     *)
(* restart, so that unpinning brings it back.                              *)
PinRemembers ==
    \A u \in Urls : sources[u] # NoSource =>
        IF Pinned(sources[u].ref) THEN sources[u].from = branch[u]
        ELSE sources[u].from = None

(* A catalog that is shown was the repository's at some moment of the last *)
(* five minutes, whatever fetches crossed.                                 *)
BrowseFresh ==
    \A u \in Urls, r \in Refs :
        LET e == cache[u][r]
        IN  clock < e.until =>
                /\ e.url = u
                /\ r = Main => left[u][e.commit] >= e.until - Ttl

(* What an installation leaves is a plugin the next start accepts, and     *)
(* neither takes the place of a built-in one nor carries the lock.         *)
InstalledLoads ==
    \A i \in Apps : folder[i].url \in Urls =>
        /\ i \notin Builtin /\ Found(i)
        /\ ~Manifest(i, folder[i]).locked

(* The provenance is that of the files: commit, repository and, for an     *)
(* app, version, also when the branch moves between the catalog and the    *)
(* download.  (Deleting a theme keeps its entry.)                          *)
ProvenanceExact ==
    \A i \in Ids : (folder[i].url \in Urls /\ prov[i] # NoProv
                        /\ install.id # i /\ boots = 0) =>
        /\ prov[i].commit = folder[i].commit /\ prov[i].url = folder[i].url
        /\ i \in Apps => prov[i].version = Manifest(i, folder[i]).version

(* What a forced check found is so when it ends, if nothing changed under  *)
(* it: an installed version that a readable source does not offer as it is *)
(* is announced, and nothing else.                                         *)
BadgeTrue ==
    \A k \in Checks : (check[k].at = "over" /\ check[k].force
                          /\ k \notin disturbed) =>
        badge = {kind \in {"app", "theme"} : \E u \in Urls :
            /\ sources[u] # NoSource /\ NormaliseRef(sources[u].ref)
            /\ \E e \in Offers(Resolve(u, sources[u].ref)) :
                  /\ e.kind = kind
                  /\ InstalledIndex[e.id] \notin {None, e.version}}

(* The default theme is there and was chosen since it was put there,       *)
(* unless a save failed; a built-in theme is the program's own, and a      *)
(* locked folder gives way only to an installation (recorded, or cut off   *)
(* by a restart).                                                          *)
ThemesKept ==
    /\ ~unsaved => CurrentDefault \in chosen /\ default = CurrentDefault
    /\ \A t \in ThemeIds \cap Builtin : ThemeSource(t) = "builtin"
    /\ \A t \in ThemeIds : (Shipped[t].name # None /\ Shipped[t].locked) =>
          folder[t] = AsShipped \/ prov[t] # NoProv \/ install.id = t
              \/ boots > 0

(* What the index tool writes is a catalog, and every app in it that is    *)
(* not locked can be installed.                                            *)
IndexAccepted ==
    \A u \in Urls : \A e \in Index(u, head[u]) :
        /\ EntryOk(e) /\ Compatible(e)
        /\ (e.kind = "app" /\ ~Trees[u][head[u]][e.id].locked) =>
              StagedOk(e.id, Trees[u][head[u]][e.id])

(* The verdict on the page is that of the latest probe, unless probes of   *)
(* all plugins that saw an earlier state ended later.                      *)
VerdictLatest ==
    \A i \in Apps : (~batch.on /\ i \notin crossed) => DepsStatus(i) = probed[i]

(* One setup script at a time, but for those whose browser went away and   *)
(* those of the command line.                                              *)
SetupAlone == Cardinality(scripts \ unwatched) <= 1
=============================================================================
