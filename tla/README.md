# A TLA+ model of freelib-djatoka

freelib-djatoka serves regions of JPEG 2000 images over HTTP, with two web
pages to look at them. On the server the decisions are spread over several
layers of caches - temporary files, permanent files, session attributes, a list
of downloads - that request threads read and change with hardly a lock between
them. In the pages they are spread over callbacks: answers to requests, timers,
animation frames, pointer events. This directory models both, checks the models
with TLC on small instances, and proves the central facts with TLAPS for every
instance.

## 1. The system

`web.xml` maps one filter and two servlets: `IIIFServletFilter` and the servlet
`iiifViewer` (`ImageServlet`) on `/iiif/*`, and `resolver` (`OpenURLServlet`)
on `/resolver`. The ingester and the health page are present in the source and
commented out in the configuration. The pages are static: `new/viewer.html`
(OpenSeadragon over IIIF requests) and the older IIPMooViewer (MooTools over
OpenURL requests).

A IIIF image request takes this way:

1. The filter parses the path into region, size and rotation.
2. `ImageServlet.checkImageCache` sends the tile from the permanent cache, a
   Pairtree directory, if it is there. Otherwise `serveNewImage` forwards the
   request to `/resolver`.
3. `OpenURLServlet` dispatches to `OpenURLJP2KService.resolve`, which asks
   `ReferentManager` for the image (perhaps downloading it), and takes the tile
   from `TileCacheManager` or has it extracted by a Kakadu process into a
   temporary file.
4. `OpenURLServlet` copies two entries of the response into the user's session:
   tile name -> temporary file, and temporary file -> key in the tile cache.
5. `ImageServlet.cacheNewImage` reads them back, moves the temporary file into
   the permanent cache, and takes the entry out of the tile cache.

The page viewer asks for an image's `info.json`, builds a tile source from it,
and opens it in two viewers: the one on the page, and its navigator. Each viewer
runs a loop of animation frames; in a frame its drawer decides which tiles
to draw and which one to ask the server for. Pointer events reach the viewer
through `MouseTracker`, which keeps the pointers that are down or captured; the
buttons and the full page mode are driven by them. IIPMooViewer has no frames:
every move throws the tiles away and asks for those of the new view.

### Components

| component | state | operations | what makes it correct |
|---|---|---|---|
| Tile cache, `TileCacheManager` | an access-ordered `LinkedHashMap` from tile hash to file; the files | `get`, `put` (with `removeEldestEntry`), `remove`, `clear`; all synchronized | it is an LRU cache; it is bounded; it deletes no file another entry names |
| Region service, `OpenURLJP2KService` | the static cache; the locals of `resolve` | `resolve`, `isCacheable`, `getTileHash` | nobody is served another tile; no file is deleted under a reader that must not notice |
| `OpenURLServlet` | session attributes | `doGet` | a session's attributes name the file of the tile they name |
| `ImageServlet`, image requests | the permanent tile cache | `checkImageCache`, `serveNewImage`, `cacheNewImage` | what is stored for good is the right picture; what is served gets stored |
| `ImageServlet`, info requests, with `OpenURLJP2KMetadata` | an XML file per image; the container's pool of threads | `getHeightWidthAndLevels` | a stated size is the image's; a half-made file heals; the thread an info request waits for exists |
| `IdentifierResolver`, `DjatokaImageMigrator` | the Pairtree of images; the list of identifiers in process; the map of remote images | `getImageRecord`, `convert` | a file nobody writes is whole; the list is exact; waiting ends |
| Page viewer (OpenSeadragon) | the open pages of viewer and navigator; timers, requests and frames under way | `goToPage`, `open`, `close`, the answers, `updateMulti` | the page on view is the one asked for; one loop of frames; an open page is drawn |
| Tile drawer (OpenSeadragon) | tiles, their cache, the canvases shared by url | `updateViewport`, the load jobs, eviction | what is loaded is painted; a still view stops asking |
| Pointer tracking (OpenSeadragon) | lists of pointers, contacts, capture | the mouse, pointer and touch handlers | contacts are counted; listeners on the window go away |
| Viewer controls (OpenSeadragon) | states of buttons, fading, full page and full screen | the handlers of container and buttons, timers | controls do not fade under the mouse; zooming ends; the page comes back |
| IIPMooViewer | level, position, grid of tiles, progress bar, drag | metadata, zoom, scroll, drag, navigation | the level asked for is the one laid out; the window is tiled; the bar goes |
| Tile queries and pre-generation | none | `getTileUrl`, `getPaths` | tiles cover the image; what is made beforehand is what is asked for |

The components that are not modelled are in section 5.

### What is hard about it

* **Check, then act.** `resolve` holds the cache's lock in each of its two
  lookups and its put, and not between them. `getRemoteImage` reads the list of
  identifiers in process, and `convert` adds to it later.
* **Files found in one step and opened in another.** An eviction, a `remove` or
  a move to the permanent cache may come between.
* **Sessions.** The requests of one session, a browser asking for many tiles,
  write the same two attributes concurrently.
* **Failures half way.** An extraction that fails after its file was created, a
  rename that fails, a connection that breaks, a server that is killed, an answer
  that throws in the middle of a handler.
* **Waiting.** A thread polls for another thread's download for a bounded time;
  sockets have no timeouts; the info request asks its own server.
* **Callbacks without numbers.** Infos are not numbered, timers are not cancelled,
  and what they find when they run is what the latest event has left.
* **Events that do not come.** A touch that ends without a `touchend`, an element
  moved away under the mouse without a `mouseout`, full screen ended by the browser.
* **Two users of one thing.** Viewer and navigator share canvases by url; mouse
  and key move one IIPMooViewer target; two sessions one cache.

`PROJECT.json` lists every such place with its line and the property that
watches over it, or why none does.

## 2. The modules

| module | models | its state |
|---|---|---|
| `LRUCache` | nothing: what an LRU cache of files promises | a list of keys by last use, the file of each, the files that exist |
| `TileCacheManager` | `TileCacheManager.java` | `cacheMap`, `older` (the linked list, as an order), `disk` |
| `TileCacheHistory` (extends `TileCacheManager`) | the same, with what `LRUCache` has to be compared with | `lastUse`, a history variable: the keys by their last call |
| `OpenURLJP2KService` (extends `TileCacheManager`) | `resolve` and everything it calls on the way | `pc` and the locals of `resolve` for each thread |
| `ImageServlet` (extends `OpenURLJP2KService`) | `checkImageCache`, `serveNewImage`, `cacheNewImage`, and the copying of session attributes by `OpenURLServlet` | session attributes, the permanent cache, the locals of `cacheNewImage` |
| `RemoteImages` | `IdentifierResolver` with `DjatokaImageMigrator.convert` | the Pairtree files, the list, the map, and the locals of each thread |
| `MetadataCache` | `getHeightWidthAndLevels` of `ImageServlet`, and `OpenURLJP2KMetadata` as far as it answers it | the XML files, and for each thread of the pool what it does and holds |
| `PageViewer` | `Viewer`, `Navigator` and `TileSource` of OpenSeadragon, as `viewer.html` uses them, with its query (`purl.js`) | the current page, timers, requests, and for each of the two viewers its source, frames and what was drawn |
| `TileDrawer` | `Drawer`, `Tile` and `ImageLoader` for viewer and navigator | the status of tiles, what is loaded and drawn, the age of tiles, the shared canvases |
| `MouseTracker` | `MouseTracker` on the viewer's canvas | the list of pointers with its counts, the listeners on the window, what is really down |
| `ViewerControls` | fading, `Button`, `ButtonGroup`, full page and full screen | where the mouse is, the state of each button, pending timers and frames, page and screen |
| `IIPMooViewer` | `iipmooviewer-1.1.js` with MooTools' `Request`, `Drag`, `Fx.Morph` | level, size, position, tiles and counters, progress bar, drag |
| `TileArithmetic` | the numbers that `IIPMooViewer` and `TileQueries` reckon with | nothing |
| `TileQueries` | `IIIFTileSource`, `OSDCacheUtil.getPaths`, `ImageInfo` | the loops of `getPaths` and what they have asked for |
| `..._proofs` (8) | - | theorems |
| `MC...` | - | values of constants |

`OpenURLJP2KService` calls the actions of `TileCacheManager` (`Get`, `Put`),
and `ImageServlet` those of both (`Resolve`, `Remove`), so the composition is
the program's own: there is one tile cache and one disk. The modules of the pages
are views of one program from different sides, each with the state that its part
keeps: `PageViewer` opens what `TileDrawer` draws; `MouseTracker` delivers the
events that `ViewerControls` takes as given.

### How the code is rendered

On the server:

* **Grain.** A step is what other threads cannot see inside of: a synchronized
  method, one call of the file system, one `getAttribute` or `setAttribute`, one
  access of a shared list. Steps that only touch locals are merged with the
  next shared one. `File.length()` and the read that follows it in
  `getBytesFromFile` are one step, after the open, which is another.
* **Pictures and hashes.** A request asks for a `View`, a region of an image with
  a scale. `Picture(v)` is what the extractor makes of it, `TileHash(v)` the
  digest of the same parameters. They are different definitions with the same
  shape, so that "the file holds the tile of its key" can be said by an
  equation; the digest is taken to be free of collisions.
* **Scales.** `resolve` reads a scale as pixels (`ScalingDims`) or as a factor
  (`ScalingFactor`). A IIIF size in percent reaches it as a factor (`Size.toString`,
  lines 185-186): `pct:50` as one of `Factors`, `pct:100` as 1.0, one of `Ones`, which is
  the full size under a name of its own. The digest contains factor and pixels, the
  servlet's file name the scale as asked, and the session's name the pixels only. The
  three definitions keep this difference.
* **Files.** `File.createTempFile` never returns a name twice: the file of a
  request is named after the request's number. Deleting a file that is open
  leaves the reader with a length of 0, as `getBytesFromFile` asks the name for
  the length, not the stream.
* **Extractor.** It writes the picture; or throws (`"decode"`); or returns without
  having written anything, which is what an `IOException` in `KduExtractExe`
  comes to (`"exec"`). A writer that breaks off in the middle, or a pipe that ends
  early, leaves a part of the picture; a picture being one piece here, that case is
  taken together with the empty file. `Outside` gathers the steps of a request that wait
  for something outside of the server, a download or the extractor, and `Local` the others.
  `disturbed` and `scaled` are history variables: whether requests have overlapped or
  one has failed, and the views at a factor that somebody has asked for.
* **Session attributes.** `resolve` puts both entries into a `HashMap`, whose order
  is not defined: `SetTileFile` and `SetTileKey` come in either order.
* **Debug level.** `cacheNewImage` looks at the result of `renameTo` and of
  `removeFromTileCache` with `&&` behind `LOGGER.isDebugEnabled()`; `Debug` is a
  constant of the model. The run has it off; the theorems hold for both values.
* **Downloads.** An image arrives in `Size` parts. A file is the set of parts it
  holds; each writer has its own offset; `new FileOutputStream` truncates; a file
  deleted while being written is written to without a name (`attached`). A Pairtree that
  cannot be read makes the lookup take an image for missing (`LookupFails`, lines 222-224
  of `IdentifierResolver`); `unread` remembers that it happened.
* **Metadata files.** They are small: the serializer's buffer is written in one
  step, and a file is opened and parsed in one. Whether it exists, its deletion
  and its creation are steps of their own. A stream whose file has been deleted
  writes to a file without a name (`named`).
* **The pool of threads.** An info request keeps its thread while it asks its own
  server, and the answer needs another thread of the same pool: `Accept` hands the
  waiting connection to an idle one. `excused` is no state of the program; it
  remembers whether another request for the same image, or a failure of the
  metadata service, came between, for the property `AloneFindsImage`.
* **Restart.** The `Crash` of `RemoteImages` and of `MetadataCache` loses what is in
  memory, and keeps files.

In the pages a step is one callback: a browser runs each to its end. What they
do is modelled whole, to the throw that ends it where the code throws.

* **`PageViewer`.** A page number is a number or the text that the query's `s`
  holds (`plain` unless it has a leading zero), since `"1" + 1` is `"11"`. The
  answer to a request is an error, a good info, one without the size, other JSON, or
  what cannot be read; requests are answered in any order. `newest`, `overtaken`
  and `silent` are history variables.
* **`TileDrawer`.** A pyramid is a set of tiles with levels and children; a view is
  the set of tiles in sight, which with a tile contains the coarser ones over it: they
  lie under the same part of the window. `lastTouchTime` is kept as the order of the touches
  (`age`). Positions, opacity, blending (`blendTime` is 0) and rotation are left out.
* **`MouseTracker`.** One device is used at a time. A position is only known or
  unknown: an event without one makes the handler that reads it throw (`failed`).
  `down`, `lost`, `cancelled` and `grouped` say what really happened to the fingers;
  the last one that several of them started or ended a touch in one event.
* **`ViewerControls`.** The model is of a mouse. A press is stopped at the button,
  so that group and container see it only come and go. Moving the viewer's
  element in the document sends no `mouseout`. A timer or frame that is pending is
  counted; its time is left out. There is no viewport before the first image is open, and it
  is kept from then on, as `viewer.html` sets `preserveViewport`; an image may be opened
  at any time (`OpenTileSource`). `early` and `cut` are history: the zooming began
  without a viewport; an image was opened during an animation with the mouse away.
* **`IIPMooViewer`.** Positions are multiples of `1/Px` of a pixel, exact for what
  the code's floating point holds within the bounds. The two `requestImages` of
  `createWindows` are one step with the view they end in. A tile may fail any number of
  times (`TileFails`); its handler, and the timer's `refresh`, ask for it again, and count
  nothing.
* **`TileQueries`.** Functions over integers, the powers of two as the function `Pow2` of
  `TileArithmetic`; the loops of `getPaths` are a state machine, so that what they do to `x`
  and `y` is the code's own.

Definitions whose comment begins with "Slip:" are not part of the model. Each
is a plausible mistake in the code, one for every property, and replacing the
definition named in `PROJECT.json` by it makes TLC report that property.

## 3. The runs

Each run finishes in about three minutes at most on two workers. `tile_cache`, `page_viewer` and
`viewer_controls` check for deadlock. In the others a behaviour really stops (when
`MaxRequests` requests have been answered, the moves are used up, the page is
closed, or the loops are done); that nothing waits for ever is a liveness property
there instead.

| run | question | bounds |
|---|---|---|
| `tile_cache` | is the map with its `removeEldestEntry` an LRU cache that stays in bounds and deletes the right file? | 3 keys, 3 files, capacity 2 |
| `service_evicting` | with too small a cache and every fault, is anybody served the wrong bytes, or left unanswered? | 2 threads, 3 requests, capacity 1, a region and a whole image, each in full, at half size and at 100 percent |
| `servlet` | is what is stored and sent the right picture, with failing extractions and renames; and do requests one after the other leave every tile stored that can be, and no file forgotten? | 2 threads, 2 sessions, 3 requests to either servlet, capacity 1, one region in full, in pixels and at half size |
| `remote_images` | is the list of downloads exact, are files nobody writes whole, do whole images stay, does waiting end? | 2 threads, 3 requests, 2 hosts, 2 parts, 2 polls, 1 restart, 2 faults, of hosts, streams or the Pairtree |
| `metadata_cache` | is a stated size right, does a half-made file heal, does a written one stay, does each info request get an answer? | 3 threads, 2 info requests at a time, 4 in all, an image and a name without one, 1 failure, 1 restart |
| `page_viewer` | with answers in any order and of any kind, which page is on view, in how many loops? | 3 pages, 3 openings, started at page 0, `"0"`, `"1"` or `"9"` |
| `tile_drawer` | does a tile that is loaded get drawn, and does drawing come to rest, in a cache smaller than the view? | 4 tiles on 3 levels, a cache of 2, three views of the viewer and one of the navigator, two tiles may fail |
| `iip_viewer` | after any zooms, scrolls, drops: is the right level tiled where the window is? | images of 27 x 17, 40 x 17, 25 x 5 on 3 levels, a window of 6 x 6, tiles of 4, 4 moves, tiles that fail |
| `tile_queries` | does each pixel lie in the tile that is asked for it, and are the tiles made beforehand those? | 15 shapes of 1 to 5 levels, 33 x 20, and 100 x 3 on 7 levels, tiles of 4 |
| `tile_pregenerated` (violated) | is what was made beforehand found? | the same |
| `mouse_tracker` | are contacts counted, listeners taken away, lost touches dropped? | a mouse, or 3 fingers as pointer or touch events, several touches in one event, counts drifting by 3 at most |
| `viewer_controls` | do controls fade only when unused, does zooming end, does the page come back? | a zoom button and the full page button, 2 timers and zoom frames together and 2 requests and events of a kind pending, images opened at any time |

Why the bounds are enough. The races of the server are between a thread and one
other: two threads with a third request give one that starts while the others
are at any point of their way, and whose files and entries may be evicted by
either. Capacity 1 makes every put of a second tile evict; capacity 2 lets two
tiles live at once. With 3 keys and capacity 2 an eviction has a choice, which is
what the access order decides. Two sessions tell requests that share attributes
from requests that do not. Two parts tell an empty, a truncated and a whole file
apart; two polls tell a wait that ends by itself from one that is given up (the
code's bound is 300); two hosts make a failed download try again. Two info
requests at a time cross at every point, and the third and fourth meet what those
have left.

With three pages and three openings an answer can be overtaken by two. Four tiles
on three levels are the smallest pyramid in which a tile is covered by a part of its
children, two levels are drawn at once and a cache of 2 must evict what another
level shows. Four moves take the IIPMooViewer from any level to any other and back;
the three images are one that overlaps the window on all sides, one that is longer,
and a panorama that fits on one side. The sizes of `tile_queries` lie on, before and
behind the multiples of a tile, with more and fewer levels than they need. Two
fingers make a pinch; the third one comes and goes beside it. Two pending timers
tell an old fade from a new one. For the invariants that have a theorem below, the
bounds are removed altogether.

Symmetry is used where a run has no liveness property: `FingersAlike` in
`mouse_tracker`.

Every module also has a type invariant. Where there is a theorem it is proved; it is
in no run, since a run checks it only together with what says more.

### What the runs show: the server

* `TileCacheManager` implements `LRUCache`. The history variable `lastUse` of
  `TileCacheHistory` records the calls, not the map's own order, so the
  refinement says that what is evicted really is what was used least recently.
* The region service never answers 200 with another tile's bytes, although a hit
  is looked up, opened and measured in three steps. What an eviction in between
  costs is the answer: a 500 if the file is gone before it is opened, a 404 after.
* A thread whose second lookup finds another thread's tile reads and deletes a
  file nobody else can name, so it is never disturbed.
* Whatever the interleaving of the requests of a session, a file moves to the
  permanent cache only under its own tile's name. What can be stored besides is an empty
  file, after an extraction that failed, and, under the name of a region's full size only,
  the smaller picture of that region once somebody has asked for it at a factor.
* With one request at a time and no failure, the two caches hand over every tile whose size
  is not in percent, nothing is refused and no file forgotten, whoever asks whichever servlet.
* The migrator's list is exact in every state; a complete image is never touched
  again, unless a thread cannot read the Pairtree and downloads over it; as long as
  nothing breaks, two threads that download into one file leave a whole one; every
  request returns if the hosts answer.
* An info response with status 200 states the right size, whatever requests for
  the image cross. A request that none crosses finds an image that exists,
  whatever empty file a failure or a restart has left. Requests that do cross can
  get a 404 or a 500 for an existing image: the file is deleted, or emptied, after
  it was found to have a length.
* Info requests wait for threads of the pool they run in. With fewer of them at a time than
  the pool has threads each is answered if the calls of the metadata service come to an end,
  and that is what `EveryInfoAnswered` says. With `Clients = 3` as well as 3 threads TLC finds
  the state in which every thread waits for one to become free: the connection to the own
  server has no timeout, so nothing ends it.

Behaviours of the server that the models have, and that a property excludes by
what it assumes:

* Two threads that both find nothing at the second lookup both put; the first
  file is orphaned (`resolve` 346; `NothingRefusedOrForgotten` is about requests one
  after the other).
* A thread that finds an entry whose file `cacheNewImage` has renamed and not yet
  taken out of the tile cache answers 500 (`ImageServlet` 475).
* `djatokaCacheFile` is announced even if the extraction failed. Its empty file is
  then stored for good, and answered with 200 and no bytes from then on.
* With `Debug` off a failed `renameTo` is not noticed: the entry and its file are
  deleted, and the tile is made again at the next request.
* A factor is missing from the session's name of a tile (line 448 of
  `OpenURLJP2KService.java`), and IIIF sizes in percent are factors. The tile of such a size
  is therefore announced under another name than `cacheNewImage` asks for: it is answered,
  never stored, and made again whenever the tile cache has lost it. The name it is
  announced under is the full size's: when it is announced after the announcement of
  a request for the full size in the same session, and before that request's `getAttribute`,
  the smaller picture is moved there, and everybody is sent it from then on.
* Two threads download one image when both look at the list before either is in it.
  One may find length 0, and delete the file the other still writes to; a record is
  then returned for a file that is not there (`IdentifierResolver` 241).
* A second connection that fails after the file was created skips the clean-up: the
  empty file is "the image" from then on (`DjatokaImageMigrator` 172).
* An `IOException` of the Pairtree is logged and the image taken for missing
  (`IdentifierResolver` 222): the download truncates a complete one.

### What the runs show: the pages

* *Pages.* If answers come in the order of the requests, the settled viewer shows the
  current page or a message. What can come otherwise: an answer that comes late
  shows another page than the buttons say, for nothing numbers the answers and
  `close` cancels none. An info that looks like JSON and cannot be parsed, one without
  a size, a request that throws when sent, and a page that is not in the list end
  silently. The start page from the query is text, so that "next" appends a digit
  ("1" becomes "11") and goes nowhere; the strict comparison in
  `_updateSequenceButtons` leaves "next" enabled on a last page that is text. The
  branch that would take out the rotate buttons (8491) is never reached.
* *Tiles.* A drawer's own evictions never blank a tile. The other drawer's can: the
  canvas in `TILE_CACHE` is found by the url alone, and a tile gives its own image
  away when the canvas is made. Such a tile is "not yet loaded" to `drawTile`, and
  stays so until it is evicted itself. `PicturesMatchTiles` says that this is the
  only way. A tile that failed, or took 30 seconds, is never asked for again. Closing
  destroys the drawers; answers that come after are left out of the model.
  `completeJob`'s missing increment is unreachable with the `jobLimit` of 0.
* *Pointers.* Contacts are counted rightly for a mouse and for pointer events, and
  for touches that are neither lost nor cancelled; a press is followed by a release.
  With `touchcancel` they are not: `wasCaptured` is declared outside of the loop over
  the touches and an event without a position makes the release handler throw, so that
  `contacts` may become -1 and `captureCount` leak; a stale touch then makes each later
  `touchstart` abort. After `pointercancel` the listeners on the window stay. Touches are
  captured and released once per event (4935-4937, 4990-4992) and not once each: two
  touches that start in two events and end in one leave the listeners too, with nothing lost
  or cancelled, and two that start in one event and end in two lose them early. The abort
  does not tell the container. Lifting one of three fingers measures the next pinch
  with the lifted one. After `destroy` no listener stays, but the timer of a pressed
  point's speed does.
* *Controls.* No uncancelled timer fades the controls under the mouse, but for the first frame
  of the page, which looks at nothing. They do fade once the mouse is away and the image at
  rest, except after a page that is opened during an animation: `openTileSource` sets
  `animating` to false (8549), so that no `animation-finish` comes and nobody begins the
  fading until the mouse has come and gone. Zooming ends however the button is left (a press
  before the first image is open leaves `zooming` true until the release, and no frame:
  `doZoom` gives up without a viewport, 9534), and full page mode always comes with full
  screen or something on the way that ends it. What the models show besides: leaving full page
  mode leaves `mouseInside` true (`onContainerExit` is called with an empty event, and
  `undefined < 1` is false), so the controls stay until the mouse has come and gone; a second
  press of the full page button while the request is pending leaves the screen full without
  the page, and the button without effect until Esc; a press before the page changed mode
  makes a zoom button zoom when the mouse merely enters it.
* *IIPMooViewer.* For images larger than the window the level asked for is the one
  laid out, after any sequence of moves, and the window is tiled; the snapshot starts
  up to three pixels early. For images that fit the window the level and the size
  part, and `res` may go below 0 (`LevelMatchesSize` is not checked for them). Panoramas
  open at their right edge; the zone of the navigation window has the width of the
  animation's start while it moves, and dropping it does not ask again which axes
  fit. A drop in a direction that cannot be dragged is not covered by `DropKeepsPlace`.
  If the metadata cannot be had, the first alert is followed by a TypeError, and the
  second never shows. A tile that the server refuses is asked for again by its error handler
  (397) and, while it has no size, by `refresh` (474), and never counted: the progress bar,
  the busy cursor and the timer stay as long as the view does. `EveryViewSettles` says that the
  bar never goes before every tile has loaded, and that it goes if every tile loads in the
  end. `map.sort` is given a comparison of objects, so that tiles are
  requested in no particular order.
* *Tile queries.* Every pixel has one tile at every level. (Images of less than
  96 pixels, for which the server counts 0 levels, are not among those checked.)
  `getPaths` asks for every tile of the levels larger
  than a tile; levels whose long side is just one tile, and those asked for as `full`,
  are not made beforehand.

### Where the code and its comments part

`tile_pregenerated`: `OSDCacheUtil` (line 21) says that it makes derivatives "prior to
the point where they are requested by a user". It asks for sizes `w,h` (line 105), the
viewer for `w,`, and the permanent cache's file name is made of the size as asked: none
of them is ever found.

### Fairness

`ServiceFairness` and `ServletFairness`: a request thread that can take a step of
`resolve` or of the servlet in which it waits for nothing outside of the server
(`Local`, and the servlet's own steps) eventually does. The container schedules its threads,
and in these steps a thread waits only for the cache's lock, which every synchronized method
gives back. Nothing is assumed of the other steps (`Outside`): `getImageRecord` may download
over sockets without timeouts, and the extractor is a process. That they end for the request
in question, and for no other, is the hypothesis of `EveryRequestAnswered`. Nobody is obliged to
send a request (`Receive` and `Arrive` are not fair).

`RemoteImages!Spec` assumes fairness of local steps only: sockets are opened
without timeouts, so a host may keep a thread for ever. `NetworkFairness` - hosts
answer, or connections break - is not part of `Spec`; it is the hypothesis of
`EveryRequestReturns`.

`MetadataCache!Spec`: a thread of the pool runs (`WF` of `Run`) where it waits for nobody. The
metadata service is not among these steps (`Serve`), since it asks for the image record and
may download it first; that its calls come to an end is the hypothesis of `EveryInfoAnswered`.
A connection is taken by some idle thread, with strong fairness, because the container keeps
the connections in a queue in their order: an idle thread may take another one first, and not
for ever.

The browser runs what is queued: timeouts (`TimerNext` of `PageViewer`) and animation frames
(`Frame`, `FirstFrame`, `FadeFrame`, `LastZoomFrame`), which ask for each other as long as a
page is open. In `TileDrawer` a load job ends, at the latest by its 30 seconds (`JobNext`). In
`IIPMooViewer` the timer ticks until every tile has its size (`Refresh`); that a tile loads in
the end is the hypothesis of `EveryViewSettles`. Answers to `info.json` are *not* fair:
`EveryPageIsDrawn` is about pages that have been opened. Users are never fair.

## 4. The proofs

Eight modules of proofs. Assumptions are the named ones in the modules, all of the
kind "null is not a key", "a bound is a number", "the digest of a view is a key".
The two theorems about requests one after the other state one more, `max_cache # 0`, since a
cache of capacity 0 deletes the file it is given before `cacheNewImage` can move it.

**`TileCache_proofs`, the cache**, for every finite set of keys and every capacity, 0
included. `SizeIsBounded`, `TypeCorrect` and
`RecencyStaysLinear` follow from `IInv`. The bound alone is not inductive: that an
over-full map gets smaller needs an eldest entry that is really there, hence an
order that is a line through exactly the cached keys. `FirstElement` shows such a
line has a first element (the least of the sets of predecessors, by the
well-foundedness of strict inclusion on finite sets), `MovedToEnd` and `Unlinked`
that the list operations leave a line, `PutNewEffect` that a put of a new key
either fits or drops exactly one entry. `FilesStayApart` and `FilesStayMatched`
follow from `FilesInv` and `PutEffect`: an eviction spares other entries' files
because no two entries share one.

`TileCacheIsLRU` is the refinement: `TileCacheHistory` implements `LRUCache`. Its
invariant `HInv` adds `Line` to `IInv`: the list of last calls holds exactly the cached keys,
each once, in the map's own order. `EntryUsed` and `KeyDropped` show that the list
operations of `LRUCache` (`Used`, `RemoveFirst`) and the relinking of the map keep the two in
step, and `HeadOfList` that the head of the one is the eldest entry of the other; after that
each of `Get`, `Put`, `Remove` and `Clear` is the abstract step of its name.

**`TileCache_proofs`, the region service**, for any threads, requests and faults.
`ServiceTypeCorrect`, `EntriesStayTrue`,
`NoWrongTileServed` and `LosersReadTheirOwn` follow from `ServiceInv`. Its heart is who
owns a file. A file is *free* if it belongs to a request that is still to come or
to one that has not given its file away: before its put, or in the simultaneous
branch (`Private`). `FileInv` says that no entry names a free file, that a
private file holds what its thread believes, and that the file a thread reads
because it found it in the cache is not free and holds the right tile, or is
empty, or gone. Free files never become free again (`FreeFilesShrink`); a thread
writes and deletes only its own private file (`FreeFileChanged`); and only `PutTile`
turns a private file into an entry's, deleting at most the file of an entry
(`FilesAfterPut`).

**`TileCache_proofs`, the image servlet**, for any sessions as well. Ownership does not carry over:
here a file's name wanders through the cache, the locals of several threads and the
attributes of a session, in two entries set one after the other, and the file may be
moved while all of them still name it. `SInv` says instead that every file has a
*meaning*, a key: there is a function from files to keys that every cache entry, every
local, every session attribute and the disk agree with. The function is extended when a
request is given its file, and never changed, so most steps preserve it by
copying one name. What a name of the session promises is not its own picture only (`MayHold`):
the full size's may mean any picture of the region at a factor that was asked for, and a
name with a factor in it is never announced (`Plain`), so that nothing comes under it. What it
needs besides is that a file nobody has written yet is
named by no announced reference, since such a file is empty for no fault.
`StoredStaysRight` and `SentIsRequested` follow.

`AnsweredIsStored` and `NothingIsRefused` are about the same threads as long as no two
requests overlap and nothing fails; once something does, nothing more is said
(`DisturbedInv`). `QuietInv` says where the one request is: at most one thread is not idle
(`Alone`), what it holds fits the place it has reached (`Place`: the entry, the file and the
session's attributes it will rely on are there), every entry's file exists, and every file that
exists is an entry's or the request's own. `SInv` supplies that the names it meets on its way
are those of its own tile, and `CacheInv`, with the eldest entry that `PutNewEffect` finds,
that a put does not evict what was just put.

**`RemoteImages_proofs`**, for any hosts, parts, faults and restarts.
`TheListIsRight` needs only who is converting. `NoFileStaysIncomplete` is about
several writers of one file, each of which truncated it when it opened it; the
invariant (`WriterInv`) is that a file is absent, whole, or has a writer that has
written all the parts up to its own offset: the one that truncated it last, whatever
the others have added. When that thread is done the file is whole. By `AttachedInv` a
thread writes to the file of the name only between opening and closing it, and
only while the file has not been deleted. `ImagesStayStored` is a property of pairs of
states far apart: from a state with a complete file and no thread at work on, `Kept` holds,
which lets threads ask for the image and shows that none of them gets to download it, until one
cannot read the Pairtree (`unread`, which never becomes false again).

**`MetadataCache_proofs`.** `MetadataTypeCorrect` and `InfoStaysRight` follow from
`IInv`: a file holds its own image's metadata or nothing (`FilesAreRight`); a thread
that is about to write holds the right metadata (`AnswersAreRight`); and a thread
that answers a call answers one that some thread waits for, and no two the same
(`CallsAreApart`), without which an answer could reach a thread that has gone on to
another request. `AloneFinds` adds `AloneInv`: a request that is not excused is the
only one for its image, and what it saw when it looked is there when it reads.
`WrittenFilesStay` is shown like `ImagesStayStored`: whoever finds a written file
never gets to the steps that delete or create one.

**`PageViewer_proofs`**, for any number of pages, openings and starts. `OneLoopEach`,
`TheNavigatorFollows` and `SettlesOnCurrentPage` follow from one invariant: what
is under way is for an opening so far, and the latest is for the current page
(`TimerInv`, `RequestInv`); the latest opening is a timer, a request, or has been
answered with a page or a message, unless an answer was overtaken or ended silently
(`CurrentInv`); and the navigator has the viewer's page, or the last of its timers
will bring it (`NavigatorInv`).

**`TileDrawer_proofs`**, for any pyramid and views. `PicturesStayMatched`, from an invariant
that adds to the property what it rests on: a drawer's list of loaded tiles is exactly its
loaded tiles while the page is open (`LoadedInv`), so that an eviction by the list takes away
no other's state, and a tile is only loading or loaded if it has been in sight (`SeenInv`), so
that who can share it is known from the views. `LoadedIsPainted` is about a single frame.
`Covers`, a recursive function, is unfolded with `CoversFixed`: what covers a tile is monotone
in the tiles that cover, so the union of all sets whose tiles are covered within the set is a
solution, and there is one to choose. Then consider the tiles of the stack that cover their
part and that the loop touches. There is one: the loaded tile, or the one of the finest level
that is wholly covered. The finest of them (`FinestOne`) is loaded and drawn: otherwise it is
covered by its children, one of which is in the stack (`StackLeadsDown`) and would be finer.
Here the assumption is used that a sight contains the coarser tiles over its own.

**`MouseTracker_proofs`**, for any number of fingers and any device. A handler is a fold over
the points of its event, and a fold of the library is a recursive function of which nothing is
known until it exists. `FoldExists` shows that it does for every step that maps its states to
themselves, by a least place where it would not (`LeastNumber`), and `FoldSteps` unrolls it
into the results after each point; `PointsEnter`, `PointsGoDown`, `PointsGoUp`,
`PointsLifted`, `PointsMove` and `PointsExit` then say what each loop does to a list, from
what one point does (`PointGoesDown`, `PointGoesUp` ...). All of them keep a list `Sound`: no
point twice, and nothing said of a point it does not hold. `ContactsStayCounted`,
`ListenersComeAndGo` and `LostTouchesAreDropped` follow from `IInv`. None of them is
inductive: what a release does to the count depends on whether the list still agrees with what
is really down, and that depends on the device and on what went wrong before. `Exact` says
that the list holds just what is down, all of it captured, counted and pressed. It holds of
touches until one is cancelled or lost, of pointer events until one is cancelled; after that
`Loose` remains for lost touches (nobody is left out of the list, and contacts are never too
many), which is enough for `touchstart` to find them, and `Counted` alone once a pointer was
cancelled, since `captureCount` then no longer follows what is down. That the listeners go
with what is down (`Heeds`) is a third part, since it is lost already by an event of several
touches, which leaves the list exact. A mouse is known while it is over the canvas, too
(`MouseInv`). `PointersAreTyped` comes with it.

**`ViewerControls_proofs`**, for any number of zoom buttons. `NeverFadeInUse`, `ZoomingEnds`,
`ThePageComesBack` and `FullPageMeansFullScreen` from the conjunction of the type invariant,
`FadeInv` (the viewer believes the mouse inside wherever it really is; while a timer may dim
the controls, or has, nobody uses the viewer, unless the first frame came late), `ZoomInv`
(`ZoomEnds`, and that there is a viewport if the zooming did not begin early, so that no frame
of it gives up), `PageInv` (what is saved while the viewer fills the page) and
`FullPageHasScreen` itself.

**`TileQueries_proofs`**, for images and tiles of any size. `Pow2` is unfolded by its finite
beginnings (`ChainsAgree`, `ChainsExist`), `CeilDivCounts` says what rounding up counts, and
`MaxLevelIsRoot` that a greatest level exists. `UrlOfTile` shows that a tile is the same part
of the image whether it is asked for as a region or as the full image, and
`PixelsHaveTheirTile` follows from cutting a line into pieces (`PieceHolds`, `PiecesApart`).
`PregeneratedExactly` needs the invariant of the loops: what was asked for is a piece of a
level larger than a tile (`PathsAreSound`), and `x` and `y` are at some column and row of some
level, with every piece of the levels, columns and rows before it asked for (`Reached`). When
the loops are done they have passed every level larger than a tile because powers of two grow
(`Pow2Grows`).

**`TileQueries_proofs`, IIPMooViewer**, for any pictures, window, tiles, drags and moves, and
positions as fine as one likes (`Px`). `ViewerIsTyped`, `LevelsStayMatched`,
`WindowStaysTiled` and `DropsStayInPlace` follow from `ViewerInv`. A good view (`GoodView`) is
laid out for a level of the picture and begins in it; `ZoomInKeeps`, `ZoomOutKeeps` and
`ScrollKeeps` carry it from view to view, and `OpenedAtLevel` shows that the page opens with
one: `calculateMinSizes` finds how often to halve (`FittingExists`), names the level below,
and the zooms of `createWindows` set it right. The tiles on the page and the snapshot are
those of the view (`AskedFor`, `UrlFor`), and of a good view they are the right ones
(`ViewIsTiled`), by arithmetic of quotients (`SeenIsInGrid`, `TileOfLevel`, `CornerRounded`).
The theorems on levels and tiles need `LevelsSuffice`, a hypothesis on the pictures that those
of the run satisfy: the smallest level fits the window, and what is too large along one axis
only has two levels below its full size. The server counts halvings until the longer side is
less than 96 pixels, which suffices for a window of 191 each way. But it offers no more levels
than the file has (`JP2ImageInfo`, line 317), and `zoomOut` does not ask: for a huge file with
few levels `res` goes below 0. For `DropsStayInPlace` the target is either back or within the
edges of the view it was dragged in (`WithinEdges`): each change of the view takes it back.

Only model-checked, on small instances:

* liveness, which needs `ENABLED`: `EveryRequestAnswered`, `EveryRequestReturns`,
  `EveryInfoAnswered`, `EveryPageIsDrawn`, `StillViewSettles`, `EveryViewSettles`,
  `ControlsFade`.

`PregeneratedTilesAreHit` is the property that is violated. Every other property that a run checks
is stated by a theorem.

## 5. Not modelled

* *Data of the modelled parts.* Rotation, level, layer and format of a tile: a view is
  opaque, and they enter the digest and the file name alike. The content of headers,
  cookies, redirects, pages and logs. The branch of `convert` that compresses images
  that are not JPEG 2000; local files and the translation of identifiers.
* *Service construction* (`ReferentManager`, the constructors): unsynchronised
  assignments of static fields at the first request. *Transformation plug-ins*: off in
  the default configuration. Both are listed as hazards. *Ingest*: commented out in
  `web.xml`.
* *Kakadu processes*: the programs are not in the repository, and what they write to
  their pipes decides whether a pipe fills; an extraction is one step that can fail, and
  leaves the whole picture or an empty file.
  *JNI extraction* wraps a library that is not there either.
* *IIIF requests, image arithmetic, object model, formats, access rules, statistics,
  ping, goals and tools*: sequential and without state. `CacheUtils.getCachingQueries`,
  whose rows are never reset, is called by the command line tool only.
* *Of OpenSeadragon*: the numbers of `Viewport` and its springs (floating point over
  time), overlays, the reference strip, collections, `jsonp`, tile sources other than
  IIIF, rotation, click and double click timing, the wheel, the keyboard (its handlers
  never fire on the `div` buttons), `setControlsEnabled`, `disable` and `enable`, and touch on
  the controls. `Drawer.reset` and `clearTiles` are never called.
* *Of MooTools*: everything but `Request`, `Drag` and `Fx` as IIPMooViewer uses them;
  of `purl.js` everything but a parameter of the query. `moocanvas.js`, `spectrum.js` and
  `djatoka.js` draw and set up, and decide nothing. `setScale` of IIPMooViewer and the layout of its
  windows draw, too.

## 6. State of the plan

Done: the layers of caches, downloads and info requests of the server, their
composition, and the two pages, with proofs of the invariants in eight modules.

Left, in the order of what it would add:

1. touch on the viewer's controls, in composition with `MouseTracker`;
2. the construction of the service and of `ReferentManager`, and the shared
   transformation;
3. the access rules, and the ingester, should they come back into `web.xml`.
