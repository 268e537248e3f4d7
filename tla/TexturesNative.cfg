CONSTANTS
    Fbos <- MCFbos
    MaxOdd = 2
    Textures <- MCTextures
    Drivers <- MCNativeDrivers
    Threads <- MCThreads
    Contexts <- MCContexts
    Launches <- MCLaunches
SPECIFICATION GraphicsSpec
\* With ST_PURE_SDL_CONTEXTS a run without an SDL context ends.
CHECK_DEADLOCK FALSE
INVARIANT TexturesServed
