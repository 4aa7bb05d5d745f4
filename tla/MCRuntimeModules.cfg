\* Two VMs, three modules for two slots, three backends for two places.
CONSTANTS
    v1 = v1  v2 = v2  gpu = gpu  audio = audio  net = net
    default = default  gl = gl  vk = vk
    VMs = {v1, v2}
    ModuleNames = {gpu, audio, net}
    BackendNames = {default, gl, vk}
    DEFAULT = default
    SCML_RUNTIME_MODULES_MAX = 2
    SCML_RUNTIME_BACKENDS_MAX = 2
    SCML_NATIVE_MODULES_MAX = 2
SPECIFICATION Spec
SYMMETRY Symmetry
INVARIANTS RegistryTypeOK NamesUnique
PROPERTIES SelectionStable RoutesKept
