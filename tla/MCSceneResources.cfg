SPECIFICATION Spec
CONSTANTS
    m1 = m1
    m2 = m2
    n1 = n1
    n2 = n2
    t1 = t1
    t2 = t2
    Meshes = {m1, m2}
    Nodes = {n1, n2}
    Textures = {t1, t2}
    Basic = Basic
    Shaders = {glow}
    Uniforms = {map}
    Keys = {wall, brick}
    MeshSizes = {1}
    ImageSizes = {1, 2, 3}
    MaxMeshes = 2
    MaxMeshBytes = 2
    MaxNodes = 2
    MaxTextures = 2
    MaxTextureBytes = 3
    MaxImage = 2
    Placeholder = FALSE
    None = None
    Default = Default
    Unknown = Unknown
SYMMETRY Symmetry
INVARIANTS
    SceneExact
    BudgetsKept
    SetupAssetsReady
PROPERTIES
    NoLateUpload
    DrawsOwnMesh
CHECK_DEADLOCK FALSE
